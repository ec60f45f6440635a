SPECIFICATION FairSpec
CONSTANTS
  Tabs = {tab1}
  Keys = {key1}
  Slugs = {guide, bad}
  InvalidSlugs = {bad}
  None = None
  MaxVisits = 1
PROPERTIES
  EnabledWhenRenewed
