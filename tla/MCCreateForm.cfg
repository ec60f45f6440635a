SPECIFICATION Spec
CONSTANTS
  Tabs = {tab1, tab2}
  Keys = {key1, key2}
  Slugs = {guide, note, bad}
  InvalidSlugs = {bad}
  None = None
  MaxVisits = 2
SYMMETRY Symmetry
INVARIANTS
  OneItemPerVisit
  SuccessIsTrue
