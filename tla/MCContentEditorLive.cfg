SPECIFICATION FairSpec
CONSTANTS
  Editors = {tab1, tab2}
  Edits = {k1, bad}
  InvalidEdits = {bad}
  None = None
PROPERTIES
  EveryWaitEnds
