SPECIFICATION Spec
CONSTANTS
  Editors = {tab1, tab2}
  Edits = {k1, k2}
  InvalidEdits = {}
  None = None
SYMMETRY Symmetry
INVARIANTS
  BaselineIsBaseRevision
  SaveInFlightIsShown
  ConflictHasWayOut
PROPERTIES
  LocalEditsKept
  RefinesHistory
