SPECIFICATION BlocksSpec
CONSTANTS
  Ids = {b1, b2, b3, b4}
  Contents = {c1, c2}
  None = None
  MaxBlocks = 3
  MaxColumns = 2
  MaxRows = 2
  MaxRelated = 2
  Words = {w1, w2}
  Marks = {"bold"}
  ListTypes = {"bullet_list"}
  MaxDepth = 2
  MaxNodes = 2
  MaxItems = 2
  MaxText = 1
  LeafBound = 2
SYMMETRY Symmetry
INVARIANTS
  SelectionExists
  InvalidIsVisible
PROPERTIES
  OthersUntouched
  LimitsLeft
  WordsKept
