SPECIFICATION CatalogAndLabsSpec
CONSTANTS
  Articles = {a, b, c}
  CatalogArticles = {x, y}
  Modules = {m, n}
  Paths = {p, q}
  Listed = 2
  Clients = {c1, c2}
  MaxToggles = 3
INVARIANTS
  CyclesReported
  ServedPathsAgree
  ReadinessIsExplained
  LeftoverHasReason
PROPERTIES
  ForeignClusterKept
CHECK_DEADLOCK FALSE
