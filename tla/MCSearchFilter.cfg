SPECIFICATION RouteSpec
CONSTANTS
  Limit = 2
  MaxFound = 2
INVARIANTS
  FilterIsKept
