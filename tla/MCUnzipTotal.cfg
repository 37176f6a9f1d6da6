SPECIFICATION Spec
CONSTANTS
  Paths <- MCPaths
  Above <- MCAbove
  MaxEntries = 2
  Limit = 3
INVARIANTS
  TotalWithinLimit
