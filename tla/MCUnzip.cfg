SPECIFICATION Spec
CONSTANTS
  Paths <- MCPaths
  Above <- MCAbove
  MaxEntries = 3
  Limit = 2
INVARIANTS
  TypeOK
  FailsForAReason
  
PROPERTIES
  ImplementsInstaller
