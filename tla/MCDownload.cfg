SPECIFICATION Spec
CONSTANTS
  x = x
  y = y
  Blocks <- MCBlocks
  MaxBlocks = 3
INVARIANTS
  TypeOK
  FailsForAReason
PROPERTIES
  ImplementsInstaller
