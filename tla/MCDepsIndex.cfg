SPECIFICATION Spec
CONSTANTS
  Sizes <- MCSizes
INVARIANTS
  TypeOK
PROPERTIES
  ListedInOrder
