SPECIFICATION Spec
CONSTANTS
  custom = custom
  ruby = ruby
  other = other
  Strings = {custom, ruby, other}
  MaxBuildpacks = 3
INVARIANTS
  TypeOK
  FailsForAReason
  KeysAsProvided
