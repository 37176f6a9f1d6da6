SPECIFICATION Spec
CONSTANTS
  custom = custom
  ruby = ruby
  u = u
  v = v
  None = None
  Names <- MCNames
  Urls <- MCUrls
  MaxBuildpacks = 3
  Files = {1, 2, 3}
  Parts <- MCParts
INVARIANTS
  TypeOK
  FailsForAReason
PROPERTIES
  ImplementsInstaller
