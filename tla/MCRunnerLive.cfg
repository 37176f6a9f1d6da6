SPECIFICATION Spec
CONSTANTS
  b1 = b1
  b2 = b2
  zip = zip
  web = web
  worker = worker
  None = None
  Partial = Partial
  Web = web
  MaxBuildpacks = 2
  Buildpacks <- MCBuildpacks
  Leftovers <- MCLeftovers
  ProcTypes <- MCProcTypes
  Layouts <- AllLayouts
PROPERTIES
  Terminates
  ImplementsBuild
