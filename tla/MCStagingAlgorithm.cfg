SPECIFICATION Spec
CONSTANTS
  SystemFail = 1
  ScriptFails <- MCScriptFails
  KilledCode = 137
PROPERTIES
  UnsupportedAlgorithmTold
