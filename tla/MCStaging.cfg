SPECIFICATION Spec
CONSTANTS
  SystemFail = 1
  ScriptFails <- MCScriptFails
  KilledCode = 137
INVARIANTS
  TypeOK
  AtMostOneCallback
  SuccessIsTrue
  InputsReady
  
  ExitCodeKept
PROPERTIES
  ImplementsStagingTask
