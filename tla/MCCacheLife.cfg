SPECIFICATION Spec
CONSTANTS
  ruby = "ruby"
  go = "go"
  SupplyDirs <- MCSupplyDirs
  MaxStagings = 4
  None = None
INVARIANTS
  TypeOK
  ForgottenStaysForgotten
  CachePassedOn
  StoredWithDroplet
