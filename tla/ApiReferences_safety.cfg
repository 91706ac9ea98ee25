SPECIFICATION Spec
CONSTANTS
  Refs = {r1, r2, r3, r4, r5}
  NoRef = NoRef
  MaxTurns = 2
  MaxFailures = 2
INVARIANTS
  TypeOK
  GlobalsOwned
  UsesLive
  LocalsPriced
PROPERTIES
  OnlyAppendLoses
CHECK_DEADLOCK FALSE
