SPECIFICATION Spec
CONSTANTS
  Buffers = {b1}
  Names = {n1}
  NoClass = NoClass
  MaxFaults = 2
  Reuse = FALSE
INVARIANTS
  ClearedBeforeThrow
CHECK_DEADLOCK FALSE
