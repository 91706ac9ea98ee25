SPECIFICATION Spec
CONSTANTS
  Buffers = {b1}
  Names = {n1, n2}
  NoClass = NoClass
  MaxFaults = 1
  Reuse = TRUE
INVARIANTS
  CachedAnswerCurrent
CHECK_DEADLOCK FALSE
