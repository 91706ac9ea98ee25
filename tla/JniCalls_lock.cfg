SPECIFICATION FairSpec
CONSTANTS
  Buffers = {b1}
  Names = {n1}
  NoClass = NoClass
  MaxFaults = 2
  Reuse = FALSE
PROPERTIES
  LockReleased
CHECK_DEADLOCK FALSE
