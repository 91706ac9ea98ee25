SPECIFICATION LocalsSpec
CONSTANTS
  Buffers = {b1}
  Names = {n1, n2}
  NoClass = NoClass
  MaxFaults = 4
  Reuse = TRUE
INVARIANTS
  TypeOK
  DetailsOwned
  LockFollowsStack
  RefsCached
  DepthBounded
  LocalsOfFailure
PROPERTIES
  CallsEnd
CHECK_DEADLOCK FALSE
