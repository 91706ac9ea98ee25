SPECIFICATION Spec
CONSTANTS
  File <- MCFile
  Data <- MCData
  Lengths <- MCLengths
  Offsets <- MCOffsets
  MaxLens <- MCMaxLens
  Values <- MCValues
  MaxWritten = 3
INVARIANTS
  NoOverrun
  DeliveredBytes
PROPERTIES
  WritesWhatIsAsked
  JunkOnlyWithoutArray
  AbstractSpec
CHECK_DEADLOCK FALSE
