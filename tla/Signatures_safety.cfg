SPECIFICATION FairSpec
CONSTANTS
  Inputs <- MCInputs
  Char <- MCChar
  NUL = NUL
INVARIANTS
  StaysInString
  ReturnTypeFound
  ResultRead
PROPERTIES
  Ends
CHECK_DEADLOCK FALSE
