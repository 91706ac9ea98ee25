SPECIFICATION FairSpec
CONSTANTS
  Threads = {t1, t2}
  Envs = {e1, e2}
  NoEnv = NoEnv
  Main = t1
  LastKey = 2
  LastReport = 1
  NoValue = NoValue
  NoThread = NoThread
  MaxFaults = 2
INVARIANTS
  NeverContended
  RefsCounted
  WholeConfiguration
PROPERTIES
  CallsEnd
CHECK_DEADLOCK FALSE
