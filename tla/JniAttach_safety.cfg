SPECIFICATION FairSpec
CONSTANTS
  Threads = {t1, t2}
  Envs = {e1, e2, e3}
  Contexts = {c1, c2}
  NoThread = NoThread
  NoEnv = NoEnv
  NoContext = NoContext
INVARIANTS
  TypeOK
  VmDecisionCurrent
  AcquiredEnvCurrent
  HandlesCurrent
  LocalRefsOwned
PROPERTIES
  AbstractSpec
  LockReleased
