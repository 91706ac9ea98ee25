SPECIFICATION Spec
CONSTANTS
  Threads = {t1, t2}
  Envs = {e1, e2}
  Contexts = {c1, c2}
  NoThread = NoThread
  NoEnv = NoEnv
  NoContext = NoContext
PROPERTIES
  DetachedByFirstContext
