CONSTANTS
  Kinds = {"get", "logout"}
  NoId = NoId
  NoPassword = NoPassword
  Free = Free
  Ids = {s1}
  Passwords = {p1}
  Threads = {t1, t2}
  MaxGeneration = 1
  MaxTime = 7
  SECOND = 2
  IDLE_TIMEOUT = 3
  ABSOLUTE_TIMEOUT = 5
  PERSIST_INTERVAL = 2
SYMMETRY AnyName
SPECIFICATION Spec
PROPERTIES IdleBound RevokedForGood
