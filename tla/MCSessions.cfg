CONSTANTS
  Kinds = {"get", "logout", "password", "qr", "enable", "disable"}
  NoId = NoId
  NoPassword = NoPassword
  Free = Free
  Ids = {s1, s2}
  Passwords = {p1, p2}
  Threads = {t1, t2}
  MaxGeneration = 2
  MaxTime = 0
  SECOND = 1
  IDLE_TIMEOUT = 0
  ABSOLUTE_TIMEOUT = 0
  PERSIST_INTERVAL = 1
SYMMETRY AnyName
SPECIFICATION Spec
INVARIANT RowsProveCredential
PROPERTY AcceptedProveCredential
