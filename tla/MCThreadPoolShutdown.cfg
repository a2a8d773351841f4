CONSTANTS
  Workers = {w1}
  Conns = {c1}
  Stalled = {}
  FileExists = TRUE
  Addr = {a1}
  NULL = NULL
  Freed = Freed
  NoThread = NoThread
  NoFd = NoFd
SPECIFICATION FairSpec
PROPERTY SignalTerminatesChild
CHECK_DEADLOCK FALSE
