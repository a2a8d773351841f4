CONSTANTS
  WorkerNum = 2
  Conns = {c1, c2, c3}
  Stalled = {c2}
  NoFd = NoFd
  ExitMsg = ExitMsg
SPECIFICATION FairSpec
INVARIANTS PoolIntact StaysUp
PROPERTIES HandedServed ExitEnds OrphansEnd
CHECK_DEADLOCK FALSE
