CONSTANTS
  WorkerNum = 1
  Conns = {c1, c2}
  Stalled = {}
  NoFd = NoFd
  ExitMsg = ExitMsg
SPECIFICATION Spec
INVARIANT HandedOver
CHECK_DEADLOCK FALSE
