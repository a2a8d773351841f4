CONSTANTS
  Workers = {w1, w2}
  Conns = {c1, c2}
  Stalled = {c2}
  FileExists = TRUE
  Addr = {a1, a2}
  NULL = NULL
  Freed = Freed
  NoThread = NoThread
  NoFd = NoFd
SPECIFICATION FairSpec
INVARIANTS WellFormed DequeueSafe WorkConserving OneOwner GracefulDrain AtMostOneMissed
PROPERTIES ImplementsFifo ImplementsService ConnectionServed ShutdownEnds
CHECK_DEADLOCK FALSE
