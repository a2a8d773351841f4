CONSTANTS
  MaxTyped = 3
  BufSize = 2
  SockCap = 2
SPECIFICATION FairSpec
INVARIANTS Intact
PROPERTIES EndsTogether Delivered
CHECK_DEADLOCK FALSE
