CONSTANTS
  BUFFERSIZE = 5
  TRANSIZE = 20
  NoThread = NoThread
SPECIFICATION FairSpec
INVARIANT RingIntact
PROPERTY ImplementsChannel
CHECK_DEADLOCK FALSE
