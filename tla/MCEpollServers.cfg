CONSTANTS
  c1 = c1
  c2 = c2
  c3 = c3
  c4 = c4
  Clients <- MCClients
  Setups <- MCSetups
  MaxSaid <- MCMaxSaid
  BufSize = 2
  NoClient = NoClient
  MaxConn = 2
  Stalled = {c2}
  SockCap = 1
  Limit = 1
  MaxTyped = 2
SPECIFICATION FairSpec
INVARIANTS RoomIntact RoomStopExplained ReconnectIntact
PROPERTIES RoomHears IdleTimesOut ReconnectEnds BacklogAccepted
CHECK_DEADLOCK FALSE
