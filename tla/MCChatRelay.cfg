CONSTANTS
  c1 = c1
  c2 = c2
  c3 = c3
  Clients <- MCClients
  MaxConn = 1
  MaxSaid <- MCMaxSaid
  RecvMax = 2
  Stalled = {c3}
  SockCap = 2
  FdLimits = {2, 3}
  NoClient = NoClient
SPECIFICATION FairSpec
INVARIANTS ArrayIntact StopExplained RelayIntact
PROPERTY EverythingHeard
CHECK_DEADLOCK FALSE
