CONSTANTS
  c1 = c1
  c2 = c2
  Clients <- MCClients
  Patient <- MCPatient
  Slow <- MCSlow
  Scripts <- MCMissing
  RecvMax = 2
  BufSize = 4
  SndBuf = 2
  FileLen = 3
  ChunkSize = 2
  DirLen = 2
  Disk <- MCDisk
  Urls <- MCNoUrls
  FdLimits = {3}
  NoClient = NoClient
SPECIFICATION Spec
INVARIANT MissingGets404
CHECK_DEADLOCK FALSE
