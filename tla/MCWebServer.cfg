CONSTANTS
  c1 = c1
  c2 = c2
  Clients <- MCClients
  Patient <- MCPatient
  Slow <- MCSlow
  Scripts <- MCScripts
  RecvMax = 2
  BufSize = 4
  SndBuf = 2
  FileLen = 3
  ChunkSize = 2
  DirLen = 2
  Disk <- MCDisk
  Urls <- MCUrls
  FdLimits = {1, 3}
  NoClient = NoClient
SPECIFICATION FairSpec
INVARIANTS ReceivesAll AnswersRequested AnswersMeant ExitExplained
PROPERTIES PatientServed LeaversClosed
CHECK_DEADLOCK FALSE
