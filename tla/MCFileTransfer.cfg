CONSTANTS
  IntSize = 2
  IntHalf = 8
  NameLen = 3
  FileLens = {0, 1, 2, 5, 6, 7, 8, 15, 16, 17, 19}
  MaxSendfile = 6
  SpliceMax = 4
SPECIFICATION FairSpec
INVARIANTS CompletionImpliesIntegrity HangsExplained
PROPERTY MmapCompletes
CHECK_DEADLOCK FALSE
