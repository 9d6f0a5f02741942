CONSTANTS
  MemSize <- MCMemSize
  MaxPages = 2
  JunkBits = 1
  StaleTables <- MCStaleTables
  ENTRIES = 8
  KDIR = 4
  KLOW = 2
SPECIFICATION PagingSpec
CHECK_DEADLOCK FALSE
INVARIANT FailureIsReported
