CONSTANTS
  MemSize <- MCMemSize
  MaxPages = 9
  JunkBits = 1
  StaleTables <- MCStaleTables
  ENTRIES = 10
  KDIR = 5
  KLOW = 2
SPECIFICATION PagingSpec
CHECK_DEADLOCK FALSE
INVARIANT ScanFindsRoom
