CONSTANTS
  main = main
  a = a
  b = b
  c = c
  NULL = NULL
  Thread <- MCThread
  Prio <- MCPrio
  PicMask <- TimerUnmasked
  MaxDepth = 2
SPECIFICATION FairSpec
INVARIANTS ConsoleTypeOK NoPanic OneOwner WaitersExact NoLostWakeup Resumable
PROPERTIES LockImplemented ReadyRuns ConsoleFreed
