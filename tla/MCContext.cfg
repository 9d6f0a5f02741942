CONSTANTS
  main = main
  a = a
  b = b
  Thread <- MCThread
  Prio <- MCPrio
  PicMask <- MCPicMask
SPECIFICATION ContextSpec
CHECK_DEADLOCK FALSE
INVARIANTS ThreadsTypeOK ReadyListExact SchedInv
           ContextTypeOK RegistersKept StackBalanced FlagAsScheduled TimerRearmed
PROPERTY RoundRobin
