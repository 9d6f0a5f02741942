CONSTANTS
  main = main
  a = a
  b = b
  x = x
  y = y
  NULL = NULL
  LINK = LINK
  Thread <- MCThread
  Prio <- MCPrio
  PicMask <- MCPicMask
  buf_size = 4
  Char <- MCChar
  HeadNext <- MCHeadNext
  TailPrev <- MCTailPrev
SPECIFICATION IOQueueFair
CHECK_DEADLOCK FALSE
PROPERTY WaitingReaderIsServed
