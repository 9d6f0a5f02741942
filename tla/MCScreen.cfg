CONSTANTS
  Cols = 3
  Rows = 3
  Byte = 4
  Calls <- MCCalls
  Numbers <- MCNumbers
  Messages <- MCMessages
  Unknown <- MCUnknown
  Key <- MCKey
  MaxKeys = 3
SPECIFICATION EchoSpec
CHECK_DEADLOCK FALSE
INVARIANTS ScreenTypeOK CursorFollowsText  HardwareCursorFollows
           PrintkExpands ConversionsExact
