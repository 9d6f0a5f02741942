CONSTANTS
  Cols = 3
  Rows = 3
  Byte = 4
  Calls <- MCCalls
  Numbers <- MCNumbers
  Messages <- MCMessages
  Unknown <- MCUnknown
  Key <- MCKey
  MaxKeys = 1
SPECIFICATION ScreenSpec
CHECK_DEADLOCK FALSE
INVARIANT CursorOnScreen
