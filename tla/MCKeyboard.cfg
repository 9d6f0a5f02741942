CONSTANTS
  Key <- MCKey
  buf_size = 3
  MaxWire = 3
  MaxHeld = 2
  NoKey = NoKey
SPECIFICATION KeyboardSpec
INVARIANTS KeyboardTypeOK NoStuckModifier
PROPERTY QueuesRightColumn
