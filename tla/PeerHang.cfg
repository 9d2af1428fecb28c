SPECIFICATION Spec
CONSTANTS
  Styles <- OnlineSender
  Frames = 4
  Trickles = 2
  Capacity = 2
  MaxPending = 2
  MaxDrain = 2
  SctpBuffer = 2
  Grace = 1

PROPERTIES WaitReturns
CHECK_DEADLOCK FALSE
