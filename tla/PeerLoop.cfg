SPECIFICATION Spec
CONSTANTS
  Styles <- AllStyles
  Frames = 4
  Trickles = 2
  Capacity = 2
  MaxPending = 2
  MaxDrain = 2
  SctpBuffer = 2
  Grace = 1
INVARIANTS FramesKeepTheirOrder FlushedMeansWritten
PROPERTIES ShutdownReturns LoopsEnd
CHECK_DEADLOCK FALSE
