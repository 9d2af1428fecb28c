SPECIFICATION Spec
CONSTANTS
  Recipient = recipient
  Strays = {s}
  None = none
  StrayKinds <- AllKinds
  Frames = 2
INVARIANTS FramesArriveWhole
PROPERTIES AcceptFailsForCause SessionEnds
CHECK_DEADLOCK FALSE
