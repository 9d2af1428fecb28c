SPECIFICATION FairSpec
CONSTANTS
  Window = 2
  Batch = 2
  WordSize = 64
  Scenes <- AnyOrSettled
INVARIANTS InOrderArrival IntactOnSuccess BufferAligned ResumePointHeld WindowArithmetic
PROPERTY TransferEnds
CHECK_DEADLOCK FALSE
