SPECIFICATION HostSpec
CONSTANTS
  MaxRetries = 2
  Backoff <- MCBackoff
  AttemptMax = 4
  Offsets = {0, 1}
  JoinMax = 2
INVARIANTS TypeOK FlapsConsumeBudget StoppedIsQuiet ReconnectingHasWakeup
PROPERTY GonePeerStops
CHECK_DEADLOCK FALSE
