SPECIFICATION Spec
CONSTANTS
  Modes <- BothModes
  MaxRetries = 2
  MaxBreaks = 2
  MaxDeaths = 1
  Quick = FALSE
INVARIANTS NoStaleNegotiation
PROPERTY MeetOrEnd
CHECK_DEADLOCK FALSE
