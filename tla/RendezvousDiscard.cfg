SPECIFICATION Spec
CONSTANTS
  Modes <- LocalMode
  MaxRetries = 2
  MaxBreaks = 2
  MaxDeaths = 0
  Quick = TRUE
PROPERTY FreshOfferIsKept
CHECK_DEADLOCK FALSE
