SPECIFICATION FairFlowSpec
CONSTANTS
  MaxRetries = 3
  Backoff <- MCBackoff
  AttemptMax = 5
  Offsets = {0, 1, 2}
  SleepMax = 5
INVARIANTS BackoffSchedule RetryWaitsAreBounded ExhaustedMeansSpent
PROPERTIES ClimbEnds
CHECK_DEADLOCK FALSE
