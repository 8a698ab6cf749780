SPECIFICATION FairSpec
CONSTANTS
  MaxChanges = 5
  Window = 2
  MAX_FAILURES = 3
PROPERTIES WatchedAfterRecovery
CHECK_DEADLOCK FALSE
