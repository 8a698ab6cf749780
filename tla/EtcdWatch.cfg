SPECIFICATION FairSpec
CONSTANTS
  MaxChanges = 5
  Window = 2
  MAX_FAILURES = 3
INVARIANTS NoneSkipped GivesUpInARow
PROPERTIES EventuallyHandled
CHECK_DEADLOCK FALSE
