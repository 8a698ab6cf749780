SPECIFICATION Spec
CONSTANTS
  MaxRequests = 2
  Worlds <- CalmWorld
INVARIANTS OneWritePending
CHECK_DEADLOCK FALSE
