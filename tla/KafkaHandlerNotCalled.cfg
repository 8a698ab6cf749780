SPECIFICATION FairSpec
CONSTANTS
  MaxRequests = 2
  Worlds <- CalmWorld
PROPERTIES EventuallyCalled
CHECK_DEADLOCK FALSE
