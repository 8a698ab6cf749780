SPECIFICATION FairSpec
CONSTANTS
  MaxRequests = 5
  Worlds <- MCWorlds
INVARIANTS InOnePlace ReadWatched ResponsesMatch
PROPERTIES EventuallySent
CHECK_DEADLOCK FALSE
