SPECIFICATION Spec
CONSTANTS
  FreeListThreads = {"t1", "t2"}
  FreeListNodes = {"n1", "n2"}
  Consumers = {"c1", "c2"}
  Blocks = {"b1", "b2", "b3", "b4"}
  BlockSize = 2
  IndexMod = 16
  Loads <- MCLoads
  InitialIndexSize = 2
  MaxHeaders = 2
  InitialSlots = 2
  MaxIndices = 2
  HashThreads = {"t1", "t2", "t3"}
  TokenThreads = {"u1", "u2"}
  HashedId <- MCHashedId
  HashLoads <- MCHashLoads
  DequeueLoads <- MCDequeueLoads
  Quota = 2
  OffsetMod = 4
INVARIANTS RoomForReusedBlock
CHECK_DEADLOCK FALSE
