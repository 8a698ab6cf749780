SPECIFICATION FairSpec
CONSTANTS
  echo = echo
  flow_mod = flow_mod
  main = main
  aux = aux
  Types <- MCTypes
  ReplyTypes <- MCReplyTypes
  Own = main
  Others = {}
  BlockSize = 2
  PoolBlocks = 3
  Faults <- NoFaults
  MaxXid = 3
  MaxTime = 1
  MaxUnasked = 0
PROPERTIES EventuallySettled ImplementsPromise
CHECK_DEADLOCK FALSE
