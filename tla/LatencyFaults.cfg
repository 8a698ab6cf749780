SPECIFICATION Spec
CONSTANTS
  echo = echo
  flow_mod = flow_mod
  main = main
  aux = aux
  Types <- MCTypes
  ReplyTypes <- MCReplyTypes
  Own = main
  Others = {aux}
  BlockSize = 2
  PoolBlocks = 1
  Faults <- AllFaults
  MaxXid = 3
  MaxTime = 1
  MaxUnasked = 1
INVARIANTS SampleGenuine SampledOnce Conservation
PROPERTIES DiscardsOnlyOlder
CHECK_DEADLOCK FALSE
