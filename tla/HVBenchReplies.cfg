SPECIFICATION FairSpec
CONSTANTS
  n1 = n1
  l1 = l1
  l2 = l2
  MaxTenant = 1
  Nodes <- OneNode
  Loops <- OneLoop
  Scenarios <- MCPatientScenario
PROPERTIES RepliesHandled
CHECK_DEADLOCK FALSE
