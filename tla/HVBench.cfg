SPECIFICATION FairSpec
CONSTANTS
  n1 = n1
  l1 = l1
  l2 = l2
  MaxTenant = 2
  Nodes <- OneNode
  Loops <- TwoLoops
  Scenarios <- MCScenarios
INVARIANTS EndsCleanly
PROPERTIES ConnStable SwitchNoticed Quits
CHECK_DEADLOCK FALSE
