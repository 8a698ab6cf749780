SPECIFICATION Spec
CONSTANTS
  NodeMessages = 3
  NodeFlips = 2
  NodeTimers = 2
  Writers = {"t1"}
  GlobalChanges = 2
  GlobalFailures = 1
  ReportBound = 1
  GeneratorKinds <- MCKinds
  RequestTypes = {"ECHO_REQUEST", "FLOW_MOD"}
  Gaps = {0, 2}
  Reference = 1
  Leftovers = {0, 1}
  Horizon = 4
  GenUpdates = 2
  Dir = "dir"
  Key = "key"
  Ordered <- MCOrdered
  EtcdValues = {"a", "b"}
  EtcdStores <- MCStores
  MaxCalls = 2
  MaxBroken = 1
  MaxTokens = 8
  Points = {0, 10, 34, 65, 128, 2048, 55295, 65535, 65536, 1114111}
  MaxPieces = 2
  MemberNames = {"n", "m"}
  MaxDepth = 2
  MaxLive = 4
  MaxItems = 2
  KafkaTopics <- MCTopics
  KafkaMessages <- MCMessages
  MaxRequestOps = 3
  FetchedSets <- MCSets
  KafkaCuts = {5, 15}
  MaxSent = 2
INVARIANTS OneEchoOutstanding ReportsOnePair HandedAsConfigured OutcomeIsTrue
INVARIANTS ParsersAgree TextComesBack StringsComeBack ValuesOwnTheirMemory
INVARIANTS RequestsUnderstood ResponsesRead MessagesVisited
PROPERTIES Connects NodeStops OutputConverges
CHECK_DEADLOCK FALSE
