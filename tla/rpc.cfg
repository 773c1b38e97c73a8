SPECIFICATION RpcSpec
CONSTANTS
  g = g
  h1 = h1
  h2 = h2
  h3 = h3
  f3 = f3
  EpochSize = 2
  Headers = {g, h1, h2, h3, f3}
  Sent = {h3}
  Genesis = g
  Number <- MCNumber
  Parent <- MCParent
  Difficulty <- MCDifficulty
  Snapshots <- MCSnapshots
  Unverified <- MCUnverified
  Bodies = {}
  Connected = FALSE
  GossipLimit = 2
  Window = 1
  MaxPending = 2
  MaxQueue = 1
  MaxCalls = 1
  MaxCrashes = 1
  Requests <- MCRequests
  TxCount <- MCTxCount
  UncleCount <- MCUncleCount
  Logs <- MCLogs
  Stray = {h2, h3}
INVARIANTS
  AnswerIsOfBlock
  NotFoundHasReason
PROPERTIES
  CallEnds
CHECK_DEADLOCK FALSE
