SPECIFICATION Spec
CONSTANTS
  g = g
  h1 = h1
  h2 = h2
  h3 = h3
  h4 = h4
  f3 = f3
  x = x
  EpochSize = 2
  Headers = {g, h1, h2, h3, h4, f3, x}
  Sent = {h1, h2, h3, h4, x}
  Genesis = g
  Number <- MCNumber
  Parent <- MCParent
  Difficulty <- MCDifficulty
  Snapshots <- MCSnapshots
  Unverified <- MCUnverified
  Bodies = {}
  Connected = FALSE
  GossipLimit = 2
  Window = 1
  MaxPending = 3
  MaxQueue = 1
  MaxCalls = 3
  MaxCrashes = 1
INVARIANTS
  TypeOK
  AccumulatorIsChain
  EpochsAreStored
  HeadersMissingByCrash
  NumbersResolve
PROPERTIES
  HeightNeverFalls
CHECK_DEADLOCK FALSE
