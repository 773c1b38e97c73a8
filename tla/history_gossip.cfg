SPECIFICATION Spec
CONSTANTS
  g = g
  h1 = h1
  h2 = h2
  h3 = h3
  h4 = h4
  f3 = f3
  x = x
  EpochSize = 3
  Headers = {g, h1, h2}
  Sent = {h1, h2}
  Genesis = g
  Number <- MCNumber
  Parent <- MCParent
  Difficulty <- MCDifficulty
  Snapshots = {}
  Unverified = {}
  Bodies = {h1, h2}
  Connected = TRUE
  GossipLimit = 2
  Window = 2
  MaxPending = 2
  MaxQueue = 3
  MaxCalls = 3
  MaxCrashes = 1
INVARIANTS
  BodiesHaveHeaders
  OwnResetLosesNothing
CHECK_DEADLOCK FALSE
