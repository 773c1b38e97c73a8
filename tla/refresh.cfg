SPECIFICATION FairNodeSpec
CONSTANTS
  Self = 0
  Nodes = {2, 4, 6}
  Keys = {}
  Distance <- MCDistance
  LogDistance <- MCLogDistance
  BucketSize = 2
  Limit = 2
  Fanout = 2
  MaxPings = 4
  MaxEvictions = 1
  BootNodes = {4}
  Refreshes = {1}
  Ids = {0, 2, 3, 4, 6, 7}
  Alpha = 2
  MaxNew = 1
  MinDistance = 1
  MaxDistance = 3
  SomeKnown = 1
  ManyKnown = 2
INVARIANTS
  LookupIsBounded
PROPERTIES
  RefreshEnds
CHECK_DEADLOCK FALSE
