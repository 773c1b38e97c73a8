SPECIFICATION Spec
CONSTANTS
  Self = 0
  Nodes = {2, 4}
  Keys = {6, 7}
  Distance <- MCDistance
  LogDistance <- MCLogDistance
  BucketSize = 2
  Limit = 2
  Fanout = 2
  MaxPings = 1
  MaxEvictions = 0
  Lookups = {1}
  AnswerFrom = 3
INVARIANT ReturnsContentSought
CHECK_DEADLOCK FALSE
