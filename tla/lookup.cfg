SPECIFICATION FairSpec
CONSTANTS
  Self = 0
  Nodes = {2, 4, 5, 6}
  Keys = {7}
  Distance <- MCDistance
  LogDistance <- MCLogDistance
  BucketSize = 2
  Limit = 2
  Fanout = 2
  MaxPings = 1
  MaxEvictions = 1
  Lookups = {1}
  AnswerFrom = 3
INVARIANTS
  OfferedOnce
  MarksAreOffers
  AskedOnce
  FailsOnlyWhenAllAsked
PROPERTIES
  LookupEnds
CHECK_DEADLOCK FALSE
