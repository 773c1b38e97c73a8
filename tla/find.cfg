SPECIFICATION FairSpec
CONSTANTS
  N = 3
  RandNrs = {0, 2}
  MaxSack = 3
  MaxLost = 1
  MaxDups = 1
  MaxOvertaken = 1
INVARIANTS
  AckedIsHeld
  AckedWasSent
  ThrowsOnlyAtEarlyFin
PROPERTIES
  TransferSpec
  EventuallyDelivered
CHECK_DEADLOCK FALSE
