SPECIFICATION FairSpec
CONSTANTS
  N = 3
  RandNrs = {0, 4}
  MaxSack = 3
  MaxLost = 1
  MaxDups = 1
  MaxOvertaken = 2
INVARIANTS
  TypeOK
  HandlersAccept
  AckedIsReceived
  FinAckMeansDelivered
PROPERTIES
  TransferSpec
  EventuallyDelivered
  EventuallyAllAcked
CHECK_DEADLOCK FALSE
