SPECIFICATION FairExchangeSpec
CONSTANTS
  h = h
  b = b
  d = d
  r = r
  e = e
  Base = 2
  Clients = {n1, n2}
  Keys = {h, b, r, e}
  Kind <- MCKind
  HeaderOf <- MCHeaderOf
  Bytes <- MCBytes
  Garbage <- MCGarbage
  PacketSize = 2
  Transfers = {1}
INVARIANTS
  WrongOnlyIfDisturbed
  DoneMeansStored
PROPERTIES
  TransfersEnd
CHECK_DEADLOCK FALSE
