SPECIFICATION FairSpec
CONSTANTS
  Load = {l1, l2, l3}
  None = None
  l1 = l1
  l2 = l2
  l3 = l3
INVARIANTS
  ProxyStaysUp
  IdentityIsWhole
PROPERTIES
  
  ComesUp
CHECK_DEADLOCK FALSE
