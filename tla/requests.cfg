SPECIFICATION Spec
CONSTANTS
  a = a
  b = b
  c = c
  Nodes = {a, b, c}
  Prefix <- SamePrefix
  Kinds = {"find", "offer"}
  Ids = {0, 1, 2}
  MaxStreams = 2
  Doubled = {}
  Resetters <- MCResetters
INVARIANTS
  
  HandedUnderOwnKeys
  AcksAreOwn
SYMMETRY SymmetryAll
CHECK_DEADLOCK FALSE
