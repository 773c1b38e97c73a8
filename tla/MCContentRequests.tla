------------------------- MODULE MCContentRequests -------------------------
(***************************************************************************)
(* ContentRequests with three nodes that all have the same prefix, and the  *)
(* answering node of the first stream forgetting it.                       *)
(***************************************************************************)
EXTENDS ContentRequests, TLC

CONSTANTS a, b, c

MCResetters == {<<1, "resp">>}
SamePrefix  == [n \in Nodes |-> 1]
SymmetryAll == Permutations(Nodes)
=============================================================================
