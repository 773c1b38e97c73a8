--------------------------- MODULE MCHistoryStore ---------------------------
(***************************************************************************)
(* HistoryStore with a chain g, h1 .. h4 in epochs of two, a header f3     *)
(* beside h3, and a header x that claims number 3 with the parent h1.      *)
(***************************************************************************)
EXTENDS HistoryStore

CONSTANTS g, h1, h2, h3, h4, f3, x

Pick(h, vg, v1, v2, v3, v4, vf, vx) ==
  CASE h = g  -> vg [] h = h1 -> v1 [] h = h2 -> v2 [] h = h3 -> v3
    [] h = h4 -> v4 [] h = f3 -> vf [] h = x  -> vx

MCNumber     == [h \in Headers |-> Pick(h, 0, 1, 2, 3, 4, 3, 3)]
MCParent     == [h \in Headers |-> Pick(h, g, g, h1, h2, h3, h2, h1)]
MCDifficulty == [h \in Headers |-> Pick(h, 1, 1, 2, 1, 1, 2, 1)]

FullEpoch == <<[hash |-> g, td |-> 1], [hash |-> h1, td |-> 2]>>
Second    == [hash |-> h2, td |-> 4]

\* A peer's accumulators: at height 2, and at height 3 on the other branch.
MCSnapshots ==
  {[epochs |-> <<FullEpoch>>, current |-> <<Second>>],
   [epochs |-> <<FullEpoch>>, current |-> <<Second, [hash |-> f3, td |-> 6]>>]}

MCUnverified == {<<"epoch", FullEpoch>>}
=============================================================================
