---------------------------- MODULE RoutingTable ----------------------------
(***************************************************************************)
(* The routing table of a subprotocol: the k-buckets of the discv5 library,*)
(* and which content keys a peer is taken to know.  (The radius kept for a *)
(* peer is written and never read, and is left out.)  The operators take a *)
(* table to the table a method leaves behind.                              *)
(*                                                                         *)
(* Also the two answers a node reads off its table.  An ENR counts as one  *)
(* unit of its answer, so that Limit stands for the 1200 bytes.            *)
(***************************************************************************)
EXTENDS Integers, SequencesExt

CONSTANTS
  Self,              \* the node whose client this is
  Nodes,             \* the other nodes
  Keys,              \* content keys, each standing for its content id too
  Distance(_, _),    \* XOR of two ids
  LogDistance(_, _), \* position of its highest bit
  BucketSize,        \* nodes in a bucket, 16
  Limit              \* ENRs that fit into an answer

\* The distance to an id, as a XOR of ids, tells nodes apart.
TellsApart(id) == \A a, b \in Nodes : Distance(a, id) = Distance(b, id) => a = b

ASSUME TableAssumption ==
  /\ IsFiniteSet(Nodes) /\ Self \notin Nodes
  /\ {BucketSize, Limit} \subseteq Nat \ {0}
  /\ \A a, b \in Nodes \cup Keys \cup {Self} : Distance(a, b) \in Nat
  /\ \A k \in Keys : TellsApart(k)

\* A table: its nodes, and what each node is marked to know, gossipMap.
EmptyTable == [nodes |-> {}, gossip |-> [n \in Nodes |-> {}]]

BucketOf(ns, n) == {m \in ns : LogDistance(Self, m) = LogDistance(Self, n)}

\* What insertOrUpdate makes of the nodes ns.  All entries are Connected, and a
\* full bucket of connected entries takes no other.
InsertOrUpdate(ns, n) ==
  IF n \notin ns /\ Cardinality(BucketOf(ns, n)) >= BucketSize
  THEN ns ELSE ns \cup {n}

\* contentKeyKnownToPeer: the key is marked as known on the way.
KnownToPeer(t, n, k) == k \in t.gossip[n]
MarkKnown(t, ps) == [t EXCEPT !.gossip = [n \in Nodes |-> @[n] \cup {k \in Keys : <<n, k>> \in ps}]]

\* A slip of EvictNode: what was marked stays.
EvictNodeOnly(t, n) == [t EXCEPT !.nodes = @ \ {n}]

EvictNode(t, n) ==
  [nodes |-> t.nodes \ {n}, gossip |-> [t.gossip EXCEPT ![n] = {}]]

\* The count nodes of ns nearest to id, nearest first: before the i-th there are
\* i - 1 nearer ones.
Nearer(ns, id, n) == {m \in ns : Distance(m, id) < Distance(n, id)}

Nearest(ns, id, count) ==
  [i \in 1 .. Min({count, Cardinality(ns)}) |->
     CHOOSE n \in ns : Cardinality(Nearer(ns, id, n)) = i - 1]

----------------------------------------------------------------------------
(* What a node `me' that knows the nodes ns answers to the node `src'.     *)

\* handleFindNodes: the own ENR for the distance 0, for every other one the
\* nodes of that distance until the answer is full, which also ends the walk
\* over the distances.  The own ENR is pushed as long as there is some room.
NodesAnswer(ns, me, src, ds) ==
  LET At(d) == SetToSeq({n \in ns \ {src} : LogDistance(me, n) = d})
      Room(enrs) == Limit - Len(enrs)
      Add(a, d) ==
        IF a.full THEN a
        ELSE IF d = 0 /\ Room(a.enrs) > 0 THEN [a EXCEPT !.enrs = Append(@, me)]
        ELSE [enrs |-> a.enrs \o SubSeq(At(d), 1, Min({Room(a.enrs), Len(At(d))})),
              full |-> Len(At(d)) > Room(a.enrs)]
      answer[i \in 0 .. Len(ds)] ==
        IF i = 0 THEN [enrs |-> <<>>, full |-> FALSE] ELSE Add(answer[i - 1], ds[i])
  IN answer[Len(ds)].enrs

\* handleFindContent without the content: of the nearest known nodes those
\* nearer to the content than the node itself, as many as fit.
CloserAnswer(ns, me, src, k, count) ==
  LET near == ToSet(Nearest(ns, k, count))
  IN Nearest(Nearer(near, k, me) \ {src}, k, Limit)
=============================================================================
