----------------------------- MODULE LookupProofs -----------------------------
(***************************************************************************)
(* Proofs about ContentLookup and NodeLookup, for any finite set of nodes, *)
(* any keys, any lookups and refreshes, and any distance that tells nodes  *)
(* apart: a peer is offered a key once, by gossip and lookups together; a  *)
(* lookup of content asks no peer twice and gives up only when it has      *)
(* asked everybody; the lookup of a node is bounded.                       *)
(***************************************************************************)
EXTENDS ContentLookup, NodeLookup, ListLemmas, FiniteSetTheorems

----------------------------------------------------------------------------
(* Sets of numbers, and sequences.                                         *)

LEMMA MinIn ==
  ASSUME NEW S \in SUBSET Nat, S # {}
  PROVE  Min(S) \in S /\ \A n \in S : Min(S) <= n
  <1>1. PICK n \in S : \A m \in S : n <= m
    BY LeastNumber
  <1> QED  BY <1>1 DEF Min

LEMMA ToSetIsRange == ASSUME NEW s PROVE ToSet(s) = Range(s)
  BY DEF ToSet, Range

\* The sequence that SetToSeq makes of a finite set.
LEMMA SetToSeqProperties ==
  ASSUME NEW S, IsFiniteSet(S)
  PROVE  SetToSeq(S) \in Seq(S)
  <1> DEFINE F == {f \in [1 .. Cardinality(S) -> S] : IsInjective(f)}
  <1>1. Cardinality(S) \in Nat /\ F # {}
    BY FS_CardinalityType DEF ExistsBijection, Bijection, Injection
  <1>2. SetToSeq(S) \in [1 .. Cardinality(S) -> S]
    BY <1>1 DEF SetToSeq
  <1> QED  BY <1>1, <1>2

----------------------------------------------------------------------------
(* The routing table.                                                      *)

\* With the nodes ns, the number of nearer ones is another for every node, and
\* it is every number less than the number of nodes.
LEMMA Ranks ==
  ASSUME NEW ns \in SUBSET Nodes, NEW id, TellsApart(id), \A n \in Nodes : Distance(n, id) \in Nat
  PROVE  /\ IsFiniteSet(ns) /\ Cardinality(ns) \in Nat
         /\ \A n \in ns : Cardinality(Nearer(ns, id, n)) \in 0 .. Cardinality(ns) - 1
         /\ \A n, m \in ns : Distance(n, id) < Distance(m, id) =>
              Cardinality(Nearer(ns, id, n)) < Cardinality(Nearer(ns, id, m))
         /\ \A r \in 0 .. Cardinality(ns) - 1 : \E n \in ns : Cardinality(Nearer(ns, id, n)) = r
  <1> DEFINE rank == [n \in ns |-> Cardinality(Nearer(ns, id, n))]
             N == Cardinality(ns)
  <1>1. IsFiniteSet(ns) /\ N \in Nat
    BY TableAssumption, FS_Subset, FS_CardinalityType
  <1>2. ASSUME NEW n \in ns
        PROVE  IsFiniteSet(Nearer(ns, id, n)) /\ Cardinality(Nearer(ns, id, n)) \in 0 .. N - 1
    <2>1. n \notin Nearer(ns, id, n) /\ Nearer(ns, id, n) \in SUBSET (ns \ {n})
      BY DEF Nearer
    <2>2. IsFiniteSet(ns \ {n}) /\ Cardinality(ns \ {n}) = N - 1
      BY <1>1, FS_RemoveElement
    <2>3. /\ IsFiniteSet(Nearer(ns, id, n))
          /\ Cardinality(Nearer(ns, id, n)) <= Cardinality(ns \ {n})
      BY <2>1, <2>2, FS_Subset
    <2>4. Cardinality(Nearer(ns, id, n)) \in Nat
      BY <2>3, FS_CardinalityType
    <2> QED  BY <1>1, <2>2, <2>3, <2>4
  <1>3. ASSUME NEW n \in ns, NEW m \in ns, Distance(n, id) < Distance(m, id)
        PROVE  Cardinality(Nearer(ns, id, n)) < Cardinality(Nearer(ns, id, m))
    <2> DEFINE A == Nearer(ns, id, n)
               B == Nearer(ns, id, m)
    <2>1. n \notin A /\ A \cup {n} \in SUBSET B
      BY <1>3 DEF Nearer
    <2>2. IsFiniteSet(A) /\ IsFiniteSet(B) /\ Cardinality(A) \in Nat /\ Cardinality(B) \in Nat
      BY <1>2
    <2> HIDE DEF A, B
    <2>3. Cardinality(A \cup {n}) = Cardinality(A) + 1
      BY <2>1, <2>2, FS_AddElement
    <2>4. Cardinality(A \cup {n}) <= Cardinality(B)
      BY <2>1, <2>2, FS_Subset
    <2>5. Cardinality(A) < Cardinality(B)
      BY <2>2, <2>3, <2>4
    <2> QED  BY <2>5 DEF A, B
  <1>4. rank \in [ns -> 0 .. N - 1]
    BY <1>2
  <1>5. IsInjective(rank)
    <2> SUFFICES ASSUME NEW n \in ns, NEW m \in ns, rank[n] = rank[m] PROVE n = m
      BY DEF IsInjective
    <2>1. Cardinality(Nearer(ns, id, n)) = Cardinality(Nearer(ns, id, m))
      OBVIOUS
    <2>2. Distance(n, id) \in Nat /\ Distance(m, id) \in Nat
      OBVIOUS
    <2>3. Cardinality(Nearer(ns, id, n)) \in Nat /\ Cardinality(Nearer(ns, id, m)) \in Nat
      BY <1>1, <1>2
    <2>4. ~ (Distance(n, id) < Distance(m, id)) /\ ~ (Distance(m, id) < Distance(n, id))
      BY <1>3, <2>1, <2>3
    <2>5. Distance(n, id) = Distance(m, id)
      BY <2>2, <2>4
    <2> QED  BY <2>5 DEF TellsApart
  <1>6. IsFiniteSet(0 .. N - 1) /\ Cardinality(0 .. N - 1) = N
    <2>1. Cardinality(0 .. N - 1) = IF 0 > N - 1 THEN 0 ELSE N - 1 - 0 + 1
      BY <1>1, FS_Interval
    <2> QED  BY <1>1, <2>1, FS_Interval
  <1>7. rank \in Surjection(ns, 0 .. N - 1)
    <2>1. rank \in Injection(ns, 0 .. N - 1)
      BY <1>4, <1>5 DEF Injection
    <2> HIDE DEF rank
    <2> QED  BY <1>6, <2>1, FS_Injection
  <1>8. \A r \in 0 .. N - 1 : \E n \in ns : rank[n] = r
    BY <1>7 DEF Surjection
  <1> QED  BY <1>1, <1>2, <1>3, <1>8

LEMMA NearestProperties ==
  ASSUME NEW ns \in SUBSET Nodes, NEW id, TellsApart(id), \A n \in Nodes : Distance(n, id) \in Nat,
         NEW count \in Nat
  PROVE  Nearest(ns, id, count) \in Seq(ns) /\ Len(Nearest(ns, id, count)) <= count
  <1> DEFINE N == Cardinality(ns)
             L == Min({count, N})
  <1>1. N \in Nat
    BY Ranks
  <1>2. L \in Nat /\ L <= count /\ L <= N
    <2>1. {count, N} \in SUBSET Nat /\ {count, N} # {}
      BY <1>1
    <2>2. L \in {count, N} /\ \A n \in {count, N} : L <= n
      BY <2>1, MinIn
    <2> QED  BY <1>1, <2>2
  <1>3. ASSUME NEW i \in 1 .. L
        PROVE  (CHOOSE n \in ns : Cardinality(Nearer(ns, id, n)) = i - 1) \in ns
    <2>1. i - 1 \in 0 .. N - 1
      BY <1>1, <1>2
    <2>2. \E n \in ns : Cardinality(Nearer(ns, id, n)) = i - 1
      BY <2>1, Ranks
    <2> QED  BY <2>2
  <1>4. Nearest(ns, id, count) \in [1 .. L -> ns]
    BY <1>3 DEF Nearest
  <1> HIDE DEF L
  <1> QED  BY <1>2, <1>4

\* A full bucket takes no other node.
Full(ns, n) == Cardinality(BucketOf(ns, n)) >= BucketSize

LEMMA InsertProperties ==
  ASSUME NEW ns \in SUBSET Nodes, NEW n \in Nodes
  PROVE  /\ InsertOrUpdate(ns, n) \in SUBSET Nodes
         /\ ns \subseteq InsertOrUpdate(ns, n)
         /\ n \in InsertOrUpdate(ns, n) \/ Full(InsertOrUpdate(ns, n), n)
  BY DEF InsertOrUpdate, Full

\* A full bucket stays full while no node is evicted.
LEMMA FullStays ==
  ASSUME NEW ms \in SUBSET Nodes, NEW ns \in SUBSET ms, NEW n, Full(ns, n)
  PROVE  Full(ms, n)
  <1>1. IsFiniteSet(BucketOf(ms, n)) /\ BucketOf(ms, n) \in SUBSET Nodes
    BY TableAssumption, FS_Subset DEF BucketOf
  <1>2. BucketOf(ns, n) \in SUBSET BucketOf(ms, n)
    BY DEF BucketOf
  <1>3. /\ Cardinality(BucketOf(ns, n)) \in Nat /\ Cardinality(BucketOf(ms, n)) \in Nat
        /\ Cardinality(BucketOf(ns, n)) <= Cardinality(BucketOf(ms, n))
    BY <1>1, <1>2, FS_Subset, FS_CardinalityType
  <1> QED  BY <1>3, TableAssumption DEF Full

\* The answer to a FINDCONTENT names nodes.
LEMMA CloserAnswerProperties ==
  ASSUME NEW ns \in SUBSET Nodes, NEW me, NEW src, NEW k \in Keys, NEW count \in Nat
  PROVE  CloserAnswer(ns, me, src, k, count) \in Seq(Nodes)
  <1> DEFINE near == ToSet(Nearest(ns, k, count))
             some == Nearer(near, k, me) \ {src}
  <1>1. TellsApart(k) /\ \A n \in Nodes : Distance(n, k) \in Nat
    BY TableAssumption
  <1>2. Nearest(ns, k, count) \in Seq(ns)
    BY <1>1, NearestProperties
  <1>3. near \in SUBSET Nodes
    BY <1>2 DEF ToSet
  <1>4. some \in SUBSET Nodes
    BY <1>3 DEF Nearer
  <1> HIDE DEF some
  <1>5. Nearest(some, k, Limit) \in Seq(some)
    BY <1>1, <1>4, NearestProperties, TableAssumption
  <1>6. Nearest(some, k, Limit) \in Seq(Nodes)
    BY <1>4, <1>5
  <1> QED  BY <1>6 DEF CloserAnswer, some

\* The answer to a FINDNODES names nodes, no more than fit.
LEMMA NodesAnswerProperties ==
  ASSUME NEW ns \in SUBSET Nodes, NEW me \in Nodes, NEW src, NEW D, NEW ds \in Seq(D)
  PROVE  NodesAnswer(ns, me, src, ds) \in Seq(Nodes) /\ Len(NodesAnswer(ns, me, src, ds)) <= Limit
  <1> DEFINE At(d) == SetToSeq({n \in ns \ {src} : LogDistance(me, n) = d})
             Room(enrs) == Limit - Len(enrs)
             Add(a, d) ==
               IF a.full THEN a
               ELSE IF d = 0 /\ Room(a.enrs) > 0 THEN [a EXCEPT !.enrs = Append(@, me)]
               ELSE [enrs |-> a.enrs \o SubSeq(At(d), 1, Min({Room(a.enrs), Len(At(d))})),
                     full |-> Len(At(d)) > Room(a.enrs)]
             none == [enrs |-> <<>>, full |-> FALSE]
             Steps(f) == [i \in 0 .. Len(ds) |-> IF i = 0 THEN none ELSE Add(f[i - 1], ds[i])]
             answer == CHOOSE f : f = Steps(f)
             T == {a \in [enrs : Seq(Nodes), full : BOOLEAN] : Len(a.enrs) <= Limit}
  <1>1. NodesAnswer(ns, me, src, ds) = answer[Len(ds)].enrs
    BY DEF NodesAnswer
  <1>2. none \in T
    BY TableAssumption
  <1>3. ASSUME NEW a \in T, NEW d PROVE Add(a, d) \in T
    <2>1. At(d) \in Seq(Nodes)
      <3> DEFINE ms == {n \in ns \ {src} : LogDistance(me, n) = d}
      <3>1. ms \in SUBSET Nodes /\ IsFiniteSet(ms)
        BY TableAssumption, FS_Subset
      <3> HIDE DEF ms
      <3>2. SetToSeq(ms) \in Seq(ms)
        BY <3>1, SetToSeqProperties
      <3>3. SetToSeq(ms) \in Seq(Nodes)
        BY <3>1, <3>2
      <3> QED  BY <3>3 DEF ms
    <2> DEFINE at == At(d)
               L == Min({Room(a.enrs), Len(at)})
    <2>2. a = [enrs |-> a.enrs, full |-> a.full] /\ a.enrs \in Seq(Nodes) /\ a.full \in BOOLEAN
      OBVIOUS
    <2>3. Len(a.enrs) \in Nat /\ Len(a.enrs) <= Limit /\ Limit \in Nat
      BY TableAssumption
    <2> HIDE DEF At
    <2>4. at \in Seq(Nodes) /\ Len(at) \in Nat
      BY <2>1
    <2>5. L \in 0 .. Len(at) /\ L <= Limit - Len(a.enrs)
      <3>1. {Room(a.enrs), Len(at)} \in SUBSET Nat /\ {Room(a.enrs), Len(at)} # {}
        BY <2>3, <2>4
      <3>2. L \in {Room(a.enrs), Len(at)} /\ \A n \in {Room(a.enrs), Len(at)} : L <= n
        BY <3>1, MinIn
      <3> QED  BY <2>3, <2>4, <3>2
    <2> HIDE DEF L, at
    <2>6. CASE a.full
      BY <2>6
    <2>7. CASE ~ a.full /\ d = 0 /\ Room(a.enrs) > 0
      <3>1. Append(a.enrs, me) \in Seq(Nodes) /\ Len(Append(a.enrs, me)) <= Limit
        BY <2>2, <2>3, <2>7
      <3>2. Add(a, d) = [enrs |-> Append(a.enrs, me), full |-> a.full]
        BY <2>2, <2>7
      <3> QED  BY <2>2, <3>1, <3>2
    <2>8. CASE ~ a.full /\ ~ (d = 0 /\ Room(a.enrs) > 0)
      <3> DEFINE enrs == a.enrs \o SubSeq(at, 1, L)
      <3>1. SubSeq(at, 1, L) \in Seq(Nodes) /\ Len(SubSeq(at, 1, L)) = L
        BY <2>4, <2>5
      <3>2. enrs \in Seq(Nodes) /\ Len(enrs) <= Limit
        <4>1. enrs \in Seq(Nodes) /\ Len(enrs) = Len(a.enrs) + L
          BY <2>2, <3>1
        <4> HIDE DEF enrs
        <4> QED  BY <2>3, <2>5, <4>1
      <3>3. Add(a, d) = [enrs |-> enrs, full |-> Len(at) > Room(a.enrs)]
        BY <2>8 DEF at, L
      <3> HIDE DEF enrs, Add
      <3>4. [enrs |-> enrs, full |-> Len(at) > Room(a.enrs)] \in T
        BY <3>2
      <3> QED  BY <3>3, <3>4
    <2>9. (d = 0 /\ Room(a.enrs) > 0) \/ ~ (d = 0 /\ Room(a.enrs) > 0)
      OBVIOUS
    <2> HIDE DEF Add, Room, T
    <2> QED  BY <2>2, <2>6, <2>7, <2>8, <2>9
  <1> HIDE DEF Add, T, none
  <1> DEFINE G == [p \in (1 .. Len(ds)) \X T |-> Add(p[2], ds[p[1]])]
  <1>4. G \in [(1 .. Len(ds)) \X T -> T]
    BY <1>3
  <1>5. PICK f \in [0 .. Len(ds) -> T] : AreSteps(f, Len(ds), none, G)
    <2> HIDE DEF G
    <2>1. Len(ds) \in Nat
      OBVIOUS
    <2> QED  BY <1>2, <1>4, <2>1, StepsExist
  <1>6. f = Steps(f)
    <2>1. ASSUME NEW i \in 1 .. Len(ds) PROVE f[i] = Add(f[i - 1], ds[i])
      <3>1. i - 1 \in 0 .. Len(ds)
        OBVIOUS
      <3>2. <<i, f[i - 1]>> \in (1 .. Len(ds)) \X T
        BY <3>1
      <3>3. G[<<i, f[i - 1]>>] = Add(f[i - 1], ds[i])
        BY <3>2
      <3> QED  BY <1>5, <3>3 DEF AreSteps
    <2>2. \A i \in 0 .. Len(ds) : i = 0 \/ i \in 1 .. Len(ds)
      OBVIOUS
    <2> HIDE DEF G
    <2> QED  BY <1>5, <2>1, <2>2 DEF AreSteps
  <1>7. answer = Steps(answer)
    BY <1>6
  <1> HIDE DEF answer
  <1>8. answer[0] = none /\ \A i \in 1 .. Len(ds) : answer[i] = Add(answer[i - 1], ds[i])
    <2>1. \A i \in 0 .. Len(ds) : Steps(answer)[i] = IF i = 0 THEN none ELSE Add(answer[i - 1], ds[i])
      OBVIOUS
    <2> QED  BY <1>7, <2>1
  <1>9. answer[Len(ds)] \in T
    <2> DEFINE U == [i \in 0 .. Len(ds) |-> T]
    <2>1. /\ Len(ds) \in Nat /\ U[0] = T /\ U[Len(ds)] = T
          /\ \A i \in 1 .. Len(ds) : U[i] = T /\ U[i - 1] = T
      OBVIOUS
    <2>2. answer[0] \in U[0] /\ \A i \in 1 .. Len(ds) : answer[i - 1] \in U[i - 1] => answer[i] \in U[i]
      BY <1>2, <1>3, <1>8, <2>1
    <2> HIDE DEF U
    <2> QED  BY <2>1, <2>2, StepsLead
  <1> QED  BY <1>1, <1>9 DEF T

\* The queue of a lookup with a peer more.
LEMMA QueuedProperties ==
  ASSUME NEW q \in Seq(Nodes), NEW n \in Nodes, NEW k
  PROVE  Queued(q, n, k) \in Seq(Nodes) /\ Range(Queued(q, n, k)) = Range(q) \cup {n}
  <1> DEFINE further == {i \in DOMAIN q : Distance(q[i], k) > Distance(n, k)}
             at      == Min(further)
             p       == IF at = 1 THEN Len(q) ELSE at - 1
  <1>1. CASE further = {}
    <2>1. Queued(q, n, k) = Append(q, n)
      BY <1>1 DEF Queued
    <2> QED  BY <2>1, RangeAppend
  <1>2. CASE further # {}
    <2>1. further \in SUBSET Nat /\ further \subseteq 1 .. Len(q)
      OBVIOUS
    <2>2. at \in further
      BY <1>2, <2>1, MinIn
    <2>3. p \in 1 .. Len(q)
      BY <2>1, <2>2
    <2>4. Queued(q, n, k) = InsertAt(q, p, n)
      BY <1>2 DEF Queued
    <2> HIDE DEF p
    <2> DEFINE a == SubSeq(q, 1, p - 1)
               b == SubSeq(q, p, Len(q))
    <2>5. a \in Seq(Nodes) /\ b \in Seq(Nodes) /\ Range(q) = Range(a) \cup Range(b)
      BY <2>3, RangeSplit
    <2>6. Queued(q, n, k) = a \o <<n>> \o b
      BY <2>4 DEF InsertAt
    <2> HIDE DEF a, b
    <2> DEFINE one == <<n>>
    <2>7. one \in Seq(Nodes) /\ Range(one) = {n}
      BY RangeSingle
    <2> DEFINE c == a \o one
    <2>8. c \in Seq(Nodes) /\ Range(c) = Range(a) \cup {n}
      <3> HIDE DEF one
      <3>1. a \o one \in Seq(Nodes)
        BY <2>5, <2>7
      <3>2. Range(a \o one) = Range(a) \cup Range(one)
        BY <2>5, <2>7, RangeOfBoth
      <3> QED  BY <2>7, <3>1, <3>2
    <2>9. Queued(q, n, k) = c \o b
      BY <2>6
    <2> HIDE DEF c
    <2>10. c \o b \in Seq(Nodes) /\ Range(c \o b) = Range(c) \cup Range(b)
      BY <2>5, <2>8, RangeOfBoth
    <2> QED  BY <2>5, <2>8, <2>9, <2>10
  <1> QED  BY <1>1, <1>2

----------------------------------------------------------------------------
(* The table, whoever asks peers.                                          *)

TableInv ==
  /\ \E ns \in SUBSET Nodes : \E g \in [Nodes -> SUBSET Keys] : table = [nodes |-> ns, gossip |-> g]
  /\ evictions \in Nat

LEMMA TableNodes ==
  ASSUME TableInv
  PROVE  /\ table.nodes \in SUBSET Nodes
         /\ \A ns : [table EXCEPT !.nodes = ns].nodes = ns
         /\ \A ns \in SUBSET Nodes : table' = [table EXCEPT !.nodes = ns] /\ evictions' \in Nat
                                     => TableInv'
  <1>1. PICK ms \in SUBSET Nodes : \E g \in [Nodes -> SUBSET Keys] : table = [nodes |-> ms, gossip |-> g]
    BY DEF TableInv
  <1>2. PICK g \in [Nodes -> SUBSET Keys] : table = [nodes |-> ms, gossip |-> g]
    BY <1>1
  <1>3. \A ns : [table EXCEPT !.nodes = ns] = [nodes |-> ns, gossip |-> g]
    BY <1>2
  <1> QED  BY <1>2, <1>3 DEF TableInv

\* No peer leaves the table without an eviction.
NoneLeaves == evictions' = 0 => evictions = 0 /\ table.nodes \subseteq table'.nodes

LEMMA TableStays ==
  ASSUME TableInv, UNCHANGED <<table, evictions>> PROVE TableInv' /\ NoneLeaves
  BY DEF TableInv, NoneLeaves

LEMMA InsertStep ==
  ASSUME TableInv, NEW n \in Nodes, table' = [table EXCEPT !.nodes = InsertOrUpdate(@, n)],
         UNCHANGED evictions
  PROVE  TableInv' /\ NoneLeaves
  <1>1. table.nodes \in SUBSET Nodes
    BY TableNodes
  <1>2. /\ InsertOrUpdate(table.nodes, n) \in SUBSET Nodes
        /\ table.nodes \subseteq InsertOrUpdate(table.nodes, n)
    BY <1>1, InsertProperties
  <1>3. table'.nodes = InsertOrUpdate(table.nodes, n) /\ TableInv'
    BY <1>2, TableNodes DEF TableInv
  <1> QED  BY <1>2, <1>3 DEF NoneLeaves

LEMMA EvictStep ==
  ASSUME TableInv, NEW n \in Nodes, Evict(n) PROVE TableInv' /\ NoneLeaves
  <1>1. PICK ms \in SUBSET Nodes : \E g \in [Nodes -> SUBSET Keys] : table = [nodes |-> ms, gossip |-> g]
    BY DEF TableInv
  <1>2. PICK g \in [Nodes -> SUBSET Keys] : table = [nodes |-> ms, gossip |-> g]
    BY <1>1
  <1> DEFINE h == [g EXCEPT ![n] = {}]
  <1>3. table' = [nodes |-> ms \ {n}, gossip |-> h] /\ h \in [Nodes -> SUBSET Keys]
    BY <1>2 DEF Evict, EvictNode
  <1>4. evictions' \in Nat /\ evictions' # 0
    BY DEF TableInv, Evict
  <1>5. ms \ {n} \in SUBSET Nodes
    OBVIOUS
  <1> HIDE DEF h
  <1> QED  BY <1>3, <1>4, <1>5 DEF TableInv, NoneLeaves

LEMMA OfferStep ==
  ASSUME TableInv, NEW ps, Offer(ps), UNCHANGED evictions PROVE TableInv' /\ NoneLeaves
  <1>1. PICK ms \in SUBSET Nodes : \E g \in [Nodes -> SUBSET Keys] : table = [nodes |-> ms, gossip |-> g]
    BY DEF TableInv
  <1>2. PICK g \in [Nodes -> SUBSET Keys] : table = [nodes |-> ms, gossip |-> g]
    BY <1>1
  <1> DEFINE fresh == {p \in ps : ~ KnownToPeer(table, p[1], p[2])}
             h == [n \in Nodes |-> g[n] \cup {k \in Keys : <<n, k>> \in fresh}]
  <1>3. table' = [nodes |-> ms, gossip |-> h] /\ h \in [Nodes -> SUBSET Keys]
    BY <1>2 DEF Offer, MarkKnown
  <1> HIDE DEF h
  <1>4. table'.nodes = table.nodes
    BY <1>2, <1>3
  <1> QED  BY <1>3, <1>4 DEF TableInv, NoneLeaves

LEMMA PeerStep ==
  ASSUME TableInv, NEW n \in Nodes, SendPing(n) \/ Pong(n) \/ NoPong(n) \/ BadPong(n) \/ HandlePing(n)
  PROVE  TableInv' /\ NoneLeaves
  <1>1. CASE SendPing(n)
    BY <1>1, TableStays DEF SendPing
  <1>2. CASE Pong(n) \/ HandlePing(n)
    BY <1>2, InsertStep DEF Pong, HandlePing
  <1>3. CASE NoPong(n) \/ BadPong(n)
    BY <1>3, EvictStep, TableStays DEF NoPong, BadPong
  <1> QED  BY <1>1, <1>2, <1>3

----------------------------------------------------------------------------
(* The lookups of content.                                                 *)

LookupType ==
  [key : Keys, pc : {"idle", "asking", "streaming", "found", "failed"}, queue : Seq(Nodes),
   asked : SUBSET Nodes, at : Nodes \cup {Self}, contacted : SUBSET (Nodes \cup {Self}),
   result : SUBSET Keys, told : SUBSET Nodes, sent : SUBSET Nodes, requests : Nat]

\* Every request went to another peer.
Accounted(lk) == lk.sent \subseteq lk.asked /\ lk.requests = Cardinality(lk.sent)

\* A peer told of was sent a request, or is in the queue and can be asked, or its
\* bucket is full.
Pending(ns, lk, n) == n \in Range(lk.queue) /\ n \notin lk.asked /\ n \in ns
NoneLost(ns, lk) == \A n \in lk.told : n \in lk.sent \/ Full(ns, n) \/ Pending(ns, lk, n)

LEMMA LookupFields ==
  ASSUME NEW lk \in LookupType
  PROVE  /\ lk.key \in Keys /\ lk.queue \in Seq(Nodes) /\ lk.asked \in SUBSET Nodes
         /\ lk.at \in Nodes \cup {Self} /\ lk.contacted \in SUBSET (Nodes \cup {Self})
         /\ lk.result \in SUBSET Keys /\ lk.told \in SUBSET Nodes /\ lk.sent \in SUBSET Nodes
         /\ lk.requests \in Nat
         /\ lk = [key |-> lk.key, pc |-> lk.pc, queue |-> lk.queue, asked |-> lk.asked, at |-> lk.at,
                  contacted |-> lk.contacted, result |-> lk.result, told |-> lk.told,
                  sent |-> lk.sent, requests |-> lk.requests]
  BY DEF LookupType

\* The step to the next peer: it is asked for the first time, and those passed
\* over on the way cannot be asked.
LEMMA AskNextProperties ==
  ASSUME NEW ns \in SUBSET Nodes, NEW lk \in LookupType, Accounted(lk)
  PROVE  /\ AskNext(ns, lk) \in LookupType
         /\ Accounted(AskNext(ns, lk))
         /\ NoneLost(ns, lk) => NoneLost(ns, AskNext(ns, lk))
         /\ AskNext(ns, lk).pc # "idle"
         /\ AskNext(ns, lk).pc = "failed" => AskNext(ns, lk).queue = <<>>
  <1> DEFINE A == Askable(ns, lk)
             i == Min(A)
             n == lk.queue[i]
             q == lk.queue
             front == SubSeq(q, 1, i)
             rest == SubSeq(q, i + 1, Len(q))
             next == AskNext(ns, lk)
  <1>0. lk = [key |-> lk.key, pc |-> lk.pc, queue |-> lk.queue, asked |-> lk.asked, at |-> lk.at,
              contacted |-> lk.contacted, result |-> lk.result, told |-> lk.told,
              sent |-> lk.sent, requests |-> lk.requests]
    BY LookupFields
  <1>1. q \in Seq(Nodes) /\ lk.asked \in SUBSET Nodes /\ lk.sent \in SUBSET Nodes /\ lk.requests \in Nat
    BY DEF LookupType
  <1>2. A \subseteq 1 .. Len(q) /\ A \in SUBSET Nat
    BY <1>1 DEF Askable
  <1>3. CASE A = {}
    <2>1. next = [lk EXCEPT !.pc = "failed", !.at = Self, !.queue = <<>>, !.asked = lk.asked \cup ToSet(q)]
      BY <1>3 DEF AskNext
    <2>2. /\ next.pc = "failed" /\ next.queue = <<>> /\ next.asked = lk.asked \cup ToSet(q)
          /\ next.sent = lk.sent /\ next.requests = lk.requests /\ next.told = lk.told
      BY <2>1, LookupFields
    <2>3. ToSet(q) \in SUBSET Nodes
      BY <1>1 DEF ToSet
    <2>4. next \in LookupType
      <3> DEFINE asked == lk.asked \cup ToSet(q)
      <3> HIDE DEF next
      <3>1. next = [key |-> lk.key, pc |-> "failed", queue |-> <<>>, asked |-> asked, at |-> Self,
                    contacted |-> lk.contacted, result |-> lk.result, told |-> lk.told,
                    sent |-> lk.sent, requests |-> lk.requests]
        BY <1>0, <2>1
      <3>2. asked \in SUBSET Nodes /\ <<>> \in Seq(Nodes)
        BY <1>1, <2>3
      <3> HIDE DEF asked
      <3> QED  BY <3>1, <3>2, LookupFields DEF LookupType
    <2>5. Accounted(next)
      BY <2>2 DEF Accounted
    <2>6. ASSUME NoneLost(ns, lk) PROVE NoneLost(ns, next)
      <3>1. ASSUME NEW m \in lk.told PROVE ~ Pending(ns, lk, m)
        <4>1. \A j \in 1 .. Len(q) : ~ (q[j] \notin lk.asked /\ q[j] \in ns)
          BY <1>1, <1>3 DEF Askable
        <4> QED  BY <1>1, <4>1, InRange DEF Pending
      <3> QED  BY <2>2, <2>6, <3>1 DEF NoneLost
    <2> QED  BY <2>2, <2>4, <2>5, <2>6
  <1>4. CASE A # {}
    <2>1. next = [lk EXCEPT !.pc = "asking", !.at = n, !.queue = rest, !.asked = lk.asked \cup ToSet(front),
                            !.sent = lk.sent \cup {n}, !.requests = lk.requests + 1]
      BY <1>4 DEF AskNext
    <2>2. i \in A /\ \A j \in A : i <= j
      BY <1>2, <1>4, MinIn
    <2>3. i \in 1 .. Len(q) /\ n \in Nodes /\ n \notin lk.asked
      BY <1>1, <1>2, <2>2 DEF Askable
    <2> HIDE DEF i
    <2>4. /\ i + 1 \in 1 .. Len(q) + 1 /\ (i + 1) - 1 = i
      BY <2>3
    <2>5. /\ rest \in Seq(Nodes) /\ Range(rest) = {q[j] : j \in i + 1 .. Len(q)}
          /\ front \in Seq(Nodes) /\ Range(front) = {q[j] : j \in 1 .. i}
      BY <1>1, <2>4, RangeSplit
    <2>6. ToSet(front) = {q[j] : j \in 1 .. i} /\ ToSet(front) \in SUBSET Nodes
      <3>1. ToSet(front) = Range(front)
        BY ToSetIsRange
      <3>2. \A j \in 1 .. i : q[j] \in Nodes
        BY <1>1, <2>3
      <3> QED  BY <2>5, <3>1, <3>2
    <2>7. /\ next.pc = "asking" /\ next.queue = rest /\ next.asked = lk.asked \cup ToSet(front)
          /\ next.sent = lk.sent \cup {n} /\ next.requests = lk.requests + 1 /\ next.told = lk.told
      BY <2>1, LookupFields
    <2> HIDE DEF front, rest
    <2>8. next \in LookupType
      <3> DEFINE asked == lk.asked \cup ToSet(front)
                 sent == lk.sent \cup {n}
                 requests == lk.requests + 1
      <3> HIDE DEF next
      <3>1. next = [key |-> lk.key, pc |-> "asking", queue |-> rest, asked |-> asked, at |-> n,
                    contacted |-> lk.contacted, result |-> lk.result, told |-> lk.told,
                    sent |-> sent, requests |-> requests]
        BY <1>0, <2>1
      <3>2. asked \in SUBSET Nodes /\ sent \in SUBSET Nodes /\ requests \in Nat
        BY <1>1, <2>3, <2>6
      <3> HIDE DEF n, asked, sent, requests
      <3> QED  BY <2>3, <2>5, <3>1, <3>2, LookupFields DEF LookupType
    <2>9. n \in ToSet(front)
      BY <2>3, <2>6
    <2>10. Accounted(next)
      <3>1. IsFiniteSet(lk.sent) /\ n \notin lk.sent
        BY <1>1, <2>3, TableAssumption, FS_Subset DEF Accounted
      <3>2. Cardinality(lk.sent \cup {n}) = Cardinality(lk.sent) + 1
        BY <3>1, FS_AddElement
      <3> QED  BY <2>7, <2>9, <3>2 DEF Accounted
    <2>11. ASSUME NoneLost(ns, lk) PROVE NoneLost(ns, next)
      <3>1. ASSUME NEW m \in lk.told, Pending(ns, lk, m), m # n PROVE Pending(ns, next, m)
        <4>1. m \notin lk.asked /\ m \in ns
          BY <3>1 DEF Pending
        <4>2. PICK j \in 1 .. Len(q) : m = q[j]
          BY <1>1, <3>1, InRange DEF Pending
        <4>3. \A h \in 1 .. Len(q) : q[h] = m => i <= h
          BY <1>1, <2>2, <4>1 DEF Askable
        <4>4. j \in i + 1 .. Len(q)
          BY <2>3, <3>1, <4>2, <4>3
        <4>5. m \notin ToSet(front)
          <5> SUFFICES ASSUME NEW h \in 1 .. i, m = q[h] PROVE FALSE
            BY <2>6
          <5>1. h \in 1 .. Len(q) /\ (h < i \/ h = i)
            BY <2>3
          <5> QED  BY <2>3, <3>1, <4>3, <5>1
        <4> QED  BY <2>5, <2>7, <4>1, <4>2, <4>4, <4>5 DEF Pending
      <3> HIDE DEF n, next
      <3> QED  BY <2>7, <2>11, <3>1 DEF NoneLost
    <2> QED  BY <2>7, <2>8, <2>10, <2>11
  <1> QED  BY <1>3, <1>4

\* What a lookup is told of counts as queued, or as without a place in the table.
TellType == [nodes : SUBSET Nodes, lk : LookupType]

LEMMA TellProperties ==
  ASSUME NEW s \in TellType, NEW n \in Nodes
  PROVE  /\ Tell(s, n) \in TellType
         /\ s.nodes \subseteq Tell(s, n).nodes
         /\ Accounted(s.lk) => Accounted(Tell(s, n).lk)
         /\ NoneLost(s.nodes, s.lk) => NoneLost(Tell(s, n).nodes, Tell(s, n).lk)
  <1>0. PICK ns \in SUBSET Nodes, lk \in LookupType : s = [nodes |-> ns, lk |-> lk]
    BY DEF TellType
  <1>1. s.nodes = ns /\ s.lk = lk
    BY <1>0
  <1>2. CASE n \in lk.asked
    BY <1>1, <1>2 DEF Tell
  <1>3. CASE n \notin lk.asked
    <2> DEFINE ms == InsertOrUpdate(ns, n)
               q == Queued(lk.queue, n, lk.key)
               told == lk.told \cup {n}
               next == [lk EXCEPT !.queue = q, !.told = told]
    <2>1. Tell(s, n) = [nodes |-> ms, lk |-> next]
      BY <1>1, <1>3 DEF Tell
    <2>0. lk.queue \in Seq(Nodes) /\ lk.told \in SUBSET Nodes
      BY LookupFields
    <2>2. /\ lk.queue \in Seq(Nodes) /\ lk.told \in SUBSET Nodes
          /\ next = [key |-> lk.key, pc |-> lk.pc, queue |-> q, asked |-> lk.asked, at |-> lk.at,
                     contacted |-> lk.contacted, result |-> lk.result, told |-> told,
                     sent |-> lk.sent, requests |-> lk.requests]
      <3>1. next = [lk EXCEPT !.queue = q, !.told = told]
        OBVIOUS
      <3> HIDE DEF q, told, next
      <3>2. lk = [key |-> lk.key, pc |-> lk.pc, queue |-> lk.queue, asked |-> lk.asked, at |-> lk.at,
                  contacted |-> lk.contacted, result |-> lk.result, told |-> lk.told,
                  sent |-> lk.sent, requests |-> lk.requests]
        BY LookupFields
      <3>3. next = [key |-> lk.key, pc |-> lk.pc, queue |-> q, asked |-> lk.asked, at |-> lk.at,
                  contacted |-> lk.contacted, result |-> lk.result, told |-> told,
                  sent |-> lk.sent, requests |-> lk.requests]
         BY <3>1, <3>2
      <3> QED  BY <2>0, <3>3
    <2>3. ms \in SUBSET Nodes /\ ns \subseteq ms /\ (n \in ms \/ Full(ms, n))
      BY InsertProperties
    <2>4. q \in Seq(Nodes) /\ Range(q) = Range(lk.queue) \cup {n}
      BY <2>2, QueuedProperties
    <2>5. told \in SUBSET Nodes
      BY <2>2
    <2>6. /\ next.queue = q /\ next.told = lk.told \cup {n} /\ next.asked = lk.asked
          /\ next.sent = lk.sent /\ next.requests = lk.requests
      BY <2>2
    <2> HIDE DEF ms, q, told
    <2>7. next \in LookupType
      <3> HIDE DEF next
      <3> QED  BY <2>2, <2>4, <2>5, LookupFields DEF LookupType
    <2> HIDE DEF next
    <2>8. Tell(s, n) \in TellType /\ Tell(s, n).nodes = ms /\ Tell(s, n).lk = next
      BY <2>1, <2>3, <2>7 DEF TellType
    <2>9. Accounted(lk) => Accounted(next)
      BY <2>6 DEF Accounted
    <2>10. ASSUME NoneLost(ns, lk) PROVE NoneLost(ms, next)
      <3>1. ASSUME NEW m \in lk.told PROVE m \in next.sent \/ Full(ms, m) \/ Pending(ms, next, m)
        <4>1. CASE m \in lk.sent
          BY <2>6, <4>1
        <4>2. CASE Full(ns, m)
          BY <2>3, <4>2, FullStays
        <4>3. CASE Pending(ns, lk, m)
          BY <2>3, <2>4, <2>6, <4>3 DEF Pending
        <4> QED  BY <2>10, <4>1, <4>2, <4>3 DEF NoneLost
      <3>2. Full(ms, n) \/ Pending(ms, next, n)
        BY <1>3, <2>3, <2>4, <2>6 DEF Pending
      <3> QED  BY <2>6, <3>1, <3>2 DEF NoneLost
    <2> QED  BY <1>1, <2>3, <2>8, <2>9, <2>10
  <1> QED  BY <1>2, <1>3

LEMMA TellAllProperties ==
  ASSUME NEW ns \in SUBSET Nodes, NEW lk \in LookupType, Accounted(lk), NEW enrs \in Seq(Nodes)
  PROVE  /\ TellAll(ns, lk, enrs) \in TellType
         /\ ns \subseteq TellAll(ns, lk, enrs).nodes
         /\ Accounted(TellAll(ns, lk, enrs).lk)
         /\ NoneLost(ns, lk) => NoneLost(TellAll(ns, lk, enrs).nodes, TellAll(ns, lk, enrs).lk)
  <1> DEFINE first == [nodes |-> ns, lk |-> lk]
             N == Len(enrs)
             Steps(f) == [i \in 0 .. N |-> IF i = 0 THEN first ELSE Tell(f[i - 1], enrs[i])]
             told == CHOOSE f : f = Steps(f)
             T == {s \in TellType : /\ ns \subseteq s.nodes /\ Accounted(s.lk)
                                    /\ NoneLost(ns, lk) => NoneLost(s.nodes, s.lk)}
  <1>1. TellAll(ns, lk, enrs) = told[N]
    BY DEF TellAll
  <1>2. first \in T
    <2>1. first \in TellType /\ first.nodes = ns /\ first.lk = lk
      BY DEF TellType
    <2> HIDE DEF first
    <2> QED  BY <2>1
  <1>3. N \in Nat /\ \A i \in 1 .. N : enrs[i] \in Nodes
    OBVIOUS
  <1>4. ASSUME NEW s \in T, NEW n \in Nodes PROVE Tell(s, n) \in T
    BY TellProperties
  <1> HIDE DEF T, first, N
  <1> DEFINE G == [p \in (1 .. N) \X T |-> Tell(p[2], enrs[p[1]])]
  <1>5. G \in [(1 .. N) \X T -> T]
    BY <1>3, <1>4
  <1>6. PICK f \in [0 .. N -> T] : AreSteps(f, N, first, G)
    <2> HIDE DEF G
    <2> QED  BY <1>2, <1>3, <1>5, StepsExist
  <1>7. f = Steps(f)
    <2>1. ASSUME NEW i \in 1 .. N PROVE f[i] = Tell(f[i - 1], enrs[i])
      <3>1. i - 1 \in 0 .. N
        BY <1>3
      <3>2. <<i, f[i - 1]>> \in (1 .. N) \X T
        BY <3>1
      <3>3. G[<<i, f[i - 1]>>] = Tell(f[i - 1], enrs[i])
        BY <3>2
      <3> QED  BY <1>6, <3>3 DEF AreSteps
    <2>2. \A i \in 0 .. N : i = 0 \/ i \in 1 .. N
      BY <1>3
    <2> HIDE DEF G
    <2> QED  BY <1>6, <2>1, <2>2 DEF AreSteps
  <1>8. told = Steps(told)
    BY <1>7
  <1> HIDE DEF told
  <1>9. told[0] = first /\ \A i \in 1 .. N : told[i] = Tell(told[i - 1], enrs[i])
    <2>1. \A i \in 0 .. N : Steps(told)[i] = IF i = 0 THEN first ELSE Tell(told[i - 1], enrs[i])
      OBVIOUS
    <2> QED  BY <1>3, <1>8, <2>1
  <1>10. told[N] \in T
    <2> DEFINE U == [i \in 0 .. N |-> T]
    <2>1. /\ U[0] = T /\ U[N] = T /\ \A i \in 1 .. N : U[i] = T /\ U[i - 1] = T
      BY <1>3
    <2>2. told[0] \in U[0] /\ \A i \in 1 .. N : told[i - 1] \in U[i - 1] => told[i] \in U[i]
      BY <1>2, <1>3, <1>4, <1>9, <2>1
    <2> HIDE DEF U
    <2> QED  BY <1>3, <2>1, <2>2, StepsLead
  <1> QED  BY <1>1, <1>10 DEF T

\* The requests of every lookup are accounted for, and as long as no peer was
\* evicted no lookup has lost a peer.
LookupsInv ==
  /\ TableInv
  /\ lookups \in [Lookups -> LookupType]
  /\ \A l \in Lookups : /\ Accounted(lookups[l])
                        /\ lookups[l].pc = "idle" => lookups[l].asked = {}
                        /\ lookups[l].pc = "failed" => lookups[l].queue = <<>>
  /\ evictions = 0 => \A l \in Lookups : NoneLost(table.nodes, lookups[l])

LEMMA NoneLostStays ==
  ASSUME NEW ms \in SUBSET Nodes, NEW ns \in SUBSET ms, NEW lk \in LookupType, NoneLost(ns, lk)
  PROVE  NoneLost(ms, lk)
  <1> SUFFICES ASSUME NEW n \in lk.told PROVE n \in lk.sent \/ Full(ms, n) \/ Pending(ms, lk, n)
    BY DEF NoneLost
  <1>1. CASE Full(ns, n)
    BY <1>1, FullStays
  <1>2. CASE Pending(ns, lk, n)
    BY <1>2 DEF Pending
  <1> QED  BY <1>1, <1>2 DEF NoneLost

\* One lookup goes on, and the table may grow.
LEMMA OneGoesOn ==
  ASSUME LookupsInv, NEW l \in Lookups, NEW lk \in LookupType,
         lookups' = [lookups EXCEPT ![l] = lk], TableInv', NoneLeaves,
         Accounted(lk), lk.pc # "idle", lk.pc = "failed" => lk.queue = <<>>,
         evictions' = 0 => NoneLost(table'.nodes, lk)
  PROVE  LookupsInv'
  <1>1. /\ lookups' \in [Lookups -> LookupType]
        /\ \A j \in Lookups : lookups'[j] = IF j = l THEN lk ELSE lookups[j]
    BY DEF LookupsInv
  <1>2. table'.nodes \in SUBSET Nodes
    BY DEF TableInv
  <1>3. ASSUME evictions' = 0, NEW j \in Lookups PROVE NoneLost(table'.nodes, lookups'[j])
    <2>1. CASE j = l
      BY <1>1, <1>3, <2>1
    <2>2. CASE j # l
      <3>1. table.nodes \in SUBSET table'.nodes /\ NoneLost(table.nodes, lookups[j])
        BY <1>3 DEF NoneLeaves, LookupsInv
      <3>2. lookups[j] \in LookupType
        BY DEF LookupsInv
      <3> QED  BY <1>1, <1>2, <2>2, <3>1, <3>2, NoneLostStays
    <2> QED  BY <2>1, <2>2
  <1> QED  BY <1>1, <1>3 DEF LookupsInv

\* The table changes, and no lookup.
LEMMA LookupsWait ==
  ASSUME LookupsInv, UNCHANGED lookups, TableInv', NoneLeaves PROVE LookupsInv'
  <1>1. table'.nodes \in SUBSET Nodes
    BY DEF TableInv
  <1>2. ASSUME evictions' = 0, NEW j \in Lookups PROVE NoneLost(table'.nodes, lookups'[j])
    <2>1. table.nodes \in SUBSET table'.nodes /\ NoneLost(table.nodes, lookups[j])
      BY <1>2 DEF NoneLeaves, LookupsInv
    <2>2. lookups[j] \in LookupType
      BY DEF LookupsInv
    <2> QED  BY <1>1, <2>1, <2>2, NoneLostStays
  <1> QED  BY <1>2 DEF LookupsInv

\* A lookup asks the next peer, the first one or after an answer without nodes.
LEMMA AskNextKeeps ==
  ASSUME LookupsInv, NEW l \in Lookups, NEW lk \in LookupType,
         lookups' = [lookups EXCEPT ![l] = AskNext(table.nodes, lk)],
         Accounted(lk), evictions = 0 => NoneLost(table.nodes, lk), UNCHANGED peerVars
  PROVE  LookupsInv'
  <1> DEFINE next == AskNext(table.nodes, lk)
  <1>1. table.nodes \in SUBSET Nodes
    BY TableNodes DEF LookupsInv
  <1>2. /\ next \in LookupType /\ Accounted(next) /\ next.pc # "idle" /\ (next.pc = "failed" => next.queue = <<>>)
        /\ NoneLost(table.nodes, lk) => NoneLost(table.nodes, next)
    BY <1>1, AskNextProperties
  <1>3. TableInv' /\ NoneLeaves /\ table' = table /\ evictions' = evictions
    BY TableStays DEF LookupsInv, peerVars
  <1> HIDE DEF next
  <1>4. lookups' = [lookups EXCEPT ![l] = next]
    BY DEF next
  <1>5. evictions' = 0 => NoneLost(table'.nodes, next)
    BY <1>2, <1>3
  <1> QED  BY <1>2, <1>3, <1>4, <1>5, OneGoesOn

\* A lookup has its content, or waits for the stream of it.
Waits(lk, pc, result) == [lk EXCEPT !.pc = pc, !.result = result]

LEMMA WaitsProperties ==
  ASSUME NEW lk \in LookupType, NEW pc \in {"streaming", "found"}, NEW result \in SUBSET Keys
  PROVE  /\ Waits(lk, pc, result) \in LookupType
         /\ Waits(lk, pc, result).pc = pc
         /\ Accounted(lk) => Accounted(Waits(lk, pc, result))
         /\ \A ns : NoneLost(ns, lk) => NoneLost(ns, Waits(lk, pc, result))
  <1> DEFINE next == Waits(lk, pc, result)
  <1>1. next = [key |-> lk.key, pc |-> pc, queue |-> lk.queue, asked |-> lk.asked, at |-> lk.at,
                contacted |-> lk.contacted, result |-> result, told |-> lk.told,
                sent |-> lk.sent, requests |-> lk.requests]
    <2>1. lk = [key |-> lk.key, pc |-> lk.pc, queue |-> lk.queue, asked |-> lk.asked, at |-> lk.at,
                contacted |-> lk.contacted, result |-> lk.result, told |-> lk.told,
                sent |-> lk.sent, requests |-> lk.requests]
      BY LookupFields
    <2>2. next = [lk EXCEPT !.pc = pc, !.result = result]
      BY DEF Waits
    <2> HIDE DEF next
    <2> QED  BY <2>1, <2>2
  <1> HIDE DEF next
  <1>2. next \in LookupType
    BY <1>1, LookupFields DEF LookupType
  <1>3. /\ next.pc = pc /\ next.queue = lk.queue /\ next.asked = lk.asked /\ next.told = lk.told
        /\ next.sent = lk.sent /\ next.requests = lk.requests
    BY <1>1
  <1>4. Accounted(lk) => Accounted(next)
    BY <1>3 DEF Accounted
  <1>5. \A ns : NoneLost(ns, lk) => NoneLost(ns, next)
    BY <1>3 DEF NoneLost, Pending
  <1> QED  BY <1>2, <1>3, <1>4, <1>5 DEF next

\* Those of S have their content, or wait for it.
LEMMA SomeWait ==
  ASSUME LookupsInv, TableInv', NoneLeaves, NEW S, NEW pc \in {"streaming", "found"},
         NEW result \in [Lookups -> SUBSET Keys],
         lookups' = [l \in Lookups |-> IF l \in S THEN Waits(lookups[l], pc, result[l]) ELSE lookups[l]]
  PROVE  LookupsInv'
  <1>1. table'.nodes \in SUBSET Nodes
    BY DEF TableInv
  <1>2. ASSUME NEW l \in Lookups
        PROVE  /\ lookups'[l] \in LookupType /\ Accounted(lookups'[l])
               /\ lookups'[l].pc = "idle" => lookups'[l].asked = {}
               /\ lookups'[l].pc = "failed" => lookups'[l].queue = <<>>
               /\ evictions' = 0 => NoneLost(table'.nodes, lookups'[l])
    <2>1. /\ lookups[l] \in LookupType /\ Accounted(lookups[l])
          /\ lookups[l].pc = "idle" => lookups[l].asked = {}
          /\ lookups[l].pc = "failed" => lookups[l].queue = <<>>
      BY DEF LookupsInv
    <2>2. evictions' = 0 => NoneLost(table'.nodes, lookups[l])
      <3> SUFFICES ASSUME evictions' = 0 PROVE NoneLost(table'.nodes, lookups[l])
        OBVIOUS
      <3>1. table.nodes \in SUBSET table'.nodes /\ NoneLost(table.nodes, lookups[l])
        BY DEF NoneLeaves, LookupsInv
      <3> QED  BY <1>1, <2>1, <3>1, NoneLostStays
    <2>3. CASE l \in S
      <3>1. lookups'[l] = Waits(lookups[l], pc, result[l]) /\ result[l] \in SUBSET Keys
        BY <2>3
      <3> QED  BY <2>1, <2>2, <3>1, WaitsProperties
    <2>4. CASE l \notin S
      <3>1. lookups'[l] = lookups[l]
        BY <2>4
      <3> QED  BY <2>1, <2>2, <3>1
    <2> QED  BY <2>3, <2>4
  <1>3. lookups' \in [Lookups -> LookupType]
    BY <1>2
  <1> QED  BY <1>2, <1>3 DEF LookupsInv

\* Start: the nearest peers are queued.
LEMMA StartStep ==
  ASSUME LookupsInv, NEW l \in Lookups, Start(l) PROVE LookupsInv'
  <1> DEFINE lk == lookups[l]
             near == Nearest(table.nodes, lk.key, Fanout)
             told == ToSet(near)
  <1>1. PICK next : next = [lk EXCEPT !.queue = near, !.told = told]
    OBVIOUS
  <1>2. lk \in LookupType /\ lk.asked = {} /\ Accounted(lk) /\ table.nodes \in SUBSET Nodes
    BY TableNodes DEF LookupsInv, Start
  <1>3. lookups' = [lookups EXCEPT ![l] = AskNext(table.nodes, next)] /\ UNCHANGED peerVars
    BY <1>1 DEF Start
  <1>4. near \in Seq(table.nodes)
    <2>1. lk.key \in Keys
      BY <1>2, LookupFields
    <2>2. TellsApart(lk.key) /\ \A n \in Nodes : Distance(n, lk.key) \in Nat
      BY <2>1, TableAssumption
    <2> HIDE DEF lk
    <2> QED  BY <1>2, <2>2, NearestProperties, PeersAssumption
  <1>5. told = Range(near) /\ told \subseteq table.nodes
    <2>1. told = Range(near)
      BY ToSetIsRange
    <2> HIDE DEF near
    <2> QED  BY <1>4, <2>1, InRange
  <1>6. near \in Seq(Nodes) /\ told \in SUBSET Nodes
    BY <1>2, <1>4, <1>5
  <1> HIDE DEF lk, near, told
  <1>7. next = [key |-> lk.key, pc |-> lk.pc, queue |-> near, asked |-> lk.asked, at |-> lk.at,
                contacted |-> lk.contacted, result |-> lk.result, told |-> told,
                sent |-> lk.sent, requests |-> lk.requests]
    <2>1. lk = [key |-> lk.key, pc |-> lk.pc, queue |-> lk.queue, asked |-> lk.asked, at |-> lk.at,
                contacted |-> lk.contacted, result |-> lk.result, told |-> lk.told,
                sent |-> lk.sent, requests |-> lk.requests]
      BY <1>2, LookupFields
    <2> QED  BY <1>1, <2>1
  <1>8. next \in LookupType
    BY <1>2, <1>6, <1>7, LookupFields DEF LookupType
  <1>9. /\ next.queue = near /\ next.told = told /\ next.asked = {}
        /\ next.sent = lk.sent /\ next.requests = lk.requests
    BY <1>2, <1>7
  <1>10. Accounted(next)
    BY <1>2, <1>9 DEF Accounted
  <1>11. NoneLost(table.nodes, next)
    BY <1>5, <1>9 DEF NoneLost, Pending
  <1> QED  BY <1>3, <1>8, <1>10, <1>11, AskNextKeeps

\* ClosestAnswer: the peers named are queued, and perhaps inserted.
LEMMA ClosestStep ==
  ASSUME LookupsInv, NEW l \in Lookups, ClosestAnswer(l) PROVE LookupsInv'
  <1> DEFINE lk == lookups[l]
  <1>1. lk \in LookupType /\ Accounted(lk) /\ table.nodes \in SUBSET Nodes /\ TableInv
    BY TableNodes DEF LookupsInv
  <1>2. PICK known \in SUBSET Nodes :
          LET enrs == CloserAnswer(known, lk.at, Self, lk.key, AnswerFrom)
              s    == TellAll(table.nodes, lk, enrs)
          IN /\ table' = [table EXCEPT !.nodes = s.nodes]
             /\ lookups' = [lookups EXCEPT ![l] =
                  AskNext(s.nodes, [s.lk EXCEPT !.contacted = @ \cup {lk.at}])]
    BY DEF ClosestAnswer
  <1> HIDE DEF lk
  <1> DEFINE enrs == CloserAnswer(known, lk.at, Self, lk.key, AnswerFrom)
             s    == TellAll(table.nodes, lk, enrs)
             contacted == s.lk.contacted \cup {lk.at}
  <1>3. PICK next : next = [s.lk EXCEPT !.contacted = contacted]
    OBVIOUS
  <1>4. /\ table' = [table EXCEPT !.nodes = s.nodes]
        /\ lookups' = [lookups EXCEPT ![l] = AskNext(s.nodes, next)]
        /\ evictions' = evictions
    BY <1>2, <1>3 DEF ClosestAnswer
  <1>5. enrs \in Seq(Nodes)
    BY <1>1, LookupFields, CloserAnswerProperties, ContentLookupAssumption
  <1> HIDE DEF enrs
  <1>6. /\ s \in TellType /\ table.nodes \subseteq s.nodes /\ Accounted(s.lk)
        /\ NoneLost(table.nodes, lk) => NoneLost(s.nodes, s.lk)
    BY <1>1, <1>5, TellAllProperties
  <1>7. PICK ms \in SUBSET Nodes, h \in LookupType : s = [nodes |-> ms, lk |-> h]
    BY <1>6 DEF TellType
  <1>8. s.nodes = ms /\ s.lk = h
    BY <1>7
  <1> HIDE DEF s, contacted
  <1>9. contacted \in SUBSET (Nodes \cup {Self})
    BY <1>1, <1>8, LookupFields DEF contacted
  <1>10. next = [key |-> h.key, pc |-> h.pc, queue |-> h.queue, asked |-> h.asked, at |-> h.at,
                 contacted |-> contacted, result |-> h.result, told |-> h.told,
                 sent |-> h.sent, requests |-> h.requests]
    <2>1. h = [key |-> h.key, pc |-> h.pc, queue |-> h.queue, asked |-> h.asked, at |-> h.at,
               contacted |-> h.contacted, result |-> h.result, told |-> h.told,
               sent |-> h.sent, requests |-> h.requests]
      BY LookupFields
    <2> QED  BY <1>3, <1>8, <2>1
  <1>11. next \in LookupType
    BY <1>9, <1>10, LookupFields DEF LookupType
  <1>12. /\ next.queue = h.queue /\ next.told = h.told /\ next.asked = h.asked
         /\ next.sent = h.sent /\ next.requests = h.requests
    BY <1>10
  <1>13. Accounted(next)
    BY <1>6, <1>8, <1>12 DEF Accounted
  <1>14. NoneLost(ms, h) => NoneLost(ms, next)
    BY <1>12 DEF NoneLost, Pending
  <1>15. table'.nodes = ms /\ TableInv' /\ NoneLeaves
    <2>1. table'.nodes = ms
      BY <1>1, <1>4, <1>8, TableNodes
    <2>2. evictions' \in Nat
      BY <1>1, <1>4 DEF TableInv
    <2>3. TableInv'
      BY <1>1, <1>4, <1>8, <2>2, TableNodes
    <2> QED  BY <1>4, <1>6, <1>8, <2>1, <2>3 DEF NoneLeaves
  <1> DEFINE asked == AskNext(ms, next)
  <1>16. /\ asked \in LookupType /\ Accounted(asked) /\ asked.pc # "idle"
         /\ (asked.pc = "failed" => asked.queue = <<>>)
         /\ NoneLost(ms, next) => NoneLost(ms, asked)
    BY <1>11, <1>13, AskNextProperties
  <1>17. lookups' = [lookups EXCEPT ![l] = asked]
    BY <1>4, <1>8
  <1>18. evictions' = 0 => NoneLost(table'.nodes, asked)
    <2>1. evictions = 0 => NoneLost(table.nodes, lk)
      BY DEF LookupsInv, lk
    <2> QED  BY <1>4, <1>6, <1>8, <1>14, <1>15, <1>16, <2>1
  <1> HIDE DEF asked
  <1> QED  BY <1>15, <1>16, <1>17, <1>18, OneGoesOn

LEMMA NewLookupProperties ==
  ASSUME NEW k \in Keys
  PROVE  /\ NewLookup(k) \in LookupType /\ Accounted(NewLookup(k)) /\ NewLookup(k).pc = "idle"
         /\ NewLookup(k).asked = {} /\ NewLookup(k).told = {}
  <1>1. <<>> \in Seq(Nodes) /\ {} \in SUBSET Nodes
    OBVIOUS
  <1>2. NewLookup(k) \in LookupType
    BY <1>1 DEF NewLookup, LookupType
  <1> QED  BY <1>2, FS_EmptySet DEF NewLookup, Accounted

LEMMA LookupsInit == ASSUME Init PROVE LookupsInv
  <1>1. TableInv
    <2> DEFINE g == [n \in Nodes |-> {}]
    <2>1. table = [nodes |-> {}, gossip |-> g] /\ g \in [Nodes -> SUBSET Keys] /\ evictions = 0
      BY DEF Init, PeersInit, EmptyTable
    <2> HIDE DEF g
    <2> QED  BY <2>1 DEF TableInv
  <1>2. ASSUME NEW l \in Lookups
        PROVE  /\ lookups[l] \in LookupType /\ Accounted(lookups[l]) /\ lookups[l].pc = "idle"
               /\ lookups[l].asked = {} /\ lookups[l].told = {}
    <2>1. PICK k \in Keys : lookups[l] = NewLookup(k)
      BY DEF Init
    <2> QED  BY <2>1, NewLookupProperties
  <1>3. lookups \in [Lookups -> LookupType]
    BY <1>2 DEF Init
  <1>4. \A l \in Lookups : NoneLost(table.nodes, lookups[l])
    BY <1>2 DEF NoneLost
  <1> QED  BY <1>1, <1>2, <1>3, <1>4 DEF LookupsInv

LEMMA LookupsStep ==
  ASSUME LookupsInv, [Next]_vars PROVE LookupsInv'
  <1> USE DEF LookupsInv
  <1>1. CASE PeersNext /\ UNCHANGED lookups
    <2>1. ASSUME NEW n \in Nodes, SendPing(n) \/ Pong(n) \/ NoPong(n) \/ BadPong(n) \/ HandlePing(n)
          PROVE  TableInv' /\ NoneLeaves
      BY <2>1, PeerStep
    <2>2. ASSUME NEW ks, Gossip(ks) PROVE TableInv' /\ NoneLeaves
      BY <2>2, OfferStep DEF Gossip
    <2>3. TableInv' /\ NoneLeaves
      BY <1>1, <2>1, <2>2 DEF PeersNext
    <2> HIDE DEF LookupsInv
    <2> QED  BY <1>1, <2>3, LookupsWait
  <1>2. ASSUME NEW l \in Lookups, Start(l) PROVE LookupsInv'
    BY <1>2, StartStep
  <1>3. ASSUME NEW l \in Lookups, NoAnswer(l) PROVE LookupsInv'
    <2>1. /\ lookups[l] \in LookupType /\ Accounted(lookups[l])
          /\ evictions = 0 => NoneLost(table.nodes, lookups[l])
      OBVIOUS
    <2>2. /\ lookups' = [lookups EXCEPT ![l] = AskNext(table.nodes, lookups[l])]
          /\ UNCHANGED peerVars
      BY <1>3 DEF NoAnswer
    <2> HIDE DEF LookupsInv
    <2> QED  BY <2>1, <2>2, AskNextKeeps
  <1>4. ASSUME NEW l \in Lookups, ClosestAnswer(l) PROVE LookupsInv'
    BY <1>4, ClosestStep
  <1>5. ASSUME NEW l \in Lookups, StartLocal(l) \/ ContentAnswer(l) PROVE LookupsInv'
    <2> DEFINE result == [j \in Lookups |-> {lookups[j].key}]
    <2>1. lookups' = [lookups EXCEPT ![l] = [lookups[l] EXCEPT !.pc = "found", !.result = {lookups[l].key}]]
      BY <1>5 DEF StartLocal, ContentAnswer
    <2>2. \A j \in Lookups : lookups[j].key \in Keys
      BY LookupFields
    <2>3. result \in [Lookups -> SUBSET Keys]
      BY <2>2
    <2>4. lookups' = [j \in Lookups |-> IF j \in {l} THEN Waits(lookups[j], "found", result[j]) ELSE lookups[j]]
      BY <2>1 DEF Waits
    <2>5. TableInv' /\ NoneLeaves
      BY <1>5, TableStays, OfferStep DEF StartLocal, ContentAnswer, peerVars
    <2> HIDE DEF LookupsInv, result
    <2> QED  BY <2>3, <2>4, <2>5, SomeWait
  <1>6. ASSUME NEW l \in Lookups, StreamAnswer(l) PROVE LookupsInv'
    <2> DEFINE result == [j \in Lookups |-> lookups[j].result]
    <2>1. lookups' = [lookups EXCEPT ![l] = [lookups[l] EXCEPT !.pc = "streaming"]]
      BY <1>6 DEF StreamAnswer
    <2>2. result \in [Lookups -> SUBSET Keys]
      BY LookupFields
    <2>3. Waits(lookups[l], "streaming", result[l]) = [lookups[l] EXCEPT !.pc = "streaming"]
      <3>1. lookups[l] \in LookupType /\ result[l] = lookups[l].result
        OBVIOUS
      <3> HIDE DEF result
      <3> QED  BY <3>1 DEF Waits, LookupType
    <2>4. lookups' = [j \in Lookups |-> IF j \in {l} THEN Waits(lookups[j], "streaming", result[j]) ELSE lookups[j]]
      BY <2>1, <2>3
    <2>5. TableInv' /\ NoneLeaves
      BY <1>6, TableStays DEF StreamAnswer, peerVars
    <2> HIDE DEF LookupsInv, result
    <2> QED  BY <2>2, <2>4, <2>5, SomeWait
  <1>7. ASSUME NEW k \in Keys, ContentAdded(k) PROVE LookupsInv'
    <2> DEFINE result == [j \in Lookups |-> {k}]
               S == {j \in Lookups : lookups[j].pc = "streaming"}
    <2>1. lookups' = [j \in Lookups |->
                        IF lookups[j].pc # "streaming" THEN lookups[j]
                        ELSE [lookups[j] EXCEPT !.pc = "found", !.result = {k}]]
      BY <1>7 DEF ContentAdded
    <2>2. lookups' = [j \in Lookups |-> IF j \in S THEN Waits(lookups[j], "found", result[j]) ELSE lookups[j]]
      BY <2>1 DEF Waits
    <2>3. TableInv' /\ NoneLeaves
      BY <1>7, TableStays DEF ContentAdded, peerVars
    <2>4. result \in [Lookups -> SUBSET Keys]
      OBVIOUS
    <2> HIDE DEF LookupsInv, result, S
    <2> QED  BY <2>2, <2>3, <2>4, SomeWait
  <1>8. CASE UNCHANGED vars
    <2>1. TableInv' /\ NoneLeaves /\ UNCHANGED lookups
      BY <1>8, TableStays DEF vars, peerVars
    <2> HIDE DEF LookupsInv
    <2> QED  BY <2>1, LookupsWait
  <1> HIDE DEF LookupsInv
  <1> QED  BY <1>1, <1>2, <1>3, <1>4, <1>5, <1>6, <1>7, <1>8 DEF Next, Answer

\* What a lookup has asked, and what it has not, is accounted for.
THEOREM LookupsInvariant == Spec => []LookupsInv
  <1>1. Init => LookupsInv
    BY LookupsInit
  <1>2. LookupsInv /\ [Next]_vars => LookupsInv'
    BY LookupsStep
  <1> QED  BY <1>1, <1>2, PTL DEF Spec

\* No lookup asks a peer twice: startLookup counts every peer it takes from the
\* queue as asked, and queues none of them again.
THEOREM AskedOnceAlways == Spec => []AskedOnce
  <1>1. LookupsInv => AskedOnce
    BY DEF LookupsInv, Accounted, AskedOnce
  <1> QED  BY <1>1, LookupsInvariant, PTL

\* A lookup that gives up has asked every peer it was told of, unless a full
\* bucket did not take it, or peers were evicted: wherever the splice puts a peer
\* in the queue, it comes up before the lookup ends.
THEOREM FailsOnlyWhenAllAskedAlways == Spec => []FailsOnlyWhenAllAsked
  <1>1. LookupsInv => FailsOnlyWhenAllAsked
    <2> SUFFICES ASSUME LookupsInv, NEW l \in Lookups, lookups[l].pc = "failed",
                        NEW n \in lookups[l].told \ lookups[l].sent
                 PROVE  evictions > 0 \/ Full(table.nodes, n)
      BY DEF FailsOnlyWhenAllAsked, Full
    <2>1. CASE evictions > 0
      BY <2>1
    <2>2. CASE evictions = 0
      <3>1. lookups[l].queue = <<>> /\ NoneLost(table.nodes, lookups[l])
        BY <2>2 DEF LookupsInv
      <3>2. ~ Pending(table.nodes, lookups[l], n)
        BY <3>1, RangeEmpty DEF Pending
      <3> QED  BY <3>1, <3>2 DEF NoneLost
    <2>3. evictions \in Nat
      BY DEF LookupsInv, TableInv
    <2> QED  BY <2>1, <2>2, <2>3
  <1> QED  BY <1>1, LookupsInvariant, PTL

----------------------------------------------------------------------------
(* The refreshes.                                                          *)

RefreshType(todos) ==
  [pc : {"idle", "next", "asking", "done"}, todo : todos, target : Ids \cup {Self},
   closest : Seq(Nodes), asked : SUBSET Nodes, at : Nodes \cup {Self}, new : Seq(Nodes),
   sent : SUBSET Nodes, requests : Nat]

\* Every peer asked and every peer to be asked is one the lookup began with, or
\* one of the new ones.
Counted(lk) ==
  /\ lk.sent \subseteq lk.asked /\ lk.requests = Cardinality(lk.sent)
  /\ lk.requests + Len(lk.closest) <= Alpha + Len(lk.new)

\* What is new came with the last answer, or before, when there was little of it.
Bounded(lk) ==
  /\ Counted(lk)
  /\ Len(lk.new) <= MaxNew + Limit
  /\ lk.pc = "asking" => Len(lk.new) <= MaxNew /\ lk.at \in Nodes

LEMMA RefreshFields ==
  ASSUME NEW D, NEW lk \in RefreshType(D)
  PROVE  /\ lk.pc \in {"idle", "next", "asking", "done"} /\ lk.todo \in D /\ lk.target \in Ids \cup {Self}
         /\ lk.closest \in Seq(Nodes) /\ lk.asked \in SUBSET Nodes /\ lk.at \in Nodes \cup {Self}
         /\ lk.new \in Seq(Nodes) /\ lk.sent \in SUBSET Nodes /\ lk.requests \in Nat
         /\ lk = [pc |-> lk.pc, todo |-> lk.todo, target |-> lk.target, closest |-> lk.closest,
                  asked |-> lk.asked, at |-> lk.at, new |-> lk.new, sent |-> lk.sent,
                  requests |-> lk.requests]
  BY DEF RefreshType

LEMMA NodeNumbers == {Alpha, MaxNew, Limit} \subseteq Nat
  BY NodeLookupAssumption, TableAssumption

\* The step to the next peer, which is asked for the first time.
LEMMA FindNextProperties ==
  ASSUME NEW ns, NEW D, NEW lk \in RefreshType(D), Counted(lk), Len(lk.new) <= MaxNew + Limit,
         NEW found \in BOOLEAN
  PROVE  FindNext(ns, lk, found) \in RefreshType(D) /\ Bounded(FindNext(ns, lk, found))
  <1> DEFINE A == Reachable(ns, lk)
             i == Min(A)
             q == lk.closest
             n == q[i]
             front == SubSeq(q, 1, i)
             rest == SubSeq(q, i + 1, Len(q))
             next == FindNext(ns, lk, found)
  <1>1. /\ q \in Seq(Nodes) /\ lk.asked \in SUBSET Nodes /\ lk.sent \in SUBSET Nodes /\ lk.requests \in Nat
        /\ lk.new \in Seq(Nodes) /\ Len(lk.new) \in Nat /\ Len(q) \in Nat
    BY RefreshFields
  <1>2. A \subseteq 1 .. Len(q) /\ A \in SUBSET Nat
    BY <1>1 DEF Reachable
  <1>3. lk = [pc |-> lk.pc, todo |-> lk.todo, target |-> lk.target, closest |-> lk.closest,
              asked |-> lk.asked, at |-> lk.at, new |-> lk.new, sent |-> lk.sent,
              requests |-> lk.requests]
    BY RefreshFields
  <1>4. CASE Ends(ns, lk, found)
    <2>1. next = [lk EXCEPT !.pc = "next", !.at = Self, !.closest = <<>>]
      BY <1>4 DEF FindNext
    <2> HIDE DEF next
    <2>2. next = [pc |-> "next", todo |-> lk.todo, target |-> lk.target, closest |-> <<>>,
                  asked |-> lk.asked, at |-> Self, new |-> lk.new, sent |-> lk.sent,
                  requests |-> lk.requests]
      BY <1>3, <2>1
    <2>3. next \in RefreshType(D)
      <3>1. <<>> \in Seq(Nodes)
        OBVIOUS
      <3> QED  BY <2>2, <3>1, RefreshFields DEF RefreshType
    <2>4. /\ next.pc = "next" /\ next.closest = <<>> /\ next.asked = lk.asked
          /\ next.new = lk.new /\ next.sent = lk.sent /\ next.requests = lk.requests
      BY <2>2
    <2>5. lk.requests <= Alpha + Len(lk.new)
      BY <1>1, NodeNumbers DEF Counted
    <2>6. Counted(next)
      BY <1>1, <2>4, <2>5 DEF Counted
    <2> QED  BY <2>3, <2>4, <2>6 DEF Bounded, next
  <1>5. CASE ~ Ends(ns, lk, found)
    <2>1. A # {} /\ Len(lk.new) <= MaxNew
      BY <1>1, <1>5, NodeNumbers DEF Ends
    <2>2. next = [lk EXCEPT !.pc = "asking", !.at = n, !.closest = rest, !.asked = lk.asked \cup ToSet(front),
                            !.sent = lk.sent \cup {n}, !.requests = lk.requests + 1]
      BY <1>5 DEF FindNext
    <2>3. i \in A
      BY <1>2, <2>1, MinIn
    <2>4. i \in 1 .. Len(q) /\ n \in Nodes /\ n \notin lk.asked
      <3> HIDE DEF i
      <3>1. i \in 1 .. Len(q)
        BY <1>2, <2>3
      <3>2. n \notin lk.asked
        BY <2>3 DEF Reachable
      <3> QED  BY <1>1, <3>1, <3>2
    <2> HIDE DEF i
    <2>5. i + 1 \in 1 .. Len(q) + 1 /\ (i + 1) - 1 = i
      BY <1>1, <2>4
    <2>6. /\ rest \in Seq(Nodes) /\ Len(rest) = Len(q) - (i + 1) + 1
          /\ front \in Seq(Nodes) /\ Range(front) = {q[j] : j \in 1 .. i}
      BY <1>1, <2>5, RangeSplit
    <2>7. n \in ToSet(front) /\ ToSet(front) \in SUBSET Nodes
      <3>1. ToSet(front) = Range(front)
        BY ToSetIsRange
      <3>2. \A j \in 1 .. i : q[j] \in Nodes
        BY <1>1, <2>4
      <3> QED  BY <2>4, <2>6, <3>1, <3>2
    <2> DEFINE asked == lk.asked \cup ToSet(front)
               sent == lk.sent \cup {n}
               requests == lk.requests + 1
    <2> HIDE DEF next
    <2>8. next = [pc |-> "asking", todo |-> lk.todo, target |-> lk.target, closest |-> rest,
                  asked |-> asked, at |-> n, new |-> lk.new, sent |-> sent, requests |-> requests]
      BY <1>3, <2>2
    <2>9. asked \in SUBSET Nodes /\ sent \in SUBSET Nodes /\ requests \in Nat /\ sent \subseteq asked
      BY <1>1, <2>4, <2>7 DEF Counted
    <2>10. requests = Cardinality(sent)
      <3>1. IsFiniteSet(lk.sent) /\ n \notin lk.sent
        BY <1>1, <2>4, TableAssumption, FS_Subset DEF Counted
      <3>2. Cardinality(lk.sent \cup {n}) = Cardinality(lk.sent) + 1
        BY <3>1, FS_AddElement
      <3> QED  BY <3>2 DEF Counted
    <2>11. requests + Len(rest) <= Alpha + Len(lk.new)
      <3>1. Len(rest) \in Nat /\ Len(rest) <= Len(q) - 1
        BY <1>1, <2>4, <2>6
      <3>2. lk.requests + Len(q) <= Alpha + Len(lk.new)
        BY DEF Counted
      <3>3. lk.requests \in Nat /\ Len(q) \in Nat /\ Len(lk.new) \in Nat /\ Alpha \in Nat
        BY <1>1, NodeNumbers
      <3>4. requests = lk.requests + 1
        OBVIOUS
      <3> HIDE DEF rest, q, requests
      <3> QED  BY <3>1, <3>2, <3>3, <3>4
    <2> HIDE DEF n, rest, asked, sent, requests
    <2>12. next \in RefreshType(D)
      BY <2>4, <2>6, <2>8, <2>9, RefreshFields DEF RefreshType
    <2>13. /\ next.pc = "asking" /\ next.at = n /\ next.closest = rest /\ next.asked = asked
           /\ next.new = lk.new /\ next.sent = sent /\ next.requests = requests
      BY <2>8
    <2>14. Counted(next)
      BY <2>9, <2>10, <2>11, <2>13 DEF Counted
    <2> QED  BY <2>1, <2>4, <2>12, <2>13, <2>14 DEF Bounded, next
  <1> QED  BY <1>4, <1>5

\* A node that is noted is to be asked, and is new.
NoteType(D) == [nodes : SUBSET Nodes, lk : RefreshType(D), found : BOOLEAN]

LEMMA NoteProperties ==
  ASSUME NEW D, NEW s \in NoteType(D), Counted(s.lk), NEW n \in Nodes
  PROVE  /\ Note(s, n) \in NoteType(D)
         /\ s.nodes \subseteq Note(s, n).nodes
         /\ Counted(Note(s, n).lk)
         /\ Len(Note(s, n).lk.new) <= Len(s.lk.new) + 1
  <1>1. PICK ns \in SUBSET Nodes, lk \in RefreshType(D), found \in BOOLEAN :
               s = [nodes |-> ns, lk |-> lk, found |-> found]
    BY DEF NoteType
  <1>2. s.nodes = ns /\ s.lk = lk /\ s.found = found
    BY <1>1
  <1>3. lk.new \in Seq(Nodes) /\ lk.closest \in Seq(Nodes) /\ Len(lk.new) \in Nat
    BY RefreshFields
  <1>4. ASSUME Note(s, n) = s
        PROVE  /\ Note(s, n) \in NoteType(D) /\ s.nodes \subseteq Note(s, n).nodes
               /\ Counted(Note(s, n).lk) /\ Len(Note(s, n).lk.new) <= Len(s.lk.new) + 1
    BY <1>2, <1>3, <1>4
  <1>5. CASE ~ (s.found \/ n \in lk.asked) /\ n = lk.target
    <2>1. Note(s, n) = [nodes |-> InsertOrUpdate(ns, n), lk |-> lk, found |-> TRUE]
      BY <1>1, <1>2, <1>5 DEF Note
    <2>2. InsertOrUpdate(ns, n) \in SUBSET Nodes /\ ns \subseteq InsertOrUpdate(ns, n)
      BY InsertProperties
    <2> QED  BY <1>2, <1>3, <2>1, <2>2 DEF NoteType
  <1>6. CASE /\ ~ (s.found \/ n \in lk.asked) /\ n # lk.target
             /\ Distance(n, s.lk.target) < Distance(s.lk.at, s.lk.target)
    <2> DEFINE closest == <<n>> \o lk.closest
               new == Append(lk.new, n)
    <2>1. PICK next : next = [lk EXCEPT !.closest = closest, !.new = new]
      OBVIOUS
    <2>2. Note(s, n) = [nodes |-> ns, lk |-> next, found |-> found]
      BY <1>1, <1>2, <1>6, <2>1 DEF Note
    <2>3. /\ closest \in Seq(Nodes) /\ Len(closest) = Len(lk.closest) + 1
          /\ new \in Seq(Nodes) /\ Len(new) = Len(lk.new) + 1
      BY <1>3
    <2> HIDE DEF closest, new
    <2>4. next = [pc |-> lk.pc, todo |-> lk.todo, target |-> lk.target, closest |-> closest,
                  asked |-> lk.asked, at |-> lk.at, new |-> new, sent |-> lk.sent,
                  requests |-> lk.requests]
      <3>1. lk = [pc |-> lk.pc, todo |-> lk.todo, target |-> lk.target, closest |-> lk.closest,
                  asked |-> lk.asked, at |-> lk.at, new |-> lk.new, sent |-> lk.sent,
                  requests |-> lk.requests]
        BY RefreshFields
      <3> QED  BY <2>1, <3>1
    <2>5. next \in RefreshType(D)
      BY <2>3, <2>4, RefreshFields DEF RefreshType
    <2>6. /\ next.closest = closest /\ next.new = new /\ next.asked = lk.asked
          /\ next.sent = lk.sent /\ next.requests = lk.requests
      BY <2>4
    <2>7. Counted(next)
      <3>1. /\ lk.requests \in Nat /\ Len(lk.closest) \in Nat
            /\ lk.requests + Len(lk.closest) <= Alpha + Len(lk.new)
        BY <1>2, <1>3, RefreshFields DEF Counted
      <3>2. lk.requests + Len(closest) <= Alpha + Len(new)
        <4> DEFINE c == Len(lk.closest)
                   d == Len(lk.new)
        <4> HIDE DEF c, d
        <4>1. lk.requests \in Nat /\ c \in Nat /\ d \in Nat /\ lk.requests + c <= Alpha + d
          BY <1>3, <3>1 DEF c, d
        <4>2. Len(closest) = c + 1 /\ Len(new) = d + 1
          BY <2>3 DEF c, d
        <4> QED  BY <4>1, <4>2, NodeNumbers
      <3> QED  BY <1>2, <2>6, <3>2 DEF Counted
    <2> QED  BY <1>2, <1>3, <2>2, <2>3, <2>5, <2>6, <2>7 DEF NoteType
  <1>7. CASE s.found \/ n \in lk.asked
    <2>1. Note(s, n) = s
      BY <1>2, <1>7 DEF Note
    <2> QED  BY <1>4, <2>1
  <1>8. CASE /\ ~ (s.found \/ n \in lk.asked) /\ n # lk.target
             /\ ~ (Distance(n, s.lk.target) < Distance(s.lk.at, s.lk.target))
    <2>1. Note(s, n) = s
      BY <1>2, <1>8 DEF Note
    <2> QED  BY <1>4, <2>1
  <1> QED  BY <1>5, <1>6, <1>7, <1>8

LEMMA NoteAllProperties ==
  ASSUME NEW ns \in SUBSET Nodes, NEW D, NEW lk \in RefreshType(D), Counted(lk), NEW enrs \in Seq(Nodes)
  PROVE  /\ NoteAll(ns, lk, enrs) \in NoteType(D)
         /\ Counted(NoteAll(ns, lk, enrs).lk)
         /\ Len(NoteAll(ns, lk, enrs).lk.new) <= Len(lk.new) + Len(enrs)
  <1> DEFINE first == [nodes |-> ns, lk |-> lk, found |-> FALSE]
             N == Len(enrs)
             Steps(f) == [i \in 0 .. N |-> IF i = 0 THEN first ELSE Note(f[i - 1], enrs[i])]
             told == CHOOSE f : f = Steps(f)
             T == {s \in NoteType(D) : Counted(s.lk)}
  <1>1. NoteAll(ns, lk, enrs) = told[N]
    BY DEF NoteAll
  <1>2. first \in T /\ first.lk = lk
    BY DEF NoteType
  <1>3. N \in Nat /\ \A i \in 1 .. N : enrs[i] \in Nodes
    OBVIOUS
  <1>4. ASSUME NEW s \in T, NEW n \in Nodes
        PROVE  Note(s, n) \in T /\ Len(s.lk.new) \in Nat /\ Len(Note(s, n).lk.new) <= Len(s.lk.new) + 1
               /\ Len(Note(s, n).lk.new) \in Nat
    <2>1. Note(s, n) \in T /\ Len(Note(s, n).lk.new) <= Len(s.lk.new) + 1
      BY NoteProperties
    <2>2. \A r \in T : Len(r.lk.new) \in Nat
      <3> SUFFICES ASSUME NEW r \in T PROVE Len(r.lk.new) \in Nat
        OBVIOUS
      <3>1. r.lk \in RefreshType(D)
        BY DEF NoteType
      <3>2. r.lk.new \in Seq(Nodes)
        BY <3>1, RefreshFields
      <3> QED  BY <3>2
    <2> HIDE DEF T
    <2> QED  BY <2>1, <2>2
  <1>5. Len(lk.new) \in Nat
    BY RefreshFields
  <1> HIDE DEF T, first, N
  <1> DEFINE G == [p \in (1 .. N) \X T |-> Note(p[2], enrs[p[1]])]
  <1>6. G \in [(1 .. N) \X T -> T]
    BY <1>3, <1>4
  <1>7. PICK f \in [0 .. N -> T] : AreSteps(f, N, first, G)
    <2> HIDE DEF G
    <2> QED  BY <1>2, <1>3, <1>6, StepsExist
  <1>8. f = Steps(f)
    <2>1. ASSUME NEW i \in 1 .. N PROVE f[i] = Note(f[i - 1], enrs[i])
      <3>1. i - 1 \in 0 .. N
        BY <1>3
      <3>2. <<i, f[i - 1]>> \in (1 .. N) \X T
        BY <3>1
      <3>3. G[<<i, f[i - 1]>>] = Note(f[i - 1], enrs[i])
        BY <3>2
      <3> QED  BY <1>7, <3>3 DEF AreSteps
    <2>2. \A i \in 0 .. N : i = 0 \/ i \in 1 .. N
      BY <1>3
    <2> HIDE DEF G
    <2> QED  BY <1>7, <2>1, <2>2 DEF AreSteps
  <1>9. told = Steps(told)
    BY <1>8
  <1> HIDE DEF told
  <1>10. told[0] = first /\ \A i \in 1 .. N : told[i] = Note(told[i - 1], enrs[i])
    <2>1. \A i \in 0 .. N : Steps(told)[i] = IF i = 0 THEN first ELSE Note(told[i - 1], enrs[i])
      OBVIOUS
    <2> QED  BY <1>3, <1>9, <2>1
  <1> DEFINE U == [i \in 0 .. N |-> {s \in T : Len(s.lk.new) <= Len(lk.new) + i}]
  <1>11. told[N] \in U[N]
    <2>1. told[0] \in U[0]
      BY <1>2, <1>3, <1>5, <1>10
    <2>2. ASSUME NEW i \in 1 .. N, told[i - 1] \in U[i - 1] PROVE told[i] \in U[i]
      <3>1. i - 1 \in 0 .. N /\ i \in 0 .. N
        BY <1>3
      <3>2. told[i - 1] \in T /\ Len(told[i - 1].lk.new) <= Len(lk.new) + (i - 1)
        BY <2>2, <3>1
      <3>3. told[i] \in T /\ Len(told[i].lk.new) <= Len(told[i - 1].lk.new) + 1
            /\ Len(told[i].lk.new) \in Nat /\ Len(told[i - 1].lk.new) \in Nat
        BY <1>3, <1>4, <1>10, <3>2
      <3>4. Len(told[i].lk.new) <= Len(lk.new) + i
        <4> DEFINE a == Len(lk.new)
                   b == Len(told[i - 1].lk.new)
                   c == Len(told[i].lk.new)
        <4>1. a \in Nat /\ b \in Nat /\ c \in Nat /\ c <= b + 1 /\ b <= a + (i - 1)
          BY <1>5, <3>2, <3>3
        <4> HIDE DEF a, b, c
        <4>2. c <= a + i
          BY <1>3, <4>1
        <4> QED  BY <4>2 DEF a, c
      <3> QED  BY <3>1, <3>3, <3>4
    <2> HIDE DEF U
    <2> QED  BY <1>3, <2>1, <2>2, StepsLead
  <1>12. told[N] \in T /\ Len(told[N].lk.new) <= Len(lk.new) + N
    <2>1. N \in 0 .. N
      BY <1>3
    <2> QED  BY <1>11, <2>1
  <1> QED  BY <1>1, <1>12 DEF T, N

RefreshInv ==
  /\ TableInv
  /\ \E D : refreshes \in [Refreshes -> RefreshType(D)]
  /\ \A f \in Refreshes : Bounded(refreshes[f])

LEMMA RefreshTypeGrows ==
  ASSUME NEW D, NEW E, D \subseteq E PROVE RefreshType(D) \subseteq RefreshType(E)
  BY DEF RefreshType

\* One refresh goes on, and the table may change.
LEMMA RefreshGoesOn ==
  ASSUME RefreshInv, NEW f \in Refreshes, NEW E, NEW lk \in RefreshType(E), Bounded(lk),
         refreshes' = [refreshes EXCEPT ![f] = lk], TableInv'
  PROVE  RefreshInv'
  <1>1. PICK D : refreshes \in [Refreshes -> RefreshType(D)]
    BY DEF RefreshInv
  <1> DEFINE F == D \cup E
  <1>2. RefreshType(D) \subseteq RefreshType(F) /\ RefreshType(E) \subseteq RefreshType(F)
    BY RefreshTypeGrows
  <1> HIDE DEF F
  <1>3. refreshes' \in [Refreshes -> RefreshType(F)]
    BY <1>1, <1>2
  <1>4. \A g \in Refreshes : refreshes'[g] = IF g = f THEN lk ELSE refreshes[g]
    BY <1>1
  <1> QED  BY <1>3, <1>4 DEF RefreshInv

LEMMA RefreshesWait ==
  ASSUME RefreshInv, UNCHANGED refreshes, TableInv' PROVE RefreshInv'
  BY DEF RefreshInv

\* A refresh that is not in a lookup: its state and what it has to do change only.
LEMMA BetweenLookups ==
  ASSUME RefreshInv, NEW f \in Refreshes, NEW pc \in {"next", "done"}, NEW todo,
         refreshes' = [refreshes EXCEPT ![f] = [refreshes[f] EXCEPT !.pc = pc, !.todo = todo]],
         UNCHANGED peerVars
  PROVE  RefreshInv'
  <1> DEFINE lk == refreshes[f]
  <1>1. PICK D : refreshes \in [Refreshes -> RefreshType(D)]
    BY DEF RefreshInv
  <1>2. lk \in RefreshType(D) /\ Bounded(lk)
    BY <1>1 DEF RefreshInv
  <1>3. PICK next : next = [lk EXCEPT !.pc = pc, !.todo = todo]
    OBVIOUS
  <1>4. refreshes' = [refreshes EXCEPT ![f] = next]
    BY <1>3
  <1> HIDE DEF lk
  <1>5. next = [pc |-> pc, todo |-> todo, target |-> lk.target, closest |-> lk.closest,
                asked |-> lk.asked, at |-> lk.at, new |-> lk.new, sent |-> lk.sent,
                requests |-> lk.requests]
    <2>1. lk = [pc |-> lk.pc, todo |-> lk.todo, target |-> lk.target, closest |-> lk.closest,
                asked |-> lk.asked, at |-> lk.at, new |-> lk.new, sent |-> lk.sent,
                requests |-> lk.requests]
      BY <1>2, RefreshFields
    <2> QED  BY <1>3, <2>1
  <1>6. next \in RefreshType({todo})
    BY <1>2, <1>5, RefreshFields DEF RefreshType
  <1>7. Bounded(next)
    <2>1. /\ next.pc = pc /\ next.closest = lk.closest /\ next.asked = lk.asked
          /\ next.new = lk.new /\ next.sent = lk.sent /\ next.requests = lk.requests
      BY <1>5
    <2> QED  BY <1>2, <2>1 DEF Bounded, Counted
  <1>8. TableInv'
    BY TableStays DEF RefreshInv, peerVars
  <1> QED  BY <1>4, <1>6, <1>7, <1>8, RefreshGoesOn

LEMMA StartLookupStep ==
  ASSUME RefreshInv, NEW f \in Refreshes, StartLookup(f) PROVE RefreshInv'
  <1>1. PICK target \in Ids :
          refreshes' = [refreshes EXCEPT ![f] =
            FindNext(table.nodes, [NoLookup EXCEPT !.todo = Tail(refreshes[f].todo), !.target = target,
                                            !.closest = Nearest(table.nodes, target, Alpha)], FALSE)]
    BY DEF StartLookup
  <1> DEFINE todo == Tail(refreshes[f].todo)
             near == Nearest(table.nodes, target, Alpha)
  <1>2. PICK lk : lk = [NoLookup EXCEPT !.todo = todo, !.target = target, !.closest = near]
    OBVIOUS
  <1>3. refreshes' = [refreshes EXCEPT ![f] = FindNext(table.nodes, lk, FALSE)]
    BY <1>1, <1>2
  <1>4. table.nodes \in SUBSET Nodes
    BY TableNodes DEF RefreshInv
  <1>5. near \in Seq(table.nodes) /\ Len(near) <= Alpha
    <2>1. TellsApart(target) /\ (\A n \in Nodes : Distance(n, target) \in Nat) /\ Alpha \in Nat
      BY NodeLookupAssumption
    <2> QED  BY <1>4, <2>1, NearestProperties
  <1>6. near \in Seq(Nodes) /\ Len(near) \in Nat
    BY <1>4, <1>5
  <1> HIDE DEF near, todo
  <1>7. lk = [pc |-> "idle", todo |-> todo, target |-> target, closest |-> near,
              asked |-> {}, at |-> Self, new |-> <<>>, sent |-> {}, requests |-> 0]
    BY <1>2 DEF NoLookup
  <1>8. lk \in RefreshType({todo})
    <2>1. <<>> \in Seq(Nodes)
      OBVIOUS
    <2> QED  BY <1>6, <1>7, <2>1 DEF RefreshType
  <1>9. Counted(lk) /\ Len(lk.new) <= MaxNew + Limit
    <2>1. /\ lk.sent = {} /\ lk.asked = {} /\ lk.requests = 0 /\ lk.closest = near /\ lk.new = <<>>
      BY <1>7
    <2>2. 0 + Len(near) <= Alpha + 0 /\ 0 <= MaxNew + Limit
      BY <1>5, <1>6, NodeNumbers
    <2> QED  BY <2>1, <2>2, FS_EmptySet DEF Counted
  <1> DEFINE next == FindNext(table.nodes, lk, FALSE)
  <1>10. next \in RefreshType({todo}) /\ Bounded(next)
    BY <1>8, <1>9, FindNextProperties
  <1>11. TableInv'
    BY TableStays DEF RefreshInv, StartLookup, peerVars
  <1>12. refreshes' = [refreshes EXCEPT ![f] = next]
    BY <1>3
  <1> HIDE DEF next
  <1> QED  BY <1>10, <1>11, <1>12, RefreshGoesOn

LEMMA NoNodesStep ==
  ASSUME RefreshInv, NEW f \in Refreshes, NoNodes(f) PROVE RefreshInv'
  <1> DEFINE lk == refreshes[f]
             next == FindNext(table.nodes, lk, FALSE)
  <1>1. PICK D : refreshes \in [Refreshes -> RefreshType(D)]
    BY DEF RefreshInv
  <1>2. lk \in RefreshType(D) /\ Bounded(lk)
    BY <1>1 DEF RefreshInv
  <1>3. refreshes' = [refreshes EXCEPT ![f] = next] /\ UNCHANGED <<table, evictions>>
    BY DEF NoNodes
  <1> HIDE DEF lk
  <1>4. next \in RefreshType(D) /\ Bounded(next)
    BY <1>2, FindNextProperties DEF Bounded
  <1>5. TableInv'
    BY <1>3, TableStays DEF RefreshInv
  <1> HIDE DEF next
  <1> QED  BY <1>3, <1>4, <1>5, RefreshGoesOn

LEMMA NodesArriveStep ==
  ASSUME RefreshInv, NEW f \in Refreshes, NodesArrive(f) PROVE RefreshInv'
  <1> DEFINE lk == refreshes[f]
  <1>1. PICK D : refreshes \in [Refreshes -> RefreshType(D)]
    BY DEF RefreshInv
  <1>2. /\ lk \in RefreshType(D) /\ Counted(lk) /\ Len(lk.new) <= MaxNew /\ lk.at \in Nodes
        /\ table.nodes \in SUBSET Nodes /\ TableInv
    BY <1>1, TableNodes DEF RefreshInv, NodesArrive, Bounded
  <1>3. PICK known \in SUBSET Nodes :
          LET enrs  == NodesAnswer(known, lk.at, Self, <<LogDistance(lk.at, lk.target)>>)
              s     == NoteAll(table.nodes, lk, enrs)
              after == FindNext(s.nodes, s.lk, s.found)
          IN /\ table' = [table EXCEPT !.nodes = s.nodes]
             /\ refreshes' = [refreshes EXCEPT ![f] = after]
    BY DEF NodesArrive
  <1>4. evictions' \in Nat
    BY DEF NodesArrive, RefreshInv, TableInv
  <1> HIDE DEF lk
  <1> DEFINE d == LogDistance(lk.at, lk.target)
             enrs == NodesAnswer(known, lk.at, Self, <<d>>)
             s == NoteAll(table.nodes, lk, enrs)
             after == FindNext(s.nodes, s.lk, s.found)
  <1>5. table' = [table EXCEPT !.nodes = s.nodes] /\ refreshes' = [refreshes EXCEPT ![f] = after]
    BY <1>3
  <1>6. enrs \in Seq(Nodes) /\ Len(enrs) <= Limit
    <2> HIDE DEF d
    <2>1. <<d>> \in Seq({d})
      OBVIOUS
    <2> QED  BY <1>2, <2>1, NodesAnswerProperties
  <1> HIDE DEF enrs
  <1>7. s \in NoteType(D) /\ Counted(s.lk) /\ Len(s.lk.new) <= Len(lk.new) + Len(enrs)
    BY <1>2, <1>6, NoteAllProperties
  <1> HIDE DEF s
  <1>8. s.nodes \in SUBSET Nodes /\ s.lk \in RefreshType(D) /\ s.found \in BOOLEAN
    BY <1>7 DEF NoteType
  <1>9. Len(s.lk.new) <= MaxNew + Limit
    <2>1. Len(lk.new) \in Nat /\ Len(s.lk.new) \in Nat /\ Len(enrs) \in Nat
      BY <1>2, <1>6, <1>8, RefreshFields
    <2> QED  BY <1>2, <1>6, <1>7, <2>1, NodeNumbers
  <1>10. after \in RefreshType(D) /\ Bounded(after)
    BY <1>7, <1>8, <1>9, FindNextProperties
  <1> HIDE DEF after
  <1>11. TableInv'
    BY <1>2, <1>4, <1>5, <1>8, TableNodes
  <1> QED  BY <1>5, <1>10, <1>11, RefreshGoesOn

LEMMA RefreshInit == ASSUME NodeInit PROVE RefreshInv
  <1>1. TableInv
    <2> DEFINE g == [n \in Nodes |-> {}]
    <2>1. table = [nodes |-> {}, gossip |-> g] /\ g \in [Nodes -> SUBSET Keys] /\ evictions = 0
      BY DEF NodeInit, PeersInit, EmptyTable
    <2> HIDE DEF g
    <2> QED  BY <2>1 DEF TableInv
  <1>2. NoLookup \in RefreshType({<<>>})
    <2>1. <<>> \in Seq(Nodes)
      OBVIOUS
    <2> QED  BY <2>1 DEF NoLookup, RefreshType
  <1>3. Bounded(NoLookup)
    <2>1. 0 <= MaxNew + Limit /\ 0 + 0 <= Alpha + 0 /\ Len(<<>>) = 0
      BY NodeNumbers
    <2> QED  BY <2>1, FS_EmptySet DEF NoLookup, Bounded, Counted
  <1>4. refreshes = [f \in Refreshes |-> NoLookup]
    BY DEF NodeInit
  <1> HIDE DEF NoLookup
  <1> QED  BY <1>1, <1>2, <1>3, <1>4 DEF RefreshInv

LEMMA RefreshStep ==
  ASSUME RefreshInv, [NodeNext]_nodeVars PROVE RefreshInv'
  <1>1. ASSUME NEW n \in Nodes, SendPing(n) \/ Pong(n) \/ NoPong(n) \/ BadPong(n) \/ HandlePing(n),
               UNCHANGED refreshes
        PROVE  RefreshInv'
    BY <1>1, PeerStep, RefreshesWait DEF RefreshInv
  <1>2. ASSUME NEW n \in BootNodes, AddBootNode(n) \/ BootNodePinged(n) PROVE RefreshInv'
    <2>1. n \in Nodes
      BY NodeLookupAssumption
    <2> QED  BY <1>1, <1>2, <2>1 DEF AddBootNode, BootNodePinged
  <1>3. ASSUME NEW p \in finding, BootNodeAnswers(p) PROVE RefreshInv'
    BY <1>3, TableStays, RefreshesWait DEF BootNodeAnswers, RefreshInv
  <1>4. ASSUME NEW f \in Refreshes, StartRefresh(f) PROVE RefreshInv'
    <2>1. PICK todo : refreshes' = [refreshes EXCEPT ![f] = [refreshes[f] EXCEPT !.pc = "next", !.todo = todo]]
      BY <1>4 DEF StartRefresh
    <2> QED  BY <1>4, <2>1, BetweenLookups DEF StartRefresh
  <1>5. ASSUME NEW f \in Refreshes, RefreshDone(f) PROVE RefreshInv'
    <2>1. refreshes' = [refreshes EXCEPT ![f] = [refreshes[f] EXCEPT !.pc = "done", !.todo = refreshes[f].todo]]
      <3>1. PICK D : refreshes \in [Refreshes -> RefreshType(D)]
        BY DEF RefreshInv
      <3>2. [refreshes[f] EXCEPT !.pc = "done", !.todo = refreshes[f].todo] = [refreshes[f] EXCEPT !.pc = "done"]
        <4>1. refreshes[f] \in RefreshType(D)
          BY <3>1
        <4> QED  BY <4>1 DEF RefreshType
      <3>3. refreshes' = [refreshes EXCEPT ![f] = [refreshes[f] EXCEPT !.pc = "done"]]
        BY <1>5 DEF RefreshDone
      <3> QED  BY <3>2, <3>3
    <2> QED  BY <1>5, <2>1, BetweenLookups DEF RefreshDone
  <1>6. ASSUME NEW f \in Refreshes, StartLookup(f) \/ Reply(f) PROVE RefreshInv'
    BY <1>6, StartLookupStep, NoNodesStep, NodesArriveStep DEF Reply
  <1>7. CASE UNCHANGED nodeVars
    BY <1>7, TableStays, RefreshesWait DEF nodeVars, peerVars, RefreshInv
  <1> QED  BY <1>1, <1>2, <1>3, <1>4, <1>5, <1>6, <1>7 DEF NodeNext

\* What a lookup of nodes asks, and what it finds, keeps within its bounds.
THEOREM RefreshInvariant == NodeSpec => []RefreshInv
  <1>1. NodeInit => RefreshInv
    BY RefreshInit
  <1>2. RefreshInv /\ [NodeNext]_nodeVars => RefreshInv'
    BY RefreshStep
  <1> QED  BY <1>1, <1>2, PTL DEF NodeSpec

\* The lookup of a node asks no peer twice, and no more peers than it began with
\* and found anew; these are no more than those after which it stops and those of
\* one answer more.
THEOREM LookupIsBoundedAlways == NodeSpec => []LookupIsBounded
  <1>1. RefreshInv => LookupIsBounded
    <2> SUFFICES ASSUME RefreshInv, NEW f \in Refreshes
                 PROVE  /\ refreshes[f].requests = Cardinality(refreshes[f].sent)
                        /\ refreshes[f].requests <= Alpha + Len(refreshes[f].new)
                        /\ Len(refreshes[f].new) <= MaxNew + Limit
      BY DEF LookupIsBounded
    <2>1. PICK D : refreshes[f] \in RefreshType(D)
      BY DEF RefreshInv
    <2>2. /\ refreshes[f].requests \in Nat /\ Len(refreshes[f].closest) \in Nat
          /\ Len(refreshes[f].new) \in Nat
      BY <2>1, RefreshFields
    <2>3. Bounded(refreshes[f])
      BY DEF RefreshInv
    <2> QED  BY <2>2, <2>3, NodeNumbers DEF Bounded, Counted
  <1> QED  BY <1>1, RefreshInvariant, PTL

----------------------------------------------------------------------------
(* The marks.                                                              *)

\* What is marked are the offers made and those given up, none of them twice.
MarksInv ==
  /\ \E ns : \E g \in [Nodes -> SUBSET Keys] : table = [nodes |-> ns, gossip |-> g]
  /\ offers \in [Nodes \X Keys -> {0, 1}]
  /\ \A n \in Nodes, k \in Keys :
       k \in table.gossip[n] <=> offers[<<n, k>>] = 1 \/ <<n, k>> \in aborted

\* New nodes leave the marks alone.
LEMMA NodesOnly ==
  ASSUME MarksInv, NEW ns, table' = [table EXCEPT !.nodes = ns],
         UNCHANGED <<offers, aborted>>
  PROVE  MarksInv'
  <1>1. PICK ms : \E g \in [Nodes -> SUBSET Keys] : table = [nodes |-> ms, gossip |-> g]
    BY DEF MarksInv
  <1>2. PICK g \in [Nodes -> SUBSET Keys] : table = [nodes |-> ms, gossip |-> g]
    BY <1>1
  <1>3. table' = [nodes |-> ns, gossip |-> g] /\ table.gossip = g
    BY <1>2
  <1> QED  BY <1>3 DEF MarksInv

LEMMA Unchanged ==
  ASSUME MarksInv, UNCHANGED <<table, offers, aborted>> PROVE MarksInv'
  BY DEF MarksInv

\* An eviction takes the marks, the offers and what was given up of one peer.
LEMMA EvictKeeps ==
  ASSUME MarksInv, NEW n \in Nodes, Evict(n) PROVE MarksInv'
  <1>1. PICK ms : \E g \in [Nodes -> SUBSET Keys] : table = [nodes |-> ms, gossip |-> g]
    BY DEF MarksInv
  <1>2. PICK g \in [Nodes -> SUBSET Keys] : table = [nodes |-> ms, gossip |-> g]
    BY <1>1
  <1> DEFINE h == [g EXCEPT ![n] = {}]
  <1>3. table.gossip = g
    BY <1>2
  <1>4. table' = [nodes |-> ms \ {n}, gossip |-> h] /\ h \in [Nodes -> SUBSET Keys]
    BY <1>2 DEF Evict, EvictNode
  <1>5. offers' \in [Nodes \X Keys -> {0, 1}]
    BY DEF Evict, MarksInv
  <1>6. ASSUME NEW m \in Nodes, NEW k \in Keys
        PROVE  k \in h[m] <=> offers'[<<m, k>>] = 1 \/ <<m, k>> \in aborted'
    <2>1. offers'[<<m, k>>] = IF m = n THEN 0 ELSE offers[<<m, k>>]
      BY DEF Evict
    <2>2. <<m, k>> \in aborted' <=> <<m, k>> \in aborted /\ m # n
      BY DEF Evict
    <2>3. h[m] = IF m = n THEN {} ELSE table.gossip[m]
      BY <1>3
    <2> QED  BY <2>1, <2>2, <2>3 DEF MarksInv
  <1>7. table'.gossip = h
    BY <1>4
  <1> HIDE DEF h
  <1> QED  BY <1>4, <1>5, <1>6, <1>7 DEF MarksInv

\* An offer is made, or given up, for what is not marked only, and marks it.
LEMMA OfferKeeps ==
  ASSUME MarksInv, NEW ps, Offer(ps) PROVE MarksInv'
  <1>1. PICK ms : \E g \in [Nodes -> SUBSET Keys] : table = [nodes |-> ms, gossip |-> g]
    BY DEF MarksInv
  <1>2. PICK g \in [Nodes -> SUBSET Keys] : table = [nodes |-> ms, gossip |-> g]
    BY <1>1
  <1> DEFINE fresh == {p \in ps : ~ KnownToPeer(table, p[1], p[2])}
             h == [n \in Nodes |-> g[n] \cup {k \in Keys : <<n, k>> \in fresh}]
  <1>3. table.gossip = g /\ table.nodes = ms
    BY <1>2
  <1>4. table' = [nodes |-> ms, gossip |-> h] /\ h \in [Nodes -> SUBSET Keys]
    BY <1>2, <1>3 DEF Offer, MarkKnown
  <1>5. ASSUME NEW n \in Nodes, NEW k \in Keys, <<n, k>> \in fresh
        PROVE  offers[<<n, k>>] = 0 /\ <<n, k>> \in Nodes \X Keys
    BY <1>5 DEF KnownToPeer, MarksInv
  <1>6. ASSUME NEW p \in Nodes \X Keys
        PROVE  offers'[p] = IF p \in fresh /\ p[1] \in ms THEN offers[p] + 1 ELSE offers[p]
    BY <1>3 DEF Offer
  <1>7. aborted' = aborted \cup {p \in fresh : p[1] \notin ms}
    BY <1>3 DEF Offer
  <1>8. DOMAIN offers' = Nodes \X Keys /\ offers' = [p \in Nodes \X Keys |-> offers'[p]]
    BY DEF Offer
  <1> HIDE DEF fresh
  <1>9. offers' \in [Nodes \X Keys -> {0, 1}]
    <2>1. ASSUME NEW p \in Nodes \X Keys PROVE offers'[p] \in {0, 1}
      <3>1. PICK n \in Nodes, k \in Keys : p = <<n, k>>
        OBVIOUS
      <3> QED  BY <1>5, <1>6, <3>1 DEF MarksInv
    <2> QED  BY <1>8, <2>1
  <1>10. ASSUME NEW n \in Nodes, NEW k \in Keys
         PROVE  k \in h[n] <=> offers'[<<n, k>>] = 1 \/ <<n, k>> \in aborted'
    <2>1. k \in h[n] <=> k \in g[n] \/ <<n, k>> \in fresh
      OBVIOUS
    <2>2. k \in g[n] <=> offers[<<n, k>>] = 1 \/ <<n, k>> \in aborted
      BY <1>3 DEF MarksInv
    <2> QED  BY <1>5, <1>6, <1>7, <2>1, <2>2
  <1>11. table'.gossip = h
    BY <1>4
  <1> HIDE DEF h
  <1> QED  BY <1>4, <1>9, <1>10, <1>11 DEF MarksInv

LEMMA PeersKeep ==
  ASSUME MarksInv, PeersNext PROVE MarksInv'
  <1>1. ASSUME NEW n \in Nodes, SendPing(n) PROVE MarksInv'
    BY <1>1, Unchanged DEF SendPing
  <1>2. ASSUME NEW n \in Nodes, Pong(n) \/ HandlePing(n) PROVE MarksInv'
    BY <1>2, NodesOnly DEF Pong, HandlePing
  <1>3. ASSUME NEW n \in Nodes, NoPong(n) \/ BadPong(n) PROVE MarksInv'
    BY <1>3, EvictKeeps, Unchanged DEF NoPong, BadPong
  <1>4. ASSUME NEW ks \in SUBSET Keys \ {{}}, Gossip(ks) PROVE MarksInv'
    BY <1>4, OfferKeeps DEF Gossip
  <1> QED  BY <1>1, <1>2, <1>3, <1>4 DEF PeersNext

LEMMA LookupsKeep ==
  ASSUME MarksInv, NEW l \in Lookups, Start(l) \/ StartLocal(l) \/ Answer(l) PROVE MarksInv'
  <1>1. CASE Start(l) \/ StartLocal(l) \/ NoAnswer(l) \/ StreamAnswer(l)
    BY <1>1, Unchanged DEF Start, StartLocal, NoAnswer, StreamAnswer, peerVars
  <1>2. CASE ClosestAnswer(l)
    <2>1. \E ns : table' = [table EXCEPT !.nodes = ns]
      BY <1>2 DEF ClosestAnswer
    <2>2. UNCHANGED <<offers, aborted>>
      BY <1>2 DEF ClosestAnswer
    <2> QED  BY <2>1, <2>2, NodesOnly
  <1>3. CASE ContentAnswer(l)
    BY <1>3, OfferKeeps DEF ContentAnswer
  <1> QED  BY <1>1, <1>2, <1>3 DEF Answer

\* The account of the marks is right whatever peers answer, come and go.
THEOREM MarksInvariant == Spec => []MarksInv
  <1>1. Init => MarksInv
    <2> DEFINE g == [n \in Nodes |-> {}]
    <2> SUFFICES ASSUME Init PROVE MarksInv
      OBVIOUS
    <2>1. table = [nodes |-> {}, gossip |-> g] /\ g \in [Nodes -> SUBSET Keys]
      BY DEF Init, PeersInit, EmptyTable
    <2>2. offers = [p \in Nodes \X Keys |-> 0] /\ aborted = {}
      BY DEF Init, PeersInit
    <2>3. \A n \in Nodes : table.gossip[n] = {}
      BY <2>1
    <2>4. offers \in [Nodes \X Keys -> {0, 1}] /\ \A n \in Nodes, k \in Keys : offers[<<n, k>>] # 1
      BY <2>2
    <2>5. \E ns : \E f \in [Nodes -> SUBSET Keys] : table = [nodes |-> ns, gossip |-> f]
      BY <2>1
    <2> HIDE DEF g
    <2> QED  BY <2>2, <2>3, <2>4, <2>5 DEF MarksInv
  <1>2. MarksInv /\ [Next]_vars => MarksInv'
    <2> SUFFICES ASSUME MarksInv, [Next]_vars PROVE MarksInv'
      OBVIOUS
    <2>1. CASE PeersNext
      BY <2>1, PeersKeep
    <2>2. ASSUME NEW l \in Lookups, Start(l) \/ StartLocal(l) \/ Answer(l) PROVE MarksInv'
      BY <2>2, LookupsKeep
    <2>3. ASSUME NEW k \in Keys, ContentAdded(k) PROVE MarksInv'
      BY <2>3, Unchanged DEF ContentAdded, peerVars
    <2>4. CASE UNCHANGED vars
      BY <2>4, Unchanged DEF vars, peerVars
    <2> QED  BY <2>1, <2>2, <2>3, <2>4 DEF Next
  <1> QED  BY <1>1, <1>2, PTL DEF Spec

\* A peer is offered a key at most once while it is not evicted, by gossip and
\* any number of lookups together.
THEOREM OfferedOnceAlways == Spec => []OfferedOnce
  <1>1. MarksInv => OfferedOnce
    BY DEF MarksInv, OfferedOnce
  <1> QED  BY <1>1, MarksInvariant, PTL

\* A key is marked as known to a peer only if the offer of it was made, or
\* given up because the peer had left the table.
THEOREM MarksAreOffersAlways == Spec => []MarksAreOffers
  <1>1. MarksInv => MarksAreOffers
    <2> SUFFICES ASSUME MarksInv, NEW n \in Nodes, NEW k \in table.gossip[n]
                 PROVE  offers[<<n, k>>] = 1 \/ <<n, k>> \in aborted
      BY DEF MarksAreOffers
    <2>1. table.gossip[n] \subseteq Keys
      BY DEF MarksInv
    <2> QED  BY <2>1 DEF MarksInv
  <1> QED  BY <1>1, MarksInvariant, PTL
=============================================================================
