----------------------------- MODULE NodeLookup -----------------------------
(***************************************************************************)
(* How the routing table is filled: the refresh of its buckets, which runs *)
(* every 30 seconds whether or not the one before has ended, one lookup of *)
(* a random node id per bucket, and the boot nodes.                        *)
(*                                                                         *)
(* Peers answer FINDNODES as this program does (NodesAnswer), from         *)
(* whatever their routing table is.  (No name is one of ContentLookup, so  *)
(* that the proofs can be about both modules.)                             *)
(***************************************************************************)
EXTENDS Peers

CONSTANTS
  Refreshes,    \* the refreshes started
  BootNodes,    \* nodes given as boot nodes
  Ids,          \* node ids, those of Nodes among them
  Alpha,        \* peers a lookup begins with, 3
  MaxNew,       \* new peers after which a lookup stops, 16
  MinDistance,  \* buckets up to this distance are not refreshed, 239
  MaxDistance,  \* the greatest distance
  SomeKnown,    \* with more nodes every other bucket is refreshed, 24
  ManyKnown     \* with more nodes one bucket is refreshed, 48

ASSUME NodeLookupAssumption ==
  /\ BootNodes \subseteq Nodes
  /\ \A id \in Ids : TellsApart(id) /\ \A n \in Nodes : Distance(n, id) \in Nat
  /\ {Alpha, MaxNew, MinDistance, MaxDistance, SomeKnown, ManyKnown} \subseteq Nat

VARIABLES
  refreshes,  \* the refreshes and the lookup each is at
  booting,    \* boot nodes pinged first of all
  finding     \* <<boot node, distance>>: FINDNODES sent and not answered

nodeVars == <<peerVars, refreshes, booting, finding>>

\* A refresh is "idle", "next", "asking" or "done"; `todo' are the buckets left;
\* `target' is sought, `at' the peer asked.  `requests' counts what the lookup
\* has sent.
NoLookup == [pc |-> "idle", todo |-> <<>>, target |-> Self, closest |-> <<>>,
             asked |-> {}, at |-> Self, new |-> <<>>, sent |-> {}, requests |-> 0]

NodeInit ==
  /\ PeersInit
  /\ refreshes = [f \in Refreshes |-> NoLookup]
  /\ booting = {} /\ finding = {}

----------------------------------------------------------------------------
\* The distant buckets that are not full.
NotFull(t) ==
  SelectSeq([i \in 1 .. MaxDistance - MinDistance |-> MinDistance + i],
            LAMBDA d : Cardinality({n \in t.nodes : LogDistance(Self, n) = d}) < BucketSize)

EveryOther(s) == [i \in 1 .. (Len(s) + 1) \div 2 |-> s[2 * i - 1]]

\* What bucketRefresh refreshes.  With many nodes known it picks a bucket, and
\* ends in an exception if all are full.
ToRefresh(t) ==
  LET size == Cardinality(t.nodes) IN
  IF size > ManyKnown
  THEN IF NotFull(t) = <<>> THEN {<<>>} ELSE {<<d>> : d \in ToSet(NotFull(t))}
  ELSE IF size > SomeKnown THEN {EveryOther(NotFull(t))} ELSE {NotFull(t)}

StartRefresh(f) ==
  /\ refreshes[f].pc = "idle"
  /\ \E todo \in ToRefresh(table) :
       refreshes' = [refreshes EXCEPT ![f] = [@ EXCEPT !.pc = "next", !.todo = todo]]
  /\ UNCHANGED <<peerVars, booting, finding>>

RefreshDone(f) ==
  /\ refreshes[f].pc = "next" /\ refreshes[f].todo = <<>>
  /\ refreshes' = [refreshes EXCEPT ![f].pc = "done"]
  /\ UNCHANGED <<peerVars, booting, finding>>

----------------------------------------------------------------------------
(* One lookup.                                                             *)

\* The peers a lookup may ask: FINDNODES is not sent to a peer that is not in
\* the routing table, which counts as asked.
Reachable(ns, lk) ==
  {i \in DOMAIN lk.closest : lk.closest[i] \notin lk.asked /\ lk.closest[i] \in ns}

Ends(ns, lk, found) == found \/ Len(lk.new) > MaxNew \/ Reachable(ns, lk) = {}

\* The loop up to its next await.
FindNext(ns, lk, found) ==
  LET i == Min(Reachable(ns, lk)) IN
  IF Ends(ns, lk, found) THEN [lk EXCEPT !.pc = "next", !.at = Self, !.closest = <<>>]
  ELSE [lk EXCEPT !.pc = "asking", !.at = lk.closest[i],
                  !.closest = SubSeq(@, i + 1, Len(@)),
                  !.asked = @ \cup ToSet(SubSeq(lk.closest, 1, i)),
                  !.sent = @ \cup {lk.closest[i]}, !.requests = @ + 1]

\* The nodes pinged: those the answer named that are not in the table, and at
\* the end of the lookup all it found.
Pings(before, after, enrs) ==
  SendPings((ToSet(enrs) \ table.nodes)
            \cup IF before.pc = "asking" /\ after.pc = "next" THEN ToSet(after.new) ELSE {})

\* startLookup for a random id at the distance of the next bucket.
StartLookup(f) ==
  /\ refreshes[f].pc = "next" /\ refreshes[f].todo # <<>>
  /\ \E target \in Ids :
       /\ LogDistance(Self, target) = Head(refreshes[f].todo)
       /\ refreshes' = [refreshes EXCEPT ![f] =
            FindNext(table.nodes, [NoLookup EXCEPT !.todo = Tail(refreshes[f].todo), !.target = target,
                                            !.closest = Nearest(table.nodes, target, Alpha)], FALSE)]
  /\ UNCHANGED <<peerVars, booting, finding>>

\* A slip of NoNodes: the peer is asked again.
NoNodesRetries(f) == refreshes[f].pc = "asking" /\ UNCHANGED nodeVars

NoNodes(f) ==
  LET lk == refreshes[f]
      after == FindNext(table.nodes, lk, FALSE) IN
  /\ lk.pc = "asking"
  /\ refreshes' = [refreshes EXCEPT ![f] = after]
  /\ Pings(lk, after, <<>>)
  /\ UNCHANGED <<table, offers, aborted, evictions, booting, finding>>

\* A slip of Note: found nodes are asked, and not noted as new.
NoteOnly(s, n) ==
  IF s.found \/ n \in s.lk.asked THEN s
  ELSE IF n = s.lk.target THEN [s EXCEPT !.nodes = InsertOrUpdate(@, n), !.found = TRUE]
  ELSE IF Distance(n, s.lk.target) < Distance(s.lk.at, s.lk.target)
  THEN [s EXCEPT !.lk.closest = <<n>> \o @]
  ELSE s

\* One ENR of an answer.  The node sought is inserted as it is (the PING meant
\* for it is not sent, as it is given an id and not an ENR), and ends the lookup.
Note(s, n) ==
  IF s.found \/ n \in s.lk.asked THEN s
  ELSE IF n = s.lk.target THEN [s EXCEPT !.nodes = InsertOrUpdate(@, n), !.found = TRUE]
  ELSE IF Distance(n, s.lk.target) < Distance(s.lk.at, s.lk.target)
  THEN [s EXCEPT !.lk.closest = <<n>> \o @, !.lk.new = Append(@, n)]
  ELSE s

\* All of an answer, one ENR after the other.
NoteAll(ns, lk, enrs) ==
  LET told[i \in 0 .. Len(enrs)] ==
        IF i = 0 THEN [nodes |-> ns, lk |-> lk, found |-> FALSE] ELSE Note(told[i - 1], enrs[i])
  IN told[Len(enrs)]

NodesArrive(f) ==
  /\ refreshes[f].pc = "asking"
  /\ \E known \in SUBSET Nodes :
       LET lk    == refreshes[f]
           enrs  == NodesAnswer(known, lk.at, Self, <<LogDistance(lk.at, lk.target)>>)
           s     == NoteAll(table.nodes, lk, enrs)
           after == FindNext(s.nodes, s.lk, s.found)
       IN /\ enrs # <<>>
          /\ table' = [table EXCEPT !.nodes = s.nodes]
          /\ refreshes' = [refreshes EXCEPT ![f] = after]
          /\ Pings(lk, after, enrs)
  /\ UNCHANGED <<offers, aborted, evictions, booting, finding>>

Reply(f) == NoNodes(f) \/ NodesArrive(f)

----------------------------------------------------------------------------
(* Boot nodes.                                                             *)

AddBootNode(n) ==
  /\ n \notin booting
  /\ booting' = booting \cup {n}
  /\ SendPing(n)
  /\ UNCHANGED <<refreshes, finding>>

\* The PING has ended: the boot node, if it is in the table now, is asked for
\* every bucket that is empty, all at once.
BootNodePinged(n) ==
  /\ n \in booting
  /\ Pong(n) \/ NoPong(n) \/ BadPong(n)
  /\ booting' = booting \ {n}
  /\ finding' = IF n \notin table'.nodes THEN finding
                ELSE finding \cup {<<n, d>> : d \in
                       {e \in MinDistance .. MaxDistance :
                          \A m \in table'.nodes : LogDistance(Self, m) # e}}
  /\ UNCHANGED refreshes

BootNodeAnswers(p) ==
  /\ finding' = finding \ {p}
  /\ \E known \in SUBSET Nodes :
       SendPings(ToSet(NodesAnswer(known, p[1], Self, <<p[2]>>)) \ (table.nodes \cup {Self}))
  /\ UNCHANGED <<table, offers, aborted, evictions, refreshes, booting>>

NodeNext ==
  \/ \E n \in Nodes \ booting :
       (Pong(n) \/ NoPong(n) \/ BadPong(n)) /\ UNCHANGED <<refreshes, booting, finding>>
  \/ \E n \in Nodes : HandlePing(n) /\ UNCHANGED <<refreshes, booting, finding>>
  \/ \E n \in BootNodes : AddBootNode(n) \/ BootNodePinged(n)
  \/ \E p \in finding : BootNodeAnswers(p)
  \/ \E f \in Refreshes : StartRefresh(f) \/ StartLookup(f) \/ RefreshDone(f) \/ Reply(f)

NodeSpec == NodeInit /\ [][NodeNext]_nodeVars

\* A request is answered, or discv5 fails it; the rest is the program's to do.
FairNodeSpec ==
  NodeSpec /\ \A f \in Refreshes :
            WF_nodeVars(StartLookup(f)) /\ WF_nodeVars(RefreshDone(f)) /\ WF_nodeVars(Reply(f))

----------------------------------------------------------------------------
(* Properties.                                                             *)

\* A lookup asks no peer twice, and sends no more requests than it began with
\* peers and found new ones, which are at most MaxNew and those of one answer:
\* it is bounded, however many peers the others name, and however often.
LookupIsBounded ==
  \A f \in Refreshes :
    /\ refreshes[f].requests = Cardinality(refreshes[f].sent)
    /\ refreshes[f].requests <= Alpha + Len(refreshes[f].new)
    /\ Len(refreshes[f].new) <= MaxNew + Limit

\* Every refresh that has begun ends.
RefreshEnds == \A f \in Refreshes : refreshes[f].pc = "next" ~> refreshes[f].pc = "done"
=============================================================================
