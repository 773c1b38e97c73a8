---------------------------- MODULE ContentLookup ----------------------------
(***************************************************************************)
(* Lookups of content: FINDCONTENT to ever nearer peers, one at a time,    *)
(* until one has the content or nobody is left to ask.  Several lookups    *)
(* run at once, while peers come and go and content is gossiped.           *)
(*                                                                         *)
(* A lookup runs from one await to the next in one step: it takes an       *)
(* answer and at once asks the next peer.  Peers answer as this program    *)
(* does (CloserAnswer), from whatever their routing table is.              *)
(***************************************************************************)
EXTENDS Peers

CONSTANTS
  Lookups,    \* the lookups started
  AnswerFrom  \* nearest nodes a CONTENT answer is chosen from, 16

ASSUME ContentLookupAssumption == AnswerFrom \in Nat

VARIABLE lookups

vars == <<peerVars, lookups>>

\* A lookup is "idle", "asking", "streaming", "found" or "failed"; `at' is the
\* peer asked, `told' the peers the lookup has heard of, `sent' those it has
\* sent a request to and `requests' how many requests that were.
NewLookup(k) ==
  [key |-> k, pc |-> "idle", queue |-> <<>>, asked |-> {}, at |-> Self,
   contacted |-> {}, result |-> {}, told |-> {}, sent |-> {}, requests |-> 0]

Init ==
  /\ PeersInit
  /\ lookups \in [Lookups -> {NewLookup(k) : k \in Keys}]

----------------------------------------------------------------------------
\* A slip of Askable: nobody remembers who was asked.
AskableAgain(ns, lk) == {i \in DOMAIN lk.queue : lk.queue[i] \in ns}

\* Whom the lookup can ask: sendFindContent gives up on a peer that is not in
\* the routing table, and the peer counts as asked.
Askable(ns, lk) ==
  {i \in DOMAIN lk.queue : lk.queue[i] \notin lk.asked /\ lk.queue[i] \in ns}

\* The loop up to its next await: the next peer is asked, or there is none.
AskNext(ns, lk) ==
  LET i == Min(Askable(ns, lk))
      n == lk.queue[i] IN
  IF Askable(ns, lk) = {}
  THEN [lk EXCEPT !.pc = "failed", !.at = Self, !.queue = <<>>,
                  !.asked = @ \cup ToSet(lk.queue)]
  ELSE [lk EXCEPT !.pc = "asking", !.at = n,
                  !.queue = SubSeq(@, i + 1, Len(@)),
                  !.asked = @ \cup ToSet(SubSeq(lk.queue, 1, i)),
                  !.sent = @ \cup {n}, !.requests = @ + 1]

\* startLookup, after the database was asked: the nearest peers are queued.
Start(l) ==
  /\ lookups[l].pc = "idle"
  /\ LET near == Nearest(table.nodes, lookups[l].key, Fanout)
     IN lookups' = [lookups EXCEPT ![l] =
                      AskNext(table.nodes, [@ EXCEPT !.queue = near, !.told = ToSet(near)])]
  /\ UNCHANGED peerVars

\* The content is in the database: nobody is asked.
StartLocal(l) ==
  /\ lookups[l].pc = "idle"
  /\ lookups' = [lookups EXCEPT ![l].pc = "found", ![l].result = {lookups[l].key}]
  /\ UNCHANGED peerVars

\* A slip of NoAnswer: a peer that does not answer is asked again after the next.
NoAnswerAsksAgain(l) ==
  LET lk == lookups[l] IN
  /\ lk.pc = "asking"
  /\ lookups' = [lookups EXCEPT ![l] =
       IF lk.queue = <<>> THEN AskNext(table.nodes, @)
       ELSE [@ EXCEPT !.at = Head(lk.queue), !.queue = Append(Tail(@), lk.at)]]
  /\ UNCHANGED peerVars

\* No answer, an empty one, or one that cannot be decoded.
NoAnswer(l) ==
  /\ lookups[l].pc = "asking"
  /\ lookups' = [lookups EXCEPT ![l] = AskNext(table.nodes, @)]
  /\ UNCHANGED peerVars

\* A slip of Queued: a nearer peer takes the place of the one before it.
QueuedOver(q, n, k) ==
  LET further == {i \in DOMAIN q : Distance(q[i], k) > Distance(n, k)}
      at      == Min(further) IN
  IF further = {} THEN Append(q, n) ELSE [q EXCEPT ![Max({at - 1, 1})] = n]

\* splice(index - 1), where index counts from 0: one place before the first
\* peer that is further off, and before the last one if that is the first.
Queued(q, n, k) ==
  LET further == {i \in DOMAIN q : Distance(q[i], k) > Distance(n, k)}
      at      == Min(further) IN
  IF further = {} THEN Append(q, n)
  ELSE InsertAt(q, IF at = 1 THEN Len(q) ELSE at - 1, n)

\* One ENR of an answer: queued unless asked already, and inserted unverified.
Tell(s, n) ==
  IF n \in s.lk.asked THEN s
  ELSE [nodes |-> InsertOrUpdate(s.nodes, n),
        lk    |-> [s.lk EXCEPT !.queue = Queued(@, n, s.lk.key), !.told = @ \cup {n}]]

\* All of an answer, one ENR after the other.
TellAll(ns, lk, enrs) ==
  LET told[i \in 0 .. Len(enrs)] ==
        IF i = 0 THEN [nodes |-> ns, lk |-> lk] ELSE Tell(told[i - 1], enrs[i])
  IN told[Len(enrs)]

ClosestAnswer(l) ==
  /\ lookups[l].pc = "asking"
  /\ \E known \in SUBSET Nodes :
       LET lk   == lookups[l]
           enrs == CloserAnswer(known, lk.at, Self, lk.key, AnswerFrom)
           s    == TellAll(table.nodes, lk, enrs)
       IN /\ enrs # <<>>
          /\ table' = [table EXCEPT !.nodes = s.nodes]
          /\ lookups' = [lookups EXCEPT ![l] =
               AskNext(s.nodes, [s.lk EXCEPT !.contacted = @ \cup {lk.at}])]
  /\ UNCHANGED <<pinging, offers, aborted, evictions>>

\* The content itself: it is given to whoever looked it up, as it came, and
\* offered to the peers asked before, which should have had it.
ContentAnswer(l) ==
  /\ lookups[l].pc = "asking"
  /\ lookups' = [lookups EXCEPT ![l].pc = "found", ![l].result = {lookups[l].key}]
  /\ Offer(lookups[l].contacted \X {lookups[l].key})
  /\ UNCHANGED <<pinging, evictions>>

\* The id of a uTP stream, which is opened; the lookup listens for content.
StreamAnswer(l) ==
  /\ lookups[l].pc = "asking"
  /\ lookups' = [lookups EXCEPT ![l].pc = "streaming"]
  /\ UNCHANGED peerVars

\* 'ContentAdded', whoever adds content: every listener takes it for its own.
ContentAdded(k) ==
  /\ \E l \in Lookups : lookups[l].pc = "streaming"
  /\ lookups' = [l \in Lookups |->
                   IF lookups[l].pc # "streaming" THEN lookups[l]
                   ELSE [lookups[l] EXCEPT !.pc = "found", !.result = {k}]]
  /\ UNCHANGED peerVars

Answer(l) == NoAnswer(l) \/ ClosestAnswer(l) \/ ContentAnswer(l) \/ StreamAnswer(l)

Next ==
  \/ PeersNext /\ UNCHANGED lookups
  \/ \E l \in Lookups : Start(l) \/ StartLocal(l) \/ Answer(l)
  \/ \E k \in Keys : ContentAdded(k)

Spec == Init /\ [][Next]_vars

\* discv5 fails a request that is not answered, so every request ends.
FairSpec == Spec /\ \A l \in Lookups : WF_vars(Answer(l))

----------------------------------------------------------------------------
(* Properties.                                                             *)

\* No lookup asks a peer twice, whoever names it how often.
AskedOnce == \A l \in Lookups : lookups[l].requests = Cardinality(lookups[l].sent)

\* A lookup gives up only when it has asked every peer it was told of, but for
\* those it could not ask, because a full bucket did not take them or because
\* peers were evicted: the places peers get in the queue lose none of them.
FailsOnlyWhenAllAsked ==
  \A l \in Lookups : lookups[l].pc = "failed" =>
    \A n \in lookups[l].told \ lookups[l].sent :
      evictions > 0 \/ Cardinality(BucketOf(table.nodes, n)) >= BucketSize

\* Every lookup that has begun to ask ends, or is left to wait for its stream.
LookupEnds == \A l \in Lookups : lookups[l].pc = "asking" ~> lookups[l].pc # "asking"

----------------------------------------------------------------------------
(* What the documents of the repository say, and the code does not do.     *)

\* contentLookup.ts:33: peers are asked "until either the content is found or
\* there are no more peers to query".
ReturnsContentSought ==
  \A l \in Lookups : lookups[l].result \subseteq {lookups[l].key}
=============================================================================
