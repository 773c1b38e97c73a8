---------------------------- MODULE HistoryStore ----------------------------
(***************************************************************************)
(* The history protocol of one node: what content it accepts, what it puts *)
(* into its database and in which order, what it gossips, and what is left *)
(* after a crash.                                                          *)
(*                                                                         *)
(* Content of one kind and key is one value here: a header matches its     *)
(* hash or is refused, and a body is stored only if a block can be         *)
(* assembled from it.  Nobody waits for db.put: a put is in `pending'      *)
(* until it is durable, and a crash loses it.  Contents are added by       *)
(* streams and answers to FINDCONTENT, many in one go; a handler that      *)
(* awaits is split where it does.                                          *)
(***************************************************************************)
EXTENDS HeaderAccumulator, Lists, FiniteSets

CONSTANTS
  Sent,         \* headers a peer may send
  Snapshots,    \* accumulators a peer may send; they are trusted
  Unverified,   \* receipts and epochs a peer may send, <<type, key>>
  Bodies,       \* headers whose block bodies a peer may send
  Connected,    \* are there peers in the routing table to gossip to?
  GossipLimit,  \* how long the gossip queue gets, 26
  Window,       \* of how many oldest puts the database may finish any
  MaxPending,   \* bound on puts the database is busy with
  MaxQueue,     \* bound on the gossip queue
  MaxCalls,     \* bound on calls that wait to empty it
  MaxCrashes    \* bound on crashes

ASSUME StoreAssumption ==
  /\ \A s \in Snapshots : IsChain(s)
  /\ Sent \subseteq Headers /\ Bodies \subseteq Headers
  /\ Unverified \subseteq ({"receipt"} \X Headers) \cup ({"epoch"} \X Seq(Record))
  /\ Connected \in BOOLEAN
  /\ {GossipLimit, Window, MaxPending} \subseteq Nat \ {0}
  /\ {MaxQueue, MaxCalls, MaxCrashes} \subseteq Nat

VARIABLES
  acc,        \* this.accumulator
  reading,    \* while init waits for the stored accumulator: what it will get
  stored,     \* the database without the accumulator, a set of <<type, key>>
  accStored,  \* the accumulator in the database, <<>> or <<accumulator>>
  pending,    \* puts of <<type, key>> and <<"acc", accumulator>>, oldest first
  executing,  \* bodies stored, their receipts not there yet or just added
  gossip,     \* the gossip queue and the calls that are going to empty it
  adopted,    \* headers in snapshots ever adopted
  crashes     \* how many crashes there were

vars == <<acc, reading, stored, accStored, pending, executing, gossip, adopted, crashes>>

\* `queue' is gossipQueue.  A call that finds it full offers all of it to
\* peers, awaits, empties the queue and goes on; `resets' are these calls after
\* the await: which body, if any, they announce next, and whether they are the
\* first to empty the queue they offered.  `offered' is what has been offered
\* since the queue was emptied.
NoGossip == [queue |-> <<>>, resets |-> <<>>, offered |-> {}]

\* What a node that starts will read: stored, or made from the genesis.
StoredOrGenesis == IF accStored = <<>> THEN GenesisAccumulator ELSE accStored[1]

Init ==
  /\ acc = Empty /\ reading = <<GenesisAccumulator>>
  /\ stored = {} /\ accStored = <<>> /\ pending = <<>>
  /\ executing = {} /\ gossip = NoGossip
  /\ adopted = {} /\ crashes = 0

\* init, after the await.
Load ==
  /\ reading # <<>>
  /\ acc' = reading[1] /\ reading' = <<>>
  /\ UNCHANGED <<stored, accStored, pending, executing, gossip, adopted, crashes>>

----------------------------------------------------------------------------
(* The end of addContentToHistory, and the database.                       *)

\* A slip of Announce: the queue is offered only when it gets to the limit.
AnnounceOnce(g, content, body) ==
  LET q == Append(g.queue, content)
      call == [body |-> body, first |-> TRUE] IN
  IF ~ Connected THEN g
  ELSE IF Len(q) = GossipLimit
  THEN [queue |-> q, resets |-> Append(g.resets, call), offered |-> Range(q)]
  ELSE [g EXCEPT !.queue = q]

\* Content is queued; when the queue is full, all of it is offered.  `body' is
\* the body the call goes on to announce, <<>> if none.
Announce(g, content, body) ==
  LET q == Append(g.queue, content)
      call == [body |-> body, first |-> TRUE] IN
  IF ~ Connected THEN g
  ELSE IF Len(q) >= GossipLimit
  THEN [queue |-> q, resets |-> Append(g.resets, call), offered |-> Range(q)]
  ELSE [g EXCEPT !.queue = q]

\* Is that the call that awaits, so that what follows it is left to Reset?
Awaits(g) == Connected /\ Len(g.queue) + 1 >= GossipLimit

\* What is put next.  Bounded in number, and to one put of a key and value at
\* a time: the second would change nothing.
Put(puts) ==
  /\ Len(pending) + Len(puts) <= MaxPending
  /\ Range(puts) \cap Range(pending) = {}
  /\ pending' = pending \o puts

Room == Len(gossip.queue) < MaxQueue /\ Len(gossip.resets) < MaxCalls

\* gossipQueue = [] after the await.  Younger calls that wait as well are going
\* to empty a queue they did not offer.
Reset ==
  /\ gossip.resets # <<>>
  /\ LET body == Head(gossip.resets).body
         rest == [i \in 1..Len(gossip.resets) - 1 |->
                    [gossip.resets[i + 1] EXCEPT !.first = FALSE]]
     IN /\ gossip' = [queue |-> <<>>, resets |-> rest, offered |-> {}]
        /\ executing' = executing \cup {[body |-> h, added |-> TRUE] : h \in Range(body)}
  /\ UNCHANGED <<acc, reading, stored, accStored, pending, adopted, crashes>>

\* One of the oldest puts becomes durable.
Land(i) ==
  /\ i <= Len(pending)
  /\ pending' = Without(pending, i)
  /\ IF pending[i][1] = "acc"
     THEN accStored' = <<pending[i][2]>> /\ UNCHANGED stored
     ELSE stored' = stored \cup {pending[i]} /\ UNCHANGED accStored
  /\ UNCHANGED <<acc, reading, executing, gossip, adopted, crashes>>

----------------------------------------------------------------------------
(* addContentToHistory, one action per type of content.                    *)

\* The header after the newest one of the accumulator.
IsNext(h) ==
  /\ Number[h] = Height(acc) + 1
  /\ Parent[h] = Last(acc).hash

Seals(h) == IsNext(h) /\ IsFull(acc)

SealedEpoch == <<"epoch", acc.current>>

\* A slip of HeaderPuts: the accumulator is put before the epoch it names.
PutsAccumulatorFirst(h) ==
  (IF IsNext(h) THEN << <<"acc", Update(acc, h)>> >> ELSE <<>>)
  \o (IF Seals(h) THEN <<SealedEpoch>> ELSE <<>>)
  \o << <<"header", h>> >>

\* A slip of HeaderPuts: a header the accumulator takes is not put itself.
PutsInsteadOf(h) ==
  (IF Seals(h) THEN <<SealedEpoch>> ELSE <<>>)
  \o (IF IsNext(h) THEN << <<"acc", Update(acc, h)>> >> ELSE << <<"header", h>> >>)

HeaderPuts(h) ==
  (IF Seals(h) THEN <<SealedEpoch>> ELSE <<>>)
  \o (IF IsNext(h) THEN << <<"acc", Update(acc, h)>> >> ELSE <<>>)
  \o << <<"header", h>> >>

\* A header h under the key k.  With an accumulator that is still empty the
\* last record of which is asked for, header number 0 ends in an exception.
AddHeader(k, h) ==
  /\ k = h
  /\ ~ (acc.current = <<>> /\ Number[h] = 0)
  /\ Put(HeaderPuts(h)) /\ Room
  /\ acc' = IF IsNext(h) THEN Update(acc, h) ELSE acc
  /\ gossip' = Announce(IF Seals(h) THEN Announce(gossip, SealedEpoch, <<>>) ELSE gossip,
                        <<"header", h>>, <<>>)
  /\ UNCHANGED <<reading, stored, accStored, executing, adopted, crashes>>

\* A slip of HasHeader: the accumulator is trusted to name stored headers.
HasHeaderInAccumulator(h) == \E i \in 1..Len(acc.current) : acc.current[i].hash = h

\* db.get of the header: it finds what is durable.
HasHeader(h) == <<"header", h>> \in stored

\* The body of h, which goes with the header; once at a time, as a bound.  A
\* body that does not, or that comes before its header, is refused: whatever the
\* lookup of the header gives, getBlockByHash(hashKey, false) decodes an RLP
\* list as SSZ, throws and returns no block.
AddBody(h) ==
  /\ HasHeader(h)
  /\ \A t \in executing : t.body # h
  /\ Put(<< <<"body", h>> >>)
  /\ executing' = executing \cup {[body |-> h, added |-> FALSE]}
  /\ UNCHANGED <<acc, reading, stored, accStored, gossip, adopted, crashes>>

\* saveReceipts has run the transactions, and adds the receipts.
SaveReceipts(t) ==
  /\ ~ t.added
  /\ Put(<< <<"receipt", t.body>> >>) /\ Room
  /\ gossip' = Announce(gossip, <<"receipt", t.body>>, <<t.body>>)
  /\ executing' = (executing \ {t}) \cup
       IF Awaits(gossip) THEN {} ELSE {[t EXCEPT !.added = TRUE]}
  /\ UNCHANGED <<acc, reading, stored, accStored, adopted, crashes>>

\* A transaction cannot be run: saveReceipts rejects, the body stays.
ReceiptsFail(t) ==
  /\ ~ t.added
  /\ executing' = executing \ {t}
  /\ UNCHANGED <<acc, reading, stored, accStored, pending, gossip, adopted, crashes>>

\* The body is announced after its receipts.
AnnounceBody(t) ==
  /\ t.added /\ Room
  /\ gossip' = Announce(gossip, <<"body", t.body>>, <<>>)
  /\ executing' = executing \ {t}
  /\ UNCHANGED <<acc, reading, stored, accStored, pending, adopted, crashes>>

\* Receipts and epochs are stored as they come.
AddUnverified(content) ==
  /\ Put(<<content>>) /\ Room
  /\ gossip' = Announce(gossip, content, <<>>)
  /\ UNCHANGED <<acc, reading, stored, accStored, executing, adopted, crashes>>

\* A slip of AddSnapshot: it is adopted whatever its height.
AdoptSnapshot(s) ==
  /\ Put(<< <<"acc", s>> >>)
  /\ acc' = s /\ adopted' = adopted \cup HashesOf(s)
  /\ UNCHANGED <<reading, stored, accStored, executing, gossip, crashes>>

\* receiveSnapshot; the accumulator is not gossiped.
AddSnapshot(s) ==
  /\ Height(acc) < Height(s)
  /\ Put(<< <<"acc", s>> >>)
  /\ acc' = s /\ adopted' = adopted \cup HashesOf(s)
  /\ UNCHANGED <<reading, stored, accStored, executing, gossip, crashes>>

\* The process ends and starts again.  init asks for the stored accumulator
\* before any content comes, and handles content while it waits.
Crash ==
  /\ crashes < MaxCrashes
  /\ crashes' = crashes + 1
  /\ acc' = Empty /\ reading' = <<StoredOrGenesis>>
  /\ pending' = <<>> /\ executing' = {} /\ gossip' = NoGossip
  /\ UNCHANGED <<stored, accStored, adopted>>

Next ==
  \/ Load \/ Reset \/ Crash
  \/ \E i \in 1..Window : Land(i)
  \/ \E k, h \in Sent : AddHeader(k, h)
  \/ \E h \in Bodies : AddBody(h)
  \/ \E t \in executing : SaveReceipts(t) \/ ReceiptsFail(t) \/ AnnounceBody(t)
  \/ \E content \in Unverified : AddUnverified(content)
  \/ \E s \in Snapshots : AddSnapshot(s)

Spec == Init /\ [][Next]_vars

----------------------------------------------------------------------------
(* Properties.                                                             *)

Loaded == reading = <<>>

PendingAccumulators == {pending[i][2] : i \in {j \in 1..Len(pending) : pending[j][1] = "acc"}}

Content == ({"header", "body", "receipt"} \X Headers) \cup ({"epoch"} \X Seq(Record))

PutType == Content \cup ({"acc"} \X Accumulator)

Call == [body : Seq(Bodies), first : BOOLEAN]

Gossip == [queue : Seq(Content), resets : Seq(Call), offered : SUBSET Content]

TypeOK ==
  /\ acc = Empty \/ WellFormed(acc)
  /\ reading \in Seq(Accumulator) /\ Len(reading) <= 1
  /\ accStored \in Seq(Accumulator) /\ Len(accStored) <= 1
  /\ stored \subseteq Content
  /\ pending \in Seq(PutType)
  /\ executing \subseteq [body : Bodies, added : BOOLEAN]
  /\ gossip \in Gossip
  /\ adopted \subseteq Headers /\ crashes \in 0..MaxCrashes

\* Whatever headers arrive in whatever order, forks and headers that lie about
\* their number among them, the accumulator in memory, the one in the database
\* and those on their way to it are each one chain from the genesis, with the
\* right total difficulty at every record, across every sealed epoch.
AccumulatorIsChain ==
  /\ Loaded \/ acc # Empty => IsChain(acc)
  /\ \A a \in Range(accStored) \cup PendingAccumulators \cup Range(reading) : IsChain(a)

\* Once loaded, the accumulator's height never falls, until the node restarts.
HeightNeverFalls == [][Loaded /\ Loaded' => Height(acc') >= Height(acc)]_vars

\* An epoch the stored accumulator names by its hash only is itself stored, if
\* the node did not get it with a snapshot: no crash separates the two.  (When
\* the database finishes puts in their order.)
EpochsAreStored ==
  \A a \in Range(accStored) : \A i \in 1..Len(a.epochs) :
    Hashes(a.epochs[i]) \subseteq adopted \/ <<"epoch", a.epochs[i]>> \in stored

\* The headers the node put into the stored accumulator itself and has not got.
Missing ==
  {h \in (UNION {HashesOf(a) : a \in Range(accStored)}) \ (adopted \cup {Genesis}) :
     <<"header", h>> \notin stored}

\* At rest, no more headers are missing than there were crashes: the one header
\* whose put was behind the accumulator's.  (As above.)
HeadersMissingByCrash == pending = <<>> => Cardinality(Missing) <= crashes

\* A stored body always has its stored header, whatever crashes and whatever
\* order the database finishes puts in.
BodiesHaveHeaders ==
  \A h \in Bodies : <<"body", h>> \in stored => <<"header", h>> \in stored

\* Every number up to the height leads to the header of that number on the
\* accumulator's chain, but for the first one after the sealed epochs.
NumbersResolve ==
  Loaded => \A n \in 0..Height(acc) : n # EpochSize * Len(acc.epochs) =>
    \E h \in HashesOf(acc) : Number[h] = n /\ HashOfNumber(acc, n) = <<h>>

\* A call that empties the queue it offered drops nothing others have queued
\* since: they have offered it.  (A younger call that empties it again may.)
OwnResetLosesNothing ==
  gossip.resets # <<>> /\ Head(gossip.resets).first =>
    Range(gossip.queue) \subseteq gossip.offered

----------------------------------------------------------------------------
(* Why the last two hold: what every step preserves.                       *)

BodiesInv ==
  \A h \in Bodies :
    <<"body", h>> \in stored \cup Range(pending) => <<"header", h>> \in stored

\* While the first call waits the queue stays full, so that whoever queues
\* offers all of it.
GossipInv ==
  gossip.resets # <<>> /\ Head(gossip.resets).first =>
    /\ Range(gossip.queue) \subseteq gossip.offered
    /\ Len(gossip.queue) >= GossipLimit

----------------------------------------------------------------------------
(* What the documents of the repository say, and the code does not do.     *)

\* cli/src/modules/eth.ts on getBlockByNumber: "Returns information about a
\* block by block number."
EveryNumberResolves ==
  Loaded => \A n \in 0..Height(acc) : HashOfNumber(acc, n) # <<>>
=============================================================================
