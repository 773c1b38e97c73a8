--------------------------- MODULE ContentExchange ---------------------------
(***************************************************************************)
(* How content gets from one node to another: OFFER, ACCEPT and a stream   *)
(* of the contents accepted, or FINDCONTENT with the content in the answer *)
(* or in a stream.  Many of these transfers go on at once, between nodes   *)
(* that get content from elsewhere too.                                    *)
(*                                                                         *)
(* A stream (UtpOffer, UtpFind) is one step here: it is whole, lacks       *)
(* chunks, so that the contents from some one on are not what was sent, or *)
(* breaks off.  What a database has, and its waiting puts, are one set     *)
(* (HistoryStore tells them apart).                                        *)
(***************************************************************************)
EXTENDS VariantPrefix

CONSTANTS
  Clients,    \* nodes that run this program
  Keys,       \* content keys
  Kind,       \* of each key: "header", "body", "receipt" or "epoch"
  HeaderOf,   \* of each key of a body: the key of its header
  Bytes,      \* of each key: the content that is its own
  Garbage,    \* what becomes of a content that lost chunks
  PacketSize, \* contents of this length or longer go through a stream
  Transfers   \* the transfers there are

ASSUME ExchangeAssumption ==
  /\ Kind \in [Keys -> {"header", "body", "receipt", "epoch"}]
  /\ \A k \in Keys : Kind[k] = "body" => HeaderOf[k] \in Keys
  /\ \A k, l \in Keys : Bytes[k] = Bytes[l] => k = l
  /\ \A k \in Keys : Bytes[k] \in Seq(0 .. 2 * Base - 1) \ {<<>>, Garbage}
  /\ Garbage \in Seq(0 .. 2 * Base - 1)

VARIABLES
  store,      \* what each node has under which keys
  transfers,  \* the offers and requests under way
  disturbed   \* has a transfer not sent, or not got, the contents of its keys?

exchangeVars == <<store, transfers, disturbed>>

\* `keys' are offered or asked for; `wanted' of them the receiver's answer so
\* far; `reads' are those the sender still reads, `contents' what it has read.
NoTransfer == [pc |-> "idle", from |-> {}, to |-> {}, keys |-> <<>>,
               wanted |-> <<>>, reads |-> {}, contents |-> <<>>]

ExchangeInit ==
  /\ store = [n \in Clients |-> <<>>]
  /\ transfers = [t \in Transfers |-> NoTransfer]
  /\ disturbed = FALSE

From(t) == CHOOSE n \in Clients : n \in transfers[t].from
To(t)   == CHOOSE n \in Clients : n \in transfers[t].to
At(t, pc) == transfers[t].pc = pc
Idle(t) == transfers[t].pc \in {"idle", "declined", "failed", "done"}
Become(t, tr) == transfers' = [transfers EXCEPT ![t] = tr]
Over(pc) == [NoTransfer EXCEPT !.pc = pc]
Done(tr) == [tr EXCEPT !.pc = "done", !.from = {}, !.contents = <<>>]

----------------------------------------------------------------------------
(* addContentToHistory, as far as this module tells contents apart.        *)

\* A slip of Verified: any header is taken.
VerifiedNot(s, k, c) == Kind[k] # "body" \/ HeaderOf[k] \in DOMAIN s

\* A header must have the hash of its key.  A body is one that makes a block
\* with the stored header, which any other body may as well.
Verified(s, k, c) ==
  CASE Kind[k] = "header" -> c = Bytes[k]
    [] Kind[k] = "body"   -> HeaderOf[k] \in DOMAIN s /\ \E l \in Keys : Kind[l] = "body" /\ c = Bytes[l]
    [] OTHER              -> TRUE

\* db.put of c under all keys of ks.
Put(s, ks, c) == [k \in DOMAIN s \cup ks |-> IF k \in ks THEN c ELSE s[k]]

Add(s, k, c) == IF Verified(s, k, c) THEN Put(s, {k}, c) ELSE s

\* The 'Stream' listener: an epoch goes under the key of its own hash.
AddStreamed(s, k, c) ==
  IF Kind[k] # "epoch" THEN Add(s, k, c)
  ELSE Put(s, {e \in Keys : Kind[e] = "epoch" /\ Bytes[e] = c}, c)

\* Content comes from elsewhere.
Obtain(n, k) ==
  /\ k \notin DOMAIN store[n]
  /\ store' = [store EXCEPT ![n] = Add(@, k, Bytes[k])]
  /\ UNCHANGED <<transfers, disturbed>>

----------------------------------------------------------------------------
(* OFFER.                                                                  *)

\* sendOffer: by gossip, by a lookup, or by the user, who may offer what the
\* node has not got.
Offer(t, from, to, keys) ==
  /\ Idle(t) /\ from # to
  /\ Become(t, [NoTransfer EXCEPT !.pc = "offered", !.from = {from}, !.to = {to}, !.keys = keys])
  /\ UNCHANGED <<store, disturbed>>

\* A slip of CheckKey: whatever is offered is accepted.
CheckKeyAcceptsAll(t) ==
  LET tr == transfers[t] IN
  /\ At(t, "offered")
  /\ Become(t, [tr EXCEPT !.pc = "accepted"])
  /\ UNCHANGED <<store, disturbed>>

\* handleOffer: one key after the other is looked for, awaiting each.  When
\* none is wanted the offer is declined (with two empty answers).
CheckKey(t) ==
  LET tr     == transfers[t]
      wanted == Append(tr.wanted, tr.keys[Len(tr.wanted) + 1] \notin DOMAIN store[To(t)]) IN
  /\ At(t, "offered")
  /\ Become(t, IF Len(wanted) < Len(tr.keys) THEN [tr EXCEPT !.wanted = wanted]
               ELSE IF TRUE \in ToSet(wanted) THEN [tr EXCEPT !.wanted = wanted, !.pc = "accepted"]
               ELSE Over("declined"))
  /\ UNCHANGED <<store, disturbed>>

\* The keys that are wanted: the receiver opens its request with them, and the
\* sender finds the same by the bits of the ACCEPT.
Wanted(tr) ==
  LET wanted[i \in 0 .. Len(tr.wanted)] ==
        IF i = 0 THEN <<>>
        ELSE IF tr.wanted[i] THEN Append(wanted[i - 1], tr.keys[i]) ELSE wanted[i - 1]
  IN wanted[Len(tr.wanted)]

\* sendOffer with the ACCEPT: all keys wanted are read from the database at once.
\* (An ACCEPT of nothing comes from no node of this program.)
ReceiveAccept(t) ==
  /\ At(t, "accepted")
  /\ Become(t, [transfers[t] EXCEPT !.pc = "reading", !.reads = DOMAIN Wanted(transfers[t])])
  /\ UNCHANGED <<store, disturbed>>

\* A read finishes, in whatever order, and its content is pushed; an empty one
\* for what the node has not got.  After the last the stream begins.  A writer
\* with an empty content alone sends for ever.
ReadDone(t, i) ==
  LET tr   == transfers[t]
      s    == store[From(t)]
      k    == Wanted(tr)[i]
      c    == IF k \in DOMAIN s THEN s[k] ELSE <<>>
      left == tr.reads \ {i}
      read == Append(tr.contents, c) IN
  /\ At(t, "reading") /\ i \in tr.reads
  /\ Become(t, [tr EXCEPT !.reads = left, !.contents = read,
                          !.pc = IF left # {} THEN "reading"
                                 ELSE IF read = << <<>> >> THEN "hung" ELSE "streaming"])
  /\ disturbed' = (disturbed \/ k \notin DOMAIN s \/ i # Min(tr.reads))
  /\ UNCHANGED store

----------------------------------------------------------------------------
(* FINDCONTENT.                                                            *)

Find(t, from, to, k) ==
  /\ Idle(t) /\ from # to
  /\ Become(t, [NoTransfer EXCEPT !.pc = "asked", !.from = {from}, !.to = {to},
                                  !.keys = <<k>>, !.wanted = <<TRUE>>])
  /\ UNCHANGED <<store, disturbed>>

\* handleFindContent: what is empty is answered as what is not there.
AnswerFind(t) ==
  LET tr == transfers[t]
      s  == store[From(t)]
      k  == tr.keys[1] IN
  /\ At(t, "asked")
  /\ Become(t, IF k \notin DOMAIN s \/ (k \in DOMAIN s /\ s[k] = <<>>)
               THEN Over("failed")
               ELSE [tr EXCEPT !.pc = IF Len(s[k]) < PacketSize THEN "answered" ELSE "streaming",
                               !.contents = <<s[k]>>])
  /\ UNCHANGED <<store, disturbed>>

\* The answer with the content: it is added under the key asked for.
ReceiveContent(t) ==
  LET tr == transfers[t] IN
  /\ At(t, "answered")
  /\ store' = [store EXCEPT ![To(t)] = Add(@, tr.keys[1], tr.contents[1])]
  /\ Become(t, Done(tr))
  /\ UNCHANGED disturbed

----------------------------------------------------------------------------
(* The stream of either.                                                   *)

\* The contents a stream carries, one byte string if there are several, taken
\* apart by the receiver's number of keys.
Carried(tr) ==
  IF Len(tr.contents) > 1
  THEN LET bytes == EncodeWithVariantPrefix(tr.contents)
       IN IF Len(Wanted(tr)) > 1 THEN DropPrefixes[bytes] ELSE <<bytes>>
  ELSE tr.contents

\* A slip of AddAll: a content that is refused ends it.
AddAllUntilRefused(s, keys, contents) ==
  LET added[i \in 0 .. Len(keys)] ==
        IF i = 0 THEN [ok |-> TRUE, s |-> s]
        ELSE LET a == added[i - 1] IN
             IF a.ok /\ Verified(a.s, keys[i], contents[i])
             THEN [a EXCEPT !.s = AddStreamed(@, keys[i], contents[i])]
             ELSE [a EXCEPT !.ok = FALSE]
  IN added[Len(keys)].s

\* _handleFinPacket: contents are paired with the keys of the request by their
\* positions.
AddAll(s, keys, contents) ==
  LET added[i \in 0 .. Len(keys)] ==
        IF i = 0 THEN s ELSE AddStreamed(added[i - 1], keys[i], contents[i])
  IN added[Len(keys)]

StreamArrives(t) ==
  LET tr == transfers[t] IN
  /\ At(t, "streaming")
  /\ store' = [store EXCEPT ![To(t)] = AddAll(@, Wanted(tr), Carried(tr))]
  /\ Become(t, Done(tr))
  /\ UNCHANGED disturbed

\* Chunks were lost, or overtaken by the FIN.
StreamArrivesShort(t, intact) ==
  LET tr == transfers[t] IN
  /\ At(t, "streaming") /\ intact < Len(Wanted(tr))
  /\ store' = [store EXCEPT ![To(t)] =
       AddAll(@, Wanted(tr),
              [i \in DOMAIN Wanted(tr) |-> IF i <= intact THEN Carried(tr)[i] ELSE Garbage])]
  /\ Become(t, Done(tr))
  /\ disturbed' = TRUE

\* A request is not answered, an answer gets lost, a stream breaks off.
Fail(t) ==
  /\ transfers[t].pc \in {"offered", "accepted", "asked", "answered", "streaming"}
  /\ Become(t, Over("failed"))
  /\ UNCHANGED <<store, disturbed>>

\* What goes on by itself.
Step(t) ==
  \/ CheckKey(t) \/ ReceiveAccept(t) \/ AnswerFind(t) \/ ReceiveContent(t)
  \/ \E i \in transfers[t].reads : ReadDone(t, i)
  \/ StreamArrives(t) \/ \E intact \in 0 .. Len(transfers[t].keys) : StreamArrivesShort(t, intact)
  \/ Fail(t)

\* What is offered together: bounded by two.
KeySequences == {<<k>> : k \in Keys} \cup {s \in Keys \X Keys : s[1] # s[2]}

ExchangeNext ==
  \/ \E n \in Clients, k \in Keys : Obtain(n, k)
  \/ \E t \in Transfers, from, to \in Clients :
       \/ \E ks \in KeySequences : Offer(t, from, to, ks)
       \/ \E k \in Keys : Find(t, from, to, k)
  \/ \E t \in Transfers : Step(t)

ExchangeSpec == ExchangeInit /\ [][ExchangeNext]_exchangeVars

\* A request is answered or discv5 fails it; the rest is the program's to do,
\* but for a stream, which nothing makes end.
FairExchangeSpec ==
  ExchangeSpec /\ \A t \in Transfers : WF_exchangeVars(~ At(t, "streaming") /\ Step(t))

----------------------------------------------------------------------------
(* Properties.                                                             *)

\* What a node has under a key is the content of that key, whoever gave it and
\* whoever gave it to them; but for receipts and bodies, which are not verified
\* or not wholly, after somebody's reads had finished in another order than the
\* keys', a content had been missing at its offer, or a stream had lost chunks.
\* A header is always right, and so is an epoch.
WrongOnlyIfDisturbed ==
  \A n \in Clients : \A k \in DOMAIN store[n] :
    store[n][k] # Bytes[k] => disturbed /\ Kind[k] \in {"body", "receipt"}

\* A transfer that is done has given the receiver what it wanted, unless there
\* was such a disturbance, or a body came without its header.
DoneMeansStored ==
  \A t \in Transfers : At(t, "done") /\ ~ disturbed =>
    \A k \in ToSet(Wanted(transfers[t])) : k \in DOMAIN store[To(t)] \/ Kind[k] = "body"

\* Every offer and every request comes to an end or to its stream, but for the
\* offer of one content that was not there, on which the writer hangs.
TransfersEnd ==
  \A t \in Transfers :
    ~ At(t, "idle") ~> transfers[t].pc \in {"streaming", "hung", "declined", "failed", "done"}
=============================================================================
