-------------------------------- MODULE Peers --------------------------------
(***************************************************************************)
(* How peers get into the routing table of a subprotocol and out of it,    *)
(* and what they are offered: PING and PONG in both directions, and gossip.*)
(* A request is answered, or fails, once; meanwhile everything else goes   *)
(* on.  The lookups, which ask peers and insert some, extend this module.  *)
(***************************************************************************)
EXTENDS RoutingTable

CONSTANTS
  Fanout,        \* how many nearest peers are offered or asked, 5
  MaxPings,      \* bound on PINGs on their way
  MaxEvictions   \* bound on evictions

ASSUME PeersAssumption == {Fanout, MaxPings, MaxEvictions} \subseteq Nat

VARIABLES
  table,      \* this.routingTable
  pinging,    \* peers with a PING on its way or unanswered
  offers,     \* offers of a key sent to a peer since it was last evicted
  aborted,    \* <<peer, key>> marked, the offer of which was not sent
  evictions   \* how many evictions there were

peerVars == <<table, pinging, offers, aborted, evictions>>

PeersInit ==
  /\ table = EmptyTable /\ pinging = {} /\ evictions = 0
  /\ offers = [p \in Nodes \X Keys |-> 0] /\ aborted = {}

----------------------------------------------------------------------------
\* sendPing to an ENR somebody gave: a boot node, one of the user's, one of a
\* NODES answer.  (Several PINGs to one peer at a time act like one.)
SendPings(ns) ==
  /\ pinging' = pinging \cup ns
  /\ Cardinality(pinging') <= MaxPings

SendPing(n) ==
  /\ SendPings({n})
  /\ UNCHANGED <<table, offers, aborted, evictions>>

\* The PONG: the peer is inserted, with the ENR the PING was sent to.
Pong(n) ==
  /\ n \in pinging
  /\ pinging' = pinging \ {n}
  /\ table' = [table EXCEPT !.nodes = InsertOrUpdate(@, n)]
  /\ UNCHANGED <<offers, aborted, evictions>>

\* updateRoutingTable(n, false); what follows is a new acquaintance.
Evict(n) ==
  /\ evictions < MaxEvictions
  /\ evictions' = evictions + 1
  /\ table' = EvictNode(table, n)
  /\ offers' = [p \in Nodes \X Keys |-> IF p[1] = n THEN 0 ELSE offers[p]]
  /\ aborted' = {p \in aborted : p[1] # n}

\* No answer, or something else than a PONG.
NoPong(n) ==
  /\ n \in pinging
  /\ pinging' = pinging \ {n}
  /\ Evict(n)

\* A PONG that cannot be decoded evicts the peer if it is there.
BadPong(n) ==
  /\ n \in pinging
  /\ pinging' = pinging \ {n}
  /\ IF n \in table.nodes THEN Evict(n) ELSE UNCHANGED <<table, offers, aborted, evictions>>

\* A PING: an unknown peer is inserted if discv5 knows its ENR.
HandlePing(n) ==
  /\ n \notin table.nodes
  /\ table' = [table EXCEPT !.nodes = InsertOrUpdate(@, n)]
  /\ UNCHANGED <<pinging, offers, aborted, evictions>>

----------------------------------------------------------------------------
(* Offers.  Whoever is about to offer a key marks it as known first; an    *)
(* offer that is sent may fail, which nobody looks at.                     *)

\* A slip of Offer: the offer is made whatever is marked.
OfferAlways(ps) ==
  /\ table' = MarkKnown(table, ps)
  /\ offers' = [p \in Nodes \X Keys |->
                  IF p \in ps /\ p[1] \in table.nodes THEN offers[p] + 1 ELSE offers[p]]
  /\ aborted' = aborted \cup {p \in ps : p[1] \notin table.nodes}

\* A peer not in the table is marked, and sendOffer gives up.
Offer(ps) ==
  LET fresh == {p \in ps : ~ KnownToPeer(table, p[1], p[2])} IN
  /\ table' = MarkKnown(table, fresh)
  /\ offers' = [p \in Nodes \X Keys |->
                  IF p \in fresh /\ p[1] \in table.nodes THEN offers[p] + 1 ELSE offers[p]]
  /\ aborted' = aborted \cup {p \in fresh : p[1] \notin table.nodes}

\* gossipHistoryNetworkContent: the peers nearest to any of the keys are
\* offered all of them, whatever their radius.
Gossip(ks) ==
  LET near == UNION {ToSet(Nearest(table.nodes, k, Fanout)) : k \in ks} IN
  /\ Offer(near \X ks)
  /\ UNCHANGED <<pinging, evictions>>

PeersNext ==
  \/ \E n \in Nodes : SendPing(n) \/ Pong(n) \/ NoPong(n) \/ BadPong(n) \/ HandlePing(n)
  \/ \E ks \in SUBSET Keys \ {{}} : Gossip(ks)

----------------------------------------------------------------------------
(* Properties.                                                             *)

\* A peer is offered a key once at most while it is not evicted, by gossip and
\* by lookups together.
OfferedOnce == \A p \in Nodes \X Keys : offers[p] <= 1

\* What a peer is marked to know it was offered, but for the offers that were
\* given up because the peer had left the table: these alone are never made.
MarksAreOffers ==
  \A n \in Nodes : \A k \in table.gossip[n] : offers[<<n, k>>] = 1 \/ <<n, k>> \in aborted
=============================================================================
