-------------------------- MODULE ContentRequests --------------------------
(***************************************************************************)
(* The table of open uTP requests at every node, and how a packet finds    *)
(* the request it is for.  The node that answers a FINDCONTENT or accepts  *)
(* an OFFER draws the connection id, opens its request and sends the id in *)
(* the answer; the node that asked opens its own.  Nothing is ever removed *)
(* from a table, and a request is replaced by a later one of the same key. *)
(*                                                                         *)
(* UtpOffer and UtpFind look at one stream in detail.  Here several are    *)
(* open at once, each with one DATA packet, and what matters is whose      *)
(* packets a request is given.  A stream is represented by its position in *)
(* `streams', its two ends by <<stream, side>>.  A packet in flight may be *)
(* received at any time, or never, or again and again if its type is one   *)
(* of Doubled.                                                             *)
(***************************************************************************)
EXTENDS Integers, Sequences

CONSTANTS
  Nodes,
  Prefix,       \* Prefix[n]: the part of a node id that goes into a socket key
  Kinds,        \* what streams are for, a subset of {"find", "offer"}
  Ids,          \* what randUint16 may return
  MaxStreams,   \* how many streams are opened
  Doubled,      \* types of packets that may arrive more than once
  Resetters     \* ends that may forget their stream and send a RESET

ASSUME RequestsAssumption ==
  /\ Kinds \subseteq {"find", "offer"}
  /\ Ids \subseteq Nat
  /\ MaxStreams \in Nat

VARIABLES
  streams,   \* who opened what with which connection id, oldest first
  answers,   \* streams whose connection id is on its way to the asking node
  open,      \* open[n]: openContentRequest of node n, socket keys to ends
  req,       \* req[e]: the request object at end e, once it is open
  msgs,      \* the uTP packets in flight
  handed     \* 'Stream' events: for whose content keys, with whose chunks

vars == <<streams, answers, open, req, msgs, handed>>

Sides   == {"resp", "init"}
Ends    == (1..MaxStreams) \X Sides
Stream  == [resp : Nodes, init : Nodes, kind : Kinds, id : Ids]
Request == [started : BOOLEAN,               \* OFFER_WRITE: seqNr is not 1
            reading : BOOLEAN,               \* is there a ContentReader?
            held    : SUBSET (1..MaxStreams),    \* whose chunk it holds
            acked   : SUBSET (1..MaxStreams)]    \* whose chunk it saw acked

\* A packet: the end that sends it, its type, for a STATE the type of what it
\* acknowledges, and the stream of which it carries or acknowledges a chunk.
Packet  == [from : Ends, type : {"SYN", "STATE", "DATA", "FIN", "RESET"},
            acks : {"SYN", "STATE", "DATA", "FIN", "none"}, of : 1..MaxStreams]

NewRequest == [started |-> FALSE, reading |-> FALSE, held |-> {}, acked |-> {}]

Other(side) == IF side = "resp" THEN "init" ELSE "resp"
NodeOf(e)   == IF e[2] = "resp" THEN streams[e[1]].resp ELSE streams[e[1]].init
Far(e)      == <<e[1], Other(e[2])>>

\* The connection id in every packet the end sends, the SYN included.
SndId(e) == IF e[2] = "resp" THEN streams[e[1]].id ELSE streams[e[1]].id + 1

Code(e) ==
  CASE streams[e[1]].kind = "find"  /\ e[2] = "resp" -> "FOUNDCONTENT_WRITE"
    [] streams[e[1]].kind = "find"  /\ e[2] = "init" -> "FINDCONTENT_READ"
    [] streams[e[1]].kind = "offer" /\ e[2] = "resp" -> "ACCEPT_READ"
    [] OTHER -> "OFFER_WRITE"

Readers == {"FINDCONTENT_READ", "ACCEPT_READ"}

Init ==
  /\ streams = <<>> /\ answers = {}
  /\ open = [n \in Nodes |-> <<>>]
  /\ req = [e \in Ends |-> NewRequest]
  /\ msgs = {} /\ handed = {}

----------------------------------------------------------------------------
(* Socket keys and the search for a packet's request.                      *)

SocketKey(n, snd, rcv) == <<Prefix[n], snd, rcv>>

KeyOf(e) == SocketKey(NodeOf(Far(e)), SndId(e), SndId(Far(e)))

\* A slip of KeyA: the next connection id is looked for.
KeyANext(n, c) == SocketKey(n, c + 1, c + 2)

\* The three keys a packet with connection id c from node n is tried with.
KeyA(n, c) == SocketKey(n, c, c + 1)
KeyB(n, c) == SocketKey(n, c + 1, c)
KeyC(n, c) == SocketKey(n, c - 1, c)

FindKey(t, n, c) ==
  IF KeyA(n, c) \in DOMAIN t THEN KeyA(n, c)
  ELSE IF KeyB(n, c) \in DOMAIN t THEN KeyB(n, c)
  ELSE KeyC(n, c)

\* Is there a request for p at the node it is sent to, and at which end?
Table(p) == open[NodeOf(Far(p.from))]
Sender(p) == NodeOf(p.from)
HasRequest(p)  == FindKey(Table(p), Sender(p), SndId(p.from)) \in DOMAIN Table(p)
RequestFor(p)  == Table(p)[FindKey(Table(p), Sender(p), SndId(p.from))]

\* The table with an entry added or replaced.
With(t, k, e) == [x \in DOMAIN t \cup {k} |-> IF x = k THEN e ELSE t[x]]

\* openContentRequest.set at node n: whatever was at the key is gone.
SetRequest(n, k, e) == open' = [open EXCEPT ![n] = With(@, k, e)]

----------------------------------------------------------------------------
(* Opening requests.                                                       *)

\* handleFindContent or sendAccept: n answers m with a connection id.
Answer(n, m, kind, id) ==
  LET s == Len(streams) + 1
      k == SocketKey(m, id, id + 1) IN
  /\ s <= MaxStreams
  /\ n # m
  /\ streams' = Append(streams, [resp |-> n, init |-> m, kind |-> kind, id |-> id])
  /\ SetRequest(n, k, <<s, "resp">>)
  /\ answers' = answers \cup {s}
  /\ UNCHANGED <<req, msgs, handed>>

\* The asking node has the connection id: it opens its end and sends the SYN.
Open(s) ==
  LET e == <<s, "init">> IN
  /\ s \in answers
  /\ answers' = answers \ {s}
  /\ SetRequest(NodeOf(e), KeyOf(e), e)
  /\ msgs' = msgs \cup {[from |-> e, type |-> "SYN", acks |-> "none", of |-> s]}
  /\ UNCHANGED <<streams, req, handed>>

----------------------------------------------------------------------------
(* Handling a packet p with the request at end e.                          *)

\* What the end sends: the answers go to the peer of the request, whoever the
\* packet was from, and acknowledge the packet by number.
Ack(e, p) == [from |-> e, type |-> "STATE", acks |-> p.type, of |-> p.of]
Chunk(e) == [from |-> e, type |-> "DATA", acks |-> "none", of |-> e[1]]
Fin(e) == [from |-> e, type |-> "FIN", acks |-> "none", of |-> e[1]]

\* What makes a handler throw before it has sent anything or changed what is
\* modelled of the request: a packet its side of a stream never gets, a STATE
\* that should be a SYN-ACK and is not, a FIN when there is no ContentReader.
Throws(e, p) ==
  \/ p.type = "SYN"   /\ Code(e) \in {"FINDCONTENT_READ", "OFFER_WRITE"}
  \/ p.type = "STATE" /\ Code(e) = "ACCEPT_READ"
  \/ p.type = "STATE" /\ Code(e) = "FINDCONTENT_READ" /\ p.acks # "SYN"
  \/ p.type = "DATA"  /\ Code(e) \notin Readers
  \/ p.type = "FIN"   /\ Code(e) \in Readers /\ ~ req[e].reading

\* The packet p has arrived, and `out' is sent.
Sends(p, keep, out) == msgs' = (IF keep THEN msgs ELSE msgs \ {p}) \cup out

\* A new ContentReader, which holds nothing yet.
NewReader(e) == req' = [req EXCEPT ![e].reading = TRUE, ![e].held = {}]

HandleSyn(e, p, keep) ==
  /\ p.type = "SYN"
  /\ \/ /\ Code(e) = "FOUNDCONTENT_WRITE"
        /\ Sends(p, keep, {Ack(e, p), Chunk(e), Fin(e)})
        /\ UNCHANGED req
     \/ /\ Code(e) = "ACCEPT_READ"
        /\ NewReader(e)
        /\ Sends(p, keep, {Ack(e, p)})
  /\ UNCHANGED <<open, handed>>

\* The first STATE an OFFER_WRITE gets is its SYN-ACK.  A writer that is past
\* its SYN-ACK notes the numbers of the chunks acknowledged.
HandleState(e, p, keep) ==
  /\ p.type = "STATE"
  /\ \/ /\ Code(e) = "FINDCONTENT_READ"
        /\ NewReader(e)
        /\ Sends(p, keep, {Ack(e, p)})
     \/ /\ Code(e) = "OFFER_WRITE" /\ ~ req[e].started
        /\ req' = [req EXCEPT ![e].started = TRUE]
        /\ Sends(p, keep, {Chunk(e), Fin(e)})
     \/ /\ Code(e) = "FOUNDCONTENT_WRITE" \/ req[e].started
        /\ req' = [req EXCEPT ![e].acked =
                     IF p.acks = "DATA" THEN @ \cup {p.of} ELSE @]
        /\ Sends(p, keep, {})
  /\ UNCHANGED <<open, handed>>

HandleData(e, p, keep) ==
  /\ p.type = "DATA"
  /\ req' = [req EXCEPT ![e].reading = TRUE, ![e].held = @ \cup {p.of}]
  /\ Sends(p, keep, {Ack(e, p)})
  /\ UNCHANGED <<open, handed>>

\* The content is handed on under the content keys of the request.  A writer
\* ignores a FIN.
HandleFin(e, p, keep) ==
  /\ p.type = "FIN" /\ Code(e) \in Readers
  /\ handed' = handed \cup {[s |-> e[1], held |-> req[e].held]}
  /\ Sends(p, keep, {Ack(e, p)})
  /\ UNCHANGED <<open, req>>

\* A slip of HandleReset: every request of that code is deleted.
HandleResetOfCode(e, p, keep) ==
  LET t == open[NodeOf(e)]
      K == {k \in DOMAIN t : Code(t[k]) # Code(e)} IN
  /\ p.type = "RESET"
  /\ open' = [open EXCEPT ![NodeOf(e)] = [k \in K |-> t[k]]]
  /\ Sends(p, keep, {})
  /\ UNCHANGED <<req, handed>>

\* What is deleted from the table is the entry of the request code, a number
\* that is no socket key: the table stays as it is.
HandleReset(e, p, keep) ==
  /\ p.type = "RESET"
  /\ Sends(p, keep, {})
  /\ UNCHANGED <<open, req, handed>>

\* A packet no request is found for throws as well, and changes nothing: it
\* may just as well never arrive.
Receive(p, keep) ==
  /\ HasRequest(p) /\ ~ Throws(RequestFor(p), p)
  /\ keep => p.type \in Doubled
  /\ LET e == RequestFor(p) IN
     \/ HandleSyn(e, p, keep) \/ HandleState(e, p, keep)
     \/ HandleData(e, p, keep) \/ HandleFin(e, p, keep) \/ HandleReset(e, p, keep)
  /\ UNCHANGED <<streams, answers>>

\* This code never sends a RESET; another implementation that has forgotten
\* the stream answers a packet of it with one.
PeerResets(e) ==
  /\ \E p \in msgs : p.from = Far(e) /\ p.type # "RESET"
  /\ msgs' = msgs \cup {[from |-> e, type |-> "RESET", acks |-> "none", of |-> e[1]]}
  /\ UNCHANGED <<streams, answers, open, req, handed>>

Next ==
  \/ \E n, m \in Nodes, kind \in Kinds, id \in Ids : Answer(n, m, kind, id)
  \/ \E s \in 1..MaxStreams : Open(s)
  \/ \E p \in msgs, keep \in BOOLEAN : Receive(p, keep)
  \/ \E e \in Ends \cap Resetters : PeerResets(e)

Spec == Init /\ [][Next]_vars

----------------------------------------------------------------------------
(* Properties.                                                             *)

TypeOK ==
  /\ streams \in Seq(Stream) /\ Len(streams) <= MaxStreams
  /\ answers \subseteq DOMAIN streams
  /\ open = [n \in Nodes |-> open[n]]
  /\ \A n \in Nodes : \A k \in DOMAIN open[n] :
       open[n][k] \in Ends /\ open[n][k][1] \in DOMAIN streams
  /\ req \in [Ends -> Request]
  /\ \A p \in msgs : p \in Packet /\ p.from[1] \in DOMAIN streams
  /\ \A h \in handed : h.s \in DOMAIN streams /\ h.held \subseteq 1..MaxStreams

\* At some node both streams are with peers of the same prefix, and their
\* connection ids are equal or next to each other.
Near(s, t) ==
  /\ streams[s].id - streams[t].id \in -1 .. 1
  /\ \E x, y \in Sides :
       /\ NodeOf(<<s, x>>) = NodeOf(<<t, y>>)
       /\ Prefix[NodeOf(Far(<<s, x>>))] = Prefix[NodeOf(Far(<<t, y>>))]

Apart(s) == \A t \in DOMAIN streams \ {s} : ~ Near(s, t)

\* Whatever is open besides, a packet of a stream that is apart from the others
\* finds the request at the other end of its own stream: of the three keys it
\* is tried with, an earlier one never belongs to another stream.
ReachesOwnRequest ==
  \A p \in msgs :
    Apart(p.from[1]) => HasRequest(p) /\ RequestFor(p) = Far(p.from)

\* What a request hands on under its content keys came in its own stream,
\* also when other streams mix up theirs.
HandedUnderOwnKeys == \A h \in handed : Apart(h.s) => h.held \subseteq {h.s}

\* A writer counts no chunk as acknowledged that another stream carried.
AcksAreOwn ==
  \A e \in Ends :
    e[1] \in DOMAIN streams /\ Apart(e[1]) => req[e].acked \subseteq {e[1]}

----------------------------------------------------------------------------
(* Why these hold: an invariant that every step preserves.                 *)

\* An entry of a table is at its own key at its own node.
EntriesAtTheirKeys ==
  \A n \in Nodes : \A k \in DOMAIN open[n] :
    NodeOf(open[n][k]) = n /\ k = KeyOf(open[n][k])

\* Both ends of a stream apart from the others are in their tables, from the
\* time they were opened.
IsOpen(e) == e[1] \in DOMAIN streams /\ (e[2] = "init" => e[1] \notin answers)

ApartStaysOpen ==
  \A e \in Ends : IsOpen(e) /\ Apart(e[1]) =>
    KeyOf(e) \in DOMAIN open[NodeOf(e)] /\ open[NodeOf(e)][KeyOf(e)] = e

\* Its packets are in flight only once both ends are open, and carry and
\* acknowledge nothing but its own chunk.
ApartPackets ==
  \A p \in msgs : Apart(p.from[1]) =>
    p.from[1] \notin answers /\ p.of = p.from[1]

\* Its requests have seen nothing but its own chunk.
ApartRequests ==
  \A e \in Ends :
    /\ e[1] \notin DOMAIN streams => req[e] = NewRequest
    /\ e[1] \in DOMAIN streams /\ Apart(e[1]) =>
         req[e].held \subseteq {e[1]} /\ req[e].acked \subseteq {e[1]}

\* No node asks itself.
TwoNodes == \A s \in DOMAIN streams : streams[s].resp # streams[s].init

RoutingInv ==
  /\ TwoNodes /\ EntriesAtTheirKeys /\ ApartStaysOpen
  /\ ApartPackets /\ ApartRequests /\ HandedUnderOwnKeys
=============================================================================
