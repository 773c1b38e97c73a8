---------------------------- MODULE ContentProofs ----------------------------
(***************************************************************************)
(* Proofs about content on its way.  First the tables of open requests,    *)
(* for any number of nodes and streams, any connection ids, prefixes,      *)
(* duplicates and forgotten streams; then the prefixes by which contents   *)
(* share a stream, for any contents and any base; last the exchange of     *)
(* contents, for any nodes, keys and contents and any number of transfers. *)
(***************************************************************************)
EXTENDS ContentRequests, ContentExchange, ListLemmas, SequenceTheorems, FiniteSetTheorems

----------------------------------------------------------------------------
(* Ends.                                                                   *)

\* What depends only on which streams are open stays, while none is opened.
LEMMA NothingOpened ==
  ASSUME UNCHANGED <<streams, answers, open>>
  PROVE  /\ \A x : Apart(x)' <=> Apart(x)
         /\ EntriesAtTheirKeys => EntriesAtTheirKeys'
         /\ TwoNodes => TwoNodes'
         /\ ApartStaysOpen => ApartStaysOpen'
  <1>1. \A e : NodeOf(e)' = NodeOf(e) /\ SndId(e)' = SndId(e)
    BY DEF NodeOf, SndId
  <1>2. \A e : KeyOf(e)' = KeyOf(e)
    BY <1>1 DEF KeyOf
  <1>3. \A x, y : Near(x, y)' <=> Near(x, y)
    BY <1>1 DEF Near
  <1>4. \A x : Apart(x)' <=> Apart(x)
    BY <1>3 DEF Apart
  <1>5. EntriesAtTheirKeys => EntriesAtTheirKeys'
    BY <1>1, <1>2 DEF EntriesAtTheirKeys
  <1>6. TwoNodes => TwoNodes'
    BY DEF TwoNodes
  <1>7. \A e : IsOpen(e)' <=> IsOpen(e)
    BY DEF IsOpen
  <1>8. ApartStaysOpen => ApartStaysOpen'
    BY <1>1, <1>2, <1>4, <1>7 DEF ApartStaysOpen
  <1> QED  BY <1>4, <1>5, <1>6, <1>8

LEMMA EndProperties ==
  ASSUME TypeOK, NEW e \in Ends, e[1] \in DOMAIN streams
  PROVE  /\ e[1] \in 1..MaxStreams /\ e[2] \in Sides /\ e = <<e[1], e[2]>>
         /\ Far(e) \in Ends /\ Far(e)[1] = e[1] /\ Far(e)[2] = Other(e[2])
         /\ Far(Far(e)) = e
         /\ NodeOf(e) \in Nodes
         /\ streams[e[1]] \in Stream /\ streams[e[1]].id \in Nat
         /\ SndId(e) \in Nat
  <1>1. e[1] \in 1..MaxStreams /\ e[2] \in Sides /\ e = <<e[1], e[2]>>
    BY DEF Ends
  <1>2. Other(e[2]) \in Sides /\ Other(Other(e[2])) = e[2]
    BY <1>1 DEF Sides, Other
  <1>3. streams[e[1]] \in Stream
    BY DEF TypeOK
  <1>4. streams[e[1]].id \in Nat /\ NodeOf(e) \in Nodes
    BY <1>3, RequestsAssumption DEF Stream, NodeOf
  <1> QED  BY <1>1, <1>2, <1>3, <1>4 DEF Far, Ends, SndId

\* The key of an end has the near and the far connection id, one apart.
LEMMA KeyProperties ==
  ASSUME TypeOK, NEW e \in Ends, e[1] \in DOMAIN streams
  PROVE  LET id == streams[e[1]].id IN
         KeyOf(e) = IF e[2] = "resp" THEN <<Prefix[NodeOf(Far(e))], id, id + 1>>
                                     ELSE <<Prefix[NodeOf(Far(e))], id + 1, id>>
  BY EndProperties DEF KeyOf, SocketKey, SndId, Far, Other, Sides

----------------------------------------------------------------------------
(* The search for the request of a packet.                                 *)

\* A request that is found is one of the packet's stream, or of a stream near
\* to it.
LEMMA FoundIsNear ==
  ASSUME TypeOK, EntriesAtTheirKeys, NEW p \in msgs,
         NEW k \in {KeyA(Sender(p), SndId(p.from)), KeyB(Sender(p), SndId(p.from)),
                    KeyC(Sender(p), SndId(p.from))},
         k \in DOMAIN Table(p)
  PROVE  LET e == Table(p)[k] IN
         /\ e \in Ends /\ e[1] \in DOMAIN streams
         /\ NodeOf(e) = NodeOf(Far(p.from)) /\ k = KeyOf(e)
         /\ e[1] # p.from[1] => Near(e[1], p.from[1])
  <1> DEFINE n == NodeOf(Far(p.from))
             e == Table(p)[k]
             q == p.from
  <1>1. q \in Ends /\ q[1] \in DOMAIN streams
    BY DEF TypeOK, Packet
  <1>2. /\ Far(q) \in Ends /\ Far(q)[1] = q[1] /\ Far(Far(q)) = q
        /\ Far(q) = <<q[1], Far(q)[2]>> /\ Far(q)[2] \in Sides
        /\ n \in Nodes /\ streams[q[1]].id \in Nat
    BY <1>1, EndProperties
  <1>3. e \in Ends /\ e[1] \in DOMAIN streams
    BY <1>2 DEF TypeOK, Table
  <1>4. NodeOf(e) = n /\ k = KeyOf(e)
    BY <1>2 DEF EntriesAtTheirKeys, Table
  <1>5. e = <<e[1], e[2]>> /\ e[2] \in Sides /\ streams[e[1]].id \in Nat
    BY <1>3, EndProperties
  <1>6. SndId(q) \in {streams[q[1]].id, streams[q[1]].id + 1}
    BY DEF SndId
  <1>7. /\ Prefix[NodeOf(Far(e))] = Prefix[NodeOf(q)]
        /\ streams[e[1]].id - streams[q[1]].id \in -1 .. 1
    <2> DEFINE c == SndId(q)
               d == streams[e[1]].id
               f == streams[q[1]].id
    <2>1. \/ k = <<Prefix[NodeOf(q)], c, c + 1>>
          \/ k = <<Prefix[NodeOf(q)], c + 1, c>>
          \/ k = <<Prefix[NodeOf(q)], c - 1, c>>
      BY DEF KeyA, KeyB, KeyC, SocketKey, Sender
    <2>2. \/ k = <<Prefix[NodeOf(Far(e))], d, d + 1>>
          \/ k = <<Prefix[NodeOf(Far(e))], d + 1, d>>
      BY <1>3, <1>4, KeyProperties
    <2>3. c \in {f, f + 1} /\ d \in Nat /\ f \in Nat
      BY <1>2, <1>5, <1>6
    <2> HIDE DEF c, d, f
    <2>4. Prefix[NodeOf(Far(e))] = Prefix[NodeOf(q)]
      BY <2>1, <2>2
    <2>5. d = c \/ d + 1 = c \/ d = c - 1
      BY <2>1, <2>2, <2>3
    <2>6. d - f \in -1 .. 1
      BY <2>3, <2>5
    <2> QED  BY <2>4, <2>6 DEF d, f
  <1> QED  BY <1>2, <1>3, <1>4, <1>5, <1>7 DEF Near

\* A packet of a stream apart from the others finds the far end of its stream.
LEMMA FindsOwn ==
  ASSUME TypeOK, TwoNodes, EntriesAtTheirKeys, ApartStaysOpen, NEW p \in msgs,
         Apart(p.from[1]), p.from[1] \notin answers
  PROVE  HasRequest(p) /\ RequestFor(p) = Far(p.from)
  <1> DEFINE q == p.from
             t == Table(p)
             s == q[1]
             c == SndId(q)
             n == Sender(p)
  <1>1. q \in Ends /\ s \in DOMAIN streams
    BY DEF TypeOK, Packet
  <1>2. /\ Far(q) \in Ends /\ Far(q)[1] = s /\ Far(Far(q)) = q
        /\ Far(q)[2] = Other(q[2]) /\ q[2] \in Sides
        /\ streams[s].id \in Nat
    BY <1>1, EndProperties
  <1>3. KeyOf(Far(q)) \in DOMAIN t /\ t[KeyOf(Far(q))] = Far(q)
    BY <1>1, <1>2 DEF ApartStaysOpen, IsOpen, Table
  <1>4. ASSUME NEW k \in {KeyA(n, c), KeyB(n, c), KeyC(n, c)}, k \in DOMAIN t
        PROVE  k = KeyOf(Far(q))
    <2> DEFINE e == t[k]
    <2>1. /\ e \in Ends /\ e[1] \in DOMAIN streams
          /\ NodeOf(e) = NodeOf(Far(q)) /\ k = KeyOf(e)
          /\ e[1] # s => Near(e[1], s)
      BY <1>4, FoundIsNear
    <2>2. e[1] = s
      <3>1. Near(e[1], s) => Near(s, e[1])
        <4>1. streams[e[1]].id \in Nat
          BY <2>1, EndProperties
        <4> QED  BY <1>2, <4>1 DEF Near
      <3> QED  BY <2>1, <3>1 DEF Apart
    <2>3. e[2] = Far(q)[2]
      <3>1. e[2] \in Sides /\ e = <<e[1], e[2]>> /\ Far(q) = <<s, Far(q)[2]>>
            /\ Far(q)[2] \in Sides
        <4>1. Far(q)[1] \in DOMAIN streams
          BY <1>1, <1>2
        <4>2. Far(q) = <<Far(q)[1], Far(q)[2]>> /\ Far(q)[2] \in Sides
          BY <1>2, <4>1, EndProperties
        <4> QED  BY <1>2, <2>1, <4>2, EndProperties
      <3>2. streams[s].resp # streams[s].init
        BY <1>1 DEF TwoNodes
      <3> QED  BY <1>2, <2>1, <2>2, <3>1, <3>2 DEF NodeOf, Sides
    <2>4. e = Far(q)
      BY <1>2, <2>1, <2>2, <2>3, EndProperties
    <2> QED  BY <2>1, <2>4
  <1>5. KeyOf(Far(q)) \in {KeyB(n, c), KeyC(n, c)}
    <2> DEFINE id == streams[s].id
    <2>1. CASE q[2] = "resp"
      <3>1. c = id /\ Far(q)[2] = "init"
        BY <1>2, <2>1 DEF SndId, Other
      <3>2. KeyOf(Far(q)) = <<Prefix[n], id + 1, id>>
        BY <1>1, <1>2, <3>1, KeyProperties DEF Sender
      <3> QED  BY <3>1, <3>2 DEF KeyB, SocketKey
    <2>2. CASE q[2] = "init"
      <3>1. c = id + 1 /\ Far(q)[2] = "resp"
        BY <1>2, <2>2 DEF SndId, Other
      <3>2. KeyOf(Far(q)) = <<Prefix[n], id, id + 1>>
        BY <1>1, <1>2, <3>1, KeyProperties DEF Sender
      <3>3. c - 1 = id
        BY <1>2, <3>1
      <3> QED  BY <3>1, <3>2, <3>3 DEF KeyC, SocketKey
    <2> QED  BY <1>2, <2>1, <2>2 DEF Sides
  <1>6. FindKey(t, n, c) = KeyOf(Far(q))
    BY <1>3, <1>4, <1>5 DEF FindKey
  <1> QED  BY <1>3, <1>6 DEF HasRequest, RequestFor

\* What a packet can find at all.
LEMMA FoundEnd ==
  ASSUME TypeOK, EntriesAtTheirKeys, NEW p \in msgs, HasRequest(p)
  PROVE  LET e == RequestFor(p) IN
         /\ e \in Ends /\ e[1] \in DOMAIN streams
         /\ Apart(e[1]) => e[1] = p.from[1]
  <1> DEFINE k == FindKey(Table(p), Sender(p), SndId(p.from))
             e == RequestFor(p)
  <1>1. k \in {KeyA(Sender(p), SndId(p.from)), KeyB(Sender(p), SndId(p.from)),
               KeyC(Sender(p), SndId(p.from))}
    BY DEF FindKey
  <1>2. k \in DOMAIN Table(p) /\ e = Table(p)[k]
    BY DEF HasRequest, RequestFor
  <1>3. /\ e \in Ends /\ e[1] \in DOMAIN streams
        /\ e[1] # p.from[1] => Near(e[1], p.from[1])
    <2> HIDE DEF k
    <2> QED  BY <1>1, <1>2, FoundIsNear
  <1>4. p.from[1] \in DOMAIN streams
    BY DEF TypeOK
  <1> QED  BY <1>3, <1>4 DEF Apart

----------------------------------------------------------------------------
(* What a handler changes.                                                 *)

LEMMA RequestType ==
  ASSUME NEW r \in Request, NEW b \in BOOLEAN, NEW S \in SUBSET (1..MaxStreams)
  PROVE  /\ [r EXCEPT !.started = b] \in Request
         /\ [r EXCEPT !.reading = b, !.held = S] \in Request
         /\ [r EXCEPT !.acked = S] \in Request
  BY DEF Request

LEMMA PacketTypes ==
  ASSUME NEW e \in Ends, NEW p \in Packet
  PROVE  /\ Ack(e, p) \in Packet \/ p.type = "RESET"
         /\ Ack(e, p).from = e /\ Ack(e, p).of = p.of
         /\ Chunk(e) \in Packet /\ Chunk(e).from = e /\ Chunk(e).of = e[1]
         /\ Fin(e) \in Packet /\ Fin(e).from = e /\ Fin(e).of = e[1]
  <1>1. e[1] \in 1..MaxStreams
    BY DEF Ends
  <1> QED  BY <1>1 DEF Packet, Ack, Chunk, Fin

\* Whatever the handler: the request's chunk sets grow by the packet's chunk at
\* most, packets are sent from the request's own end, and what is handed on is
\* what the request holds.
LEMMA ReceiveEffect ==
  ASSUME TypeOK, EntriesAtTheirKeys, NEW p \in msgs, NEW keep \in BOOLEAN,
         Receive(p, keep)
  PROVE  LET e == RequestFor(p) IN
         /\ UNCHANGED <<streams, answers, open>>
         /\ req' \in [Ends -> Request]
         /\ \A f \in Ends : f # e => req'[f] = req[f]
         /\ req'[e].held \subseteq req[e].held \cup {p.of}
         /\ req'[e].acked \subseteq req[e].acked \cup {p.of}
         /\ \A m \in msgs' : m \in msgs \/ (m \in Packet /\ m.from = e /\ m.of \in {e[1], p.of})
         /\ \A h \in handed' : h \in handed \/ (h.s = e[1] /\ h.held = req[e].held)
  <1> DEFINE e == RequestFor(p)
             r == req[e]
             New(m) == m \in Packet /\ m.from = e /\ m.of \in {e[1], p.of}
  <1>1. e \in Ends /\ p \in Packet /\ req \in [Ends -> Request]
        /\ p.of \in 1..MaxStreams
    BY FoundEnd DEF Receive, TypeOK, Packet
  <1>2. r \in Request /\ r.held \cup {p.of} \in SUBSET (1..MaxStreams)
        /\ r.acked \cup {p.of} \in SUBSET (1..MaxStreams)
    BY <1>1 DEF Request
  <1>3. /\ p.type # "RESET" => New(Ack(e, p))
        /\ New(Chunk(e)) /\ New(Fin(e))
    BY <1>1, PacketTypes
  <1>4. UNCHANGED <<streams, answers>>
    BY DEF Receive
  <1>5. \/ HandleSyn(e, p, keep) \/ HandleState(e, p, keep) \/ HandleData(e, p, keep)
        \/ HandleFin(e, p, keep) \/ HandleReset(e, p, keep)
    BY DEF Receive
  <1> HIDE DEF e
  <1>6. open' = open
    BY <1>5 DEF HandleSyn, HandleState, HandleData, HandleFin, HandleReset
  <1>7. \A m \in msgs' : m \in msgs \/ New(m)
    <2> HIDE DEF New
    <2> QED  BY <1>3, <1>5 DEF HandleSyn, HandleState, HandleData, HandleFin, HandleReset, Sends
  <1>8. \A h \in handed' : h \in handed \/ (h.s = e[1] /\ h.held = req[e].held)
    BY <1>5 DEF HandleSyn, HandleState, HandleData, HandleFin, HandleReset
  <1>10. \/ UNCHANGED req
         \/ req' = [req EXCEPT ![e] = [r EXCEPT !.reading = TRUE, !.held = {}]]
         \/ req' = [req EXCEPT ![e] = [r EXCEPT !.started = TRUE]]
         \/ req' = [req EXCEPT ![e] = [r EXCEPT !.acked =
                      IF p.acks = "DATA" THEN r.acked \cup {p.of} ELSE r.acked]]
         \/ req' = [req EXCEPT ![e] = [r EXCEPT !.reading = TRUE, !.held = r.held \cup {p.of}]]
    <2>1. /\ [req EXCEPT ![e].reading = TRUE, ![e].held = {}]
             = [req EXCEPT ![e] = [r EXCEPT !.reading = TRUE, !.held = {}]]
          /\ [req EXCEPT ![e].reading = TRUE, ![e].held = @ \cup {p.of}]
             = [req EXCEPT ![e] = [r EXCEPT !.reading = TRUE, !.held = r.held \cup {p.of}]]
      BY <1>1, <1>2 DEF Request
    <2> QED
      BY <1>5, <2>1 DEF HandleSyn, HandleState, HandleData, HandleFin, HandleReset, NewReader
  <1>11. /\ req' \in [Ends -> Request]
         /\ \A f \in Ends : f # e => req'[f] = req[f]
         /\ req'[e].held \subseteq req[e].held \cup {p.of}
         /\ req'[e].acked \subseteq req[e].acked \cup {p.of}
    <2>2. CASE UNCHANGED req
      BY <1>1, <2>2
    <2>3. CASE req' = [req EXCEPT ![e] = [r EXCEPT !.reading = TRUE, !.held = {}]]
      <3> DEFINE v == [r EXCEPT !.reading = TRUE, !.held = {}]
      <3>1. v \in Request /\ v.held = {} /\ v.acked = r.acked
        BY <1>2 DEF Request
      <3> HIDE DEF v
      <3> QED  BY <1>1, <2>3, <3>1 DEF v
    <2>4. CASE req' = [req EXCEPT ![e] = [r EXCEPT !.started = TRUE]]
      <3> DEFINE v == [r EXCEPT !.started = TRUE]
      <3>1. v \in Request /\ v.held = r.held /\ v.acked = r.acked
        BY <1>2 DEF Request
      <3> HIDE DEF v
      <3> QED  BY <1>1, <2>4, <3>1 DEF v
    <2>5. CASE req' = [req EXCEPT ![e] = [r EXCEPT !.acked =
                      IF p.acks = "DATA" THEN r.acked \cup {p.of} ELSE r.acked]]
      <3> DEFINE S == IF p.acks = "DATA" THEN r.acked \cup {p.of} ELSE r.acked
                 v == [r EXCEPT !.acked = S]
      <3>1. S \subseteq r.acked \cup {p.of} /\ S \in SUBSET (1..MaxStreams)
        BY <1>2
      <3> HIDE DEF S
      <3>2. v \in Request /\ v.held = r.held /\ v.acked = S
        BY <1>2, <3>1 DEF Request
      <3> HIDE DEF v
      <3> QED  BY <1>1, <2>5, <3>1, <3>2 DEF v, S
    <2>6. CASE req' = [req EXCEPT ![e] = [r EXCEPT !.reading = TRUE, !.held = r.held \cup {p.of}]]
      <3> DEFINE v == [r EXCEPT !.reading = TRUE, !.held = r.held \cup {p.of}]
      <3>1. v \in Request /\ v.held = r.held \cup {p.of} /\ v.acked = r.acked
        BY <1>2 DEF Request
      <3> HIDE DEF v
      <3> QED  BY <1>1, <2>6, <3>1 DEF v
    <2> QED  BY <1>10, <2>2, <2>3, <2>4, <2>5, <2>6
  <1> QED  BY <1>4, <1>6, <1>7, <1>8, <1>11 DEF e

----------------------------------------------------------------------------
(* Opening requests.                                                       *)

\* A request is opened in the table of one node, and the other entries of all
\* tables stay.
LEMMA SetRequestProperties ==
  ASSUME TypeOK, NEW n \in Nodes, NEW k, NEW e, SetRequest(n, k, e)
  PROVE  /\ open' = [y \in Nodes |-> open'[y]]
         /\ k \in DOMAIN open'[n] /\ open'[n][k] = e
         /\ \A y \in Nodes : \A x : ~ (y = n /\ x = k) =>
              (x \in DOMAIN open'[y] <=> x \in DOMAIN open[y])
              /\ (x \in DOMAIN open[y] => open'[y][x] = open[y][x])
  <1> DEFINE w == With(open[n], k, e)
  <1>1. /\ DOMAIN w = DOMAIN open[n] \cup {k} /\ w[k] = e
        /\ \A x \in DOMAIN open[n] : x # k => w[x] = open[n][x]
    BY DEF With
  <1>2. open' = [open EXCEPT ![n] = w]
    BY DEF SetRequest
  <1> HIDE DEF w
  <1>3. open' = [y \in Nodes |-> IF y = n THEN w ELSE open[y]]
    BY <1>2 DEF TypeOK
  <1>4. open'[n] = w /\ \A y \in Nodes \ {n} : open'[y] = open[y]
    BY <1>3
  <1>5. open' = [y \in Nodes |-> open'[y]]
    BY <1>3
  <1> QED  BY <1>1, <1>4, <1>5

\* The streams before an answer stay what they are.
LEMMA AnswerProperties ==
  ASSUME TypeOK, NEW n \in Nodes, NEW m \in Nodes, NEW kind \in Kinds, NEW id \in Ids,
         Answer(n, m, kind, id), NEW s, s = Len(streams) + 1
  PROVE  /\ s \in 1..MaxStreams /\ s \notin DOMAIN streams /\ n # m
         /\ streams' \in Seq(Stream) /\ Len(streams') = s
         /\ DOMAIN streams' = DOMAIN streams \cup {s}
         /\ \A x \in DOMAIN streams : streams'[x] = streams[x]
         /\ streams'[s] = [resp |-> n, init |-> m, kind |-> kind, id |-> id]
  <1> DEFINE r == [resp |-> n, init |-> m, kind |-> kind, id |-> id]
  <1>1. r \in Stream
    BY DEF Stream
  <1>2. streams' = Append(streams, r) /\ streams \in Seq(Stream)
    BY DEF Answer, TypeOK
  <1> HIDE DEF r
  <1>3. /\ streams' \in Seq(Stream) /\ Len(streams') = s
        /\ DOMAIN streams' = DOMAIN streams \cup {s}
        /\ \A x \in DOMAIN streams : streams'[x] = streams[x]
        /\ streams'[s] = r
        /\ s \notin DOMAIN streams
    BY <1>1, <1>2
  <1>4. s \in 1..MaxStreams
    BY <1>2, RequestsAssumption DEF Answer
  <1>5. n # m
    BY DEF Answer
  <1> QED  BY <1>3, <1>4, <1>5 DEF r

\* A step keeps the types, and every entry at its own key at its own node.
LEMMA TypeStep ==
  ASSUME TypeOK, EntriesAtTheirKeys, [Next]_vars
  PROVE  TypeOK' /\ EntriesAtTheirKeys'
  <1>1. ASSUME NEW n \in Nodes, NEW m \in Nodes, NEW kind \in Kinds, NEW id \in Ids,
               Answer(n, m, kind, id)
        PROVE  TypeOK' /\ EntriesAtTheirKeys'
    <2> DEFINE k == SocketKey(m, id, id + 1)
    <2>1. PICK s : s = Len(streams) + 1
      OBVIOUS
    <2>2. /\ s \in 1..MaxStreams /\ s \notin DOMAIN streams
          /\ streams' \in Seq(Stream) /\ Len(streams') = s
          /\ DOMAIN streams' = DOMAIN streams \cup {s}
          /\ \A x \in DOMAIN streams : streams'[x] = streams[x]
      BY <1>1, <2>1, AnswerProperties
    <2>3. /\ answers' = answers \cup {s}
          /\ SetRequest(n, k, <<s, "resp">>)
          /\ UNCHANGED <<req, msgs, handed>>
      BY <1>1, <2>1 DEF Answer
    <2>4. streams'[s].resp = n /\ streams'[s].init = m /\ streams'[s].id = id
      BY <1>1, <2>1 DEF Answer, TypeOK
    <2>5. <<s, "resp">> \in Ends /\ Len(streams') <= MaxStreams
      BY <2>2 DEF Ends, Sides
    <2> HIDE DEF k
    <2>6. /\ open' = [y \in Nodes |-> open'[y]]
          /\ k \in DOMAIN open'[n] /\ open'[n][k] = <<s, "resp">>
          /\ \A y \in Nodes : \A x : ~ (y = n /\ x = k) =>
               (x \in DOMAIN open'[y] <=> x \in DOMAIN open[y])
               /\ (x \in DOMAIN open[y] => open'[y][x] = open[y][x])
      BY <2>3, SetRequestProperties
    <2>7. ASSUME NEW y \in Nodes, NEW x \in DOMAIN open'[y]
          PROVE  /\ open'[y][x] \in Ends /\ open'[y][x][1] \in DOMAIN streams'
                 /\ (NodeOf(open[y][x]) = y /\ x = KeyOf(open[y][x]))'
      <3>1. CASE y = n /\ x = k
        <4>1. open'[y][x] = <<s, "resp">>
          BY <2>6, <3>1
        <4>2. streams'[s].resp = n /\ streams'[s].init = m /\ streams'[s].id = id
          BY <2>4
        <4> QED  BY <2>2, <2>5, <3>1, <4>1, <4>2
                 DEF k, KeyOf, NodeOf, Far, Other, SndId, SocketKey
      <3>2. CASE ~ (y = n /\ x = k)
        <4>1. x \in DOMAIN open[y] /\ open'[y][x] = open[y][x]
          BY <2>6, <3>2
        <4>2. /\ open[y][x] \in Ends /\ open[y][x][1] \in DOMAIN streams
              /\ NodeOf(open[y][x]) = y /\ x = KeyOf(open[y][x])
          BY <4>1 DEF TypeOK, EntriesAtTheirKeys
        <4>3. streams'[open[y][x][1]] = streams[open[y][x][1]]
          BY <2>2, <4>2
        <4> QED  BY <2>2, <4>1, <4>2, <4>3 DEF KeyOf, NodeOf, Far, SndId, SocketKey
      <3> QED  BY <3>1, <3>2
    <2>8. TypeOK'
      BY <2>2, <2>3, <2>5, <2>6, <2>7 DEF TypeOK
    <2> QED  BY <2>7, <2>8 DEF EntriesAtTheirKeys
  <1>2. ASSUME NEW s \in 1..MaxStreams, Open(s)
        PROVE  TypeOK' /\ EntriesAtTheirKeys'
    <2> DEFINE e == <<s, "init">>
               n == NodeOf(e)
               k == KeyOf(e)
               p == [from |-> e, type |-> "SYN", acks |-> "none", of |-> s]
    <2>1. e \in Ends /\ e[1] = s /\ s \in DOMAIN streams /\ n \in Nodes /\ p \in Packet
      <3>1. e \in Ends /\ e[1] = s /\ s \in DOMAIN streams
        BY <1>2 DEF Open, TypeOK, Ends, Sides
      <3> QED  BY <3>1, EndProperties DEF Packet
    <2>2. /\ SetRequest(n, k, e)
          /\ answers' = answers \ {s} /\ msgs' = msgs \cup {p}
          /\ UNCHANGED <<streams, req, handed>>
      BY <1>2 DEF Open
    <2>3. p.from = e
      OBVIOUS
    <2> HIDE DEF e, n, k, p
    <2>4. /\ open' = [y \in Nodes |-> open'[y]]
          /\ k \in DOMAIN open'[n] /\ open'[n][k] = e
          /\ \A y \in Nodes : \A x : ~ (y = n /\ x = k) =>
               (x \in DOMAIN open'[y] <=> x \in DOMAIN open[y])
               /\ (x \in DOMAIN open[y] => open'[y][x] = open[y][x])
      BY <2>1, <2>2, SetRequestProperties
    <2>5. ASSUME NEW y \in Nodes, NEW x \in DOMAIN open'[y]
          PROVE  /\ open'[y][x] \in Ends /\ open'[y][x][1] \in DOMAIN streams'
                 /\ NodeOf(open'[y][x]) = y /\ x = KeyOf(open'[y][x])
      <3>1. CASE y = n /\ x = k
        BY <2>1, <2>2, <2>4, <3>1 DEF n, k
      <3>2. CASE ~ (y = n /\ x = k)
        <4>1. x \in DOMAIN open[y] /\ open'[y][x] = open[y][x]
          BY <2>4, <3>2
        <4> QED  BY <2>2, <4>1 DEF TypeOK, EntriesAtTheirKeys
      <3> QED  BY <3>1, <3>2
    <2>6. TypeOK'
      BY <2>1, <2>2, <2>3, <2>4, <2>5 DEF TypeOK
    <2>7. EntriesAtTheirKeys'
      <3> SUFFICES ASSUME NEW y \in Nodes, NEW x \in DOMAIN open'[y]
                   PROVE  (NodeOf(open[y][x]) = y /\ x = KeyOf(open[y][x]))'
        BY DEF EntriesAtTheirKeys
      <3>1. NodeOf(open'[y][x]) = y /\ x = KeyOf(open'[y][x]) /\ streams' = streams
        BY <2>2, <2>5
      <3> QED  BY <3>1 DEF NodeOf, KeyOf, Far, SndId, SocketKey
    <2> QED  BY <2>6, <2>7
  <1>3. ASSUME NEW p \in msgs, NEW keep \in BOOLEAN, Receive(p, keep)
        PROVE  TypeOK' /\ EntriesAtTheirKeys'
    <2> DEFINE e == RequestFor(p)
    <2>1. e \in Ends /\ e[1] \in DOMAIN streams
      BY <1>3, FoundEnd DEF Receive
    <2>2. /\ UNCHANGED <<streams, answers, open>>
          /\ req' \in [Ends -> Request]
          /\ \A m \in msgs' : m \in msgs \/ (m \in Packet /\ m.from = e /\ m.of \in {e[1], p.of})
          /\ \A h \in handed' : h \in handed \/ (h.s = e[1] /\ h.held = req[e].held)
       BY <1>3, ReceiveEffect
    <2> HIDE DEF e
    <2>3. req[e].held \subseteq 1..MaxStreams
      BY <2>1 DEF TypeOK, Request
    <2>4. TypeOK'
      BY <2>1, <2>2, <2>3 DEF TypeOK
    <2>5. EntriesAtTheirKeys'
      BY <2>2, NothingOpened
    <2> QED  BY <2>4, <2>5
  <1>4. ASSUME NEW e \in Ends \cap Resetters, PeerResets(e)
        PROVE  TypeOK' /\ EntriesAtTheirKeys'
    <2> DEFINE r == [from |-> e, type |-> "RESET", acks |-> "none", of |-> e[1]]
    <2>1. PICK p \in msgs : p.from = Far(e)
      BY <1>4 DEF PeerResets
    <2>2. e[1] \in DOMAIN streams /\ e[1] \in 1..MaxStreams
      BY <2>1 DEF TypeOK, Far, Ends
    <2>3. r \in Packet /\ r.from = e
      BY <2>2 DEF Packet
    <2>4. msgs' = msgs \cup {r} /\ UNCHANGED <<streams, answers, open, req, handed>>
      BY <1>4 DEF PeerResets
    <2> HIDE DEF r
    <2>5. TypeOK'
      BY <2>2, <2>3, <2>4 DEF TypeOK
    <2>6. EntriesAtTheirKeys'
      BY <2>4, NothingOpened
    <2> QED  BY <2>5, <2>6
  <1>5. CASE UNCHANGED vars
    BY <1>5 DEF vars, TypeOK, EntriesAtTheirKeys, NodeOf, KeyOf, Far, SndId, SocketKey
  <1> QED  BY <1>1, <1>2, <1>3, <1>4, <1>5 DEF Next

\* Every node's table, the requests and the packets keep their types.
THEOREM TypeInvariant == Spec => []TypeOK /\ []EntriesAtTheirKeys
  <1>1. Init => TypeOK /\ EntriesAtTheirKeys
    <2> SUFFICES ASSUME Init PROVE TypeOK /\ EntriesAtTheirKeys
      OBVIOUS
    <2>1. NewRequest \in Request
      BY DEF NewRequest, Request
    <2> QED  BY <2>1, RequestsAssumption DEF Init, TypeOK, EntriesAtTheirKeys
  <1>2. TypeOK /\ EntriesAtTheirKeys /\ [Next]_vars => TypeOK' /\ EntriesAtTheirKeys'
    BY TypeStep
  <1> QED  BY <1>1, <1>2, PTL DEF Spec

----------------------------------------------------------------------------
(* A stream apart from the others keeps its own requests.                  *)

\* What was apart before a stream was added need not be any more; what is apart
\* now was before.
LEMMA ApartBefore ==
  ASSUME DOMAIN streams \subseteq DOMAIN streams',
         \A x \in DOMAIN streams : streams'[x] = streams[x],
         NEW s \in DOMAIN streams, Apart(s)'
  PROVE  Apart(s)
  <1> SUFFICES ASSUME NEW t \in DOMAIN streams \ {s}, Near(s, t) PROVE FALSE
    BY DEF Apart
  <1>1. streams'[s] = streams[s] /\ streams'[t] = streams[t] /\ t \in DOMAIN streams' \ {s}
    OBVIOUS
  <1>2. Near(s, t)'
    BY <1>1 DEF Near, NodeOf, Far, Other
  <1> QED  BY <1>1, <1>2 DEF Apart

\* Two streams with the same key at the same node are near.
KeysOfOneNode ==
  \A e, f \in Ends :
    /\ e[1] \in DOMAIN streams /\ f[1] \in DOMAIN streams
    /\ NodeOf(e) = NodeOf(f) /\ KeyOf(e) = KeyOf(f)
    => e = f \/ (e[1] # f[1] /\ Near(e[1], f[1]))

LEMMA SameKeyIsNear == TypeOK => KeysOfOneNode
  <1> SUFFICES ASSUME TypeOK, NEW e \in Ends, NEW f \in Ends,
                      e[1] \in DOMAIN streams, f[1] \in DOMAIN streams,
                      NodeOf(e) = NodeOf(f), KeyOf(e) = KeyOf(f)
               PROVE  e = f \/ (e[1] # f[1] /\ Near(e[1], f[1]))
    BY DEF KeysOfOneNode
  <1> DEFINE d == streams[e[1]].id
             g == streams[f[1]].id
  <1>1. /\ d \in Nat /\ g \in Nat
        /\ e = <<e[1], e[2]>> /\ f = <<f[1], f[2]>>
        /\ e[2] \in Sides /\ f[2] \in Sides
    BY EndProperties
  <1>2. \/ e[2] = "resp" /\ KeyOf(e) = <<Prefix[NodeOf(Far(e))], d, d + 1>>
        \/ e[2] = "init" /\ KeyOf(e) = <<Prefix[NodeOf(Far(e))], d + 1, d>>
    BY <1>1, KeyProperties DEF Sides
  <1>3. \/ f[2] = "resp" /\ KeyOf(f) = <<Prefix[NodeOf(Far(f))], g, g + 1>>
        \/ f[2] = "init" /\ KeyOf(f) = <<Prefix[NodeOf(Far(f))], g + 1, g>>
    BY <1>1, KeyProperties DEF Sides
  <1>4. Prefix[NodeOf(Far(e))] = Prefix[NodeOf(Far(f))]
    BY <1>2, <1>3
  <1>5. e[2] = f[2] /\ d = g
    <2> HIDE DEF d, g
    <2> QED  BY <1>1, <1>2, <1>3
  <1>6. CASE e[1] = f[1]
    BY <1>1, <1>5, <1>6
  <1>7. CASE e[1] # f[1]
    BY <1>1, <1>4, <1>5, <1>7 DEF Near
  <1> QED  BY <1>6, <1>7

LEMMA AnswerKeeps ==
  ASSUME TypeOK, RoutingInv, NEW n \in Nodes, NEW m \in Nodes, NEW kind \in Kinds,
         NEW id \in Ids, Answer(n, m, kind, id), TypeOK', EntriesAtTheirKeys'
  PROVE  RoutingInv'
  <1>0. PICK s : s = Len(streams) + 1
    OBVIOUS
  <1> DEFINE k == SocketKey(m, id, id + 1)
             a == <<s, "resp">>
  <1>1. /\ s \in 1..MaxStreams /\ s \notin DOMAIN streams /\ n # m
        /\ DOMAIN streams' = DOMAIN streams \cup {s}
        /\ \A x \in DOMAIN streams : streams'[x] = streams[x]
    BY <1>0, AnswerProperties
  <1>2. streams'[s].resp = n /\ streams'[s].init = m /\ streams'[s].id = id
    BY <1>0 DEF Answer, TypeOK
  <1>3. /\ answers' = answers \cup {s} /\ SetRequest(n, k, a)
        /\ UNCHANGED <<req, msgs, handed>>
    BY <1>0 DEF Answer
  <1>4. a \in Ends /\ a[1] = s
    BY <1>1 DEF Ends, Sides
  <1>5. /\ k \in DOMAIN open'[n] /\ open'[n][k] = a
        /\ \A y \in Nodes : \A x : ~ (y = n /\ x = k) =>
             (x \in DOMAIN open[y] => x \in DOMAIN open'[y] /\ open'[y][x] = open[y][x])
    BY <1>3, SetRequestProperties
  <1>6. NodeOf(a)' = n /\ KeyOf(a)' = k
    <2>1. a[1] = s /\ a[2] = "resp" /\ Far(a) = <<s, "init">>
      BY DEF Far, Other
    <2>2. NodeOf(a)' = n /\ SndId(a)' = id
      BY <1>2, <2>1 DEF NodeOf, SndId
    <2>3. NodeOf(<<s, "init">>)' = m /\ SndId(<<s, "init">>)' = id + 1
      BY <1>2 DEF NodeOf, SndId
    <2> HIDE DEF a
    <2>4. KeyOf(a)' = SocketKey(NodeOf(<<s, "init">>)', SndId(a)', SndId(<<s, "init">>)')
      BY <2>1 DEF KeyOf, SocketKey
    <2> QED  BY <2>2, <2>3, <2>4
  <1> HIDE DEF k, a
  <1>7. ASSUME NEW x \in DOMAIN streams, Apart(x)'
        PROVE  Apart(x)
    BY <1>1, <1>7, ApartBefore
  <1>8. TwoNodes'
    BY <1>1, <1>2 DEF RoutingInv, TwoNodes
  <1>9. ApartStaysOpen'
    <2> SUFFICES ASSUME NEW e \in Ends, IsOpen(e)', Apart(e[1])'
                 PROVE  (KeyOf(e) \in DOMAIN open[NodeOf(e)] /\ open[NodeOf(e)][KeyOf(e)] = e)'
      BY DEF ApartStaysOpen
    <2>1. CASE e[1] = s
      <3>1. e = a
        BY <1>3, <2>1 DEF IsOpen, Ends, Sides, a
      <3>2. NodeOf(e)' = n /\ KeyOf(e)' = k
        BY <1>6, <3>1
      <3> QED  BY <1>5, <3>1, <3>2
    <2>2. CASE e[1] # s
      <3>1. e[1] \in DOMAIN streams /\ IsOpen(e) /\ Apart(e[1])
        BY <1>1, <1>3, <1>7, <2>2 DEF IsOpen
      <3>2. KeyOf(e) \in DOMAIN open[NodeOf(e)] /\ open[NodeOf(e)][KeyOf(e)] = e
        BY <3>1 DEF RoutingInv, ApartStaysOpen
      <3>3. NodeOf(e)' = NodeOf(e) /\ KeyOf(e)' = KeyOf(e) /\ NodeOf(e) \in Nodes
        BY <1>1, <3>1, EndProperties DEF NodeOf, KeyOf, Far, SndId, SocketKey
      <3>4. ~ (NodeOf(e) = n /\ KeyOf(e) = k)
        <4>1. KeysOfOneNode'
          BY SameKeyIsNear, PTL
        <4>2. a[1] \in DOMAIN streams' /\ e[1] \in DOMAIN streams' /\ e # a
          BY <1>1, <1>4, <2>2, <3>1
        <4> SUFFICES ASSUME NodeOf(e) = n, KeyOf(e) = k PROVE FALSE
          OBVIOUS
        <4>3. NodeOf(e)' = NodeOf(a)' /\ KeyOf(e)' = KeyOf(a)'
          BY <1>6, <3>3
        <4>4. Near(e[1], a[1])'
          BY <1>4, <4>1, <4>2, <4>3 DEF KeysOfOneNode
        <4>5. a[1] \in DOMAIN streams' \ {e[1]}
          BY <1>4, <2>2, <4>2
        <4> QED  BY <4>4, <4>5 DEF Apart
      <3> QED  BY <1>5, <3>2, <3>3, <3>4
    <2> QED  BY <2>1, <2>2
  <1>10. ApartPackets'
    <2> SUFFICES ASSUME NEW p \in msgs, Apart(p.from[1])'
                 PROVE  p.from[1] \notin answers' /\ p.of = p.from[1]
      BY <1>3 DEF ApartPackets
    <2>1. p.from[1] \in DOMAIN streams
      BY DEF TypeOK
    <2> QED  BY <1>1, <1>3, <1>7, <2>1 DEF RoutingInv, ApartPackets
  <1>11. ApartRequests'
    <2> SUFFICES ASSUME NEW e \in Ends
                 PROVE  /\ e[1] \notin DOMAIN streams' => req[e] = NewRequest
                        /\ e[1] \in DOMAIN streams' /\ Apart(e[1])' =>
                             req[e].held \subseteq {e[1]} /\ req[e].acked \subseteq {e[1]}
      BY <1>3 DEF ApartRequests
    <2>1. e[1] \notin DOMAIN streams => req[e] = NewRequest
      BY DEF RoutingInv, ApartRequests
    <2>2. NewRequest.held = {} /\ NewRequest.acked = {}
      BY DEF NewRequest
    <2> QED  BY <1>1, <1>7, <2>1, <2>2 DEF RoutingInv, ApartRequests
  <1>12. HandedUnderOwnKeys'
    <2> SUFFICES ASSUME NEW h \in handed, Apart(h.s)' PROVE h.held \subseteq {h.s}
      BY <1>3 DEF HandedUnderOwnKeys
    <2>1. h.s \in DOMAIN streams
      BY DEF TypeOK
    <2> QED  BY <1>7, <2>1 DEF RoutingInv, HandedUnderOwnKeys
  <1> QED  BY <1>8, <1>9, <1>10, <1>11, <1>12 DEF RoutingInv

LEMMA OpenKeeps ==
  ASSUME TypeOK, RoutingInv, NEW s \in 1..MaxStreams, Open(s), EntriesAtTheirKeys'
  PROVE  RoutingInv'
  <1> DEFINE e == <<s, "init">>
             p == [from |-> e, type |-> "SYN", acks |-> "none", of |-> s]
  <1>1. e \in Ends /\ e[1] = s /\ s \in DOMAIN streams /\ p.from = e /\ p.of = s
    BY DEF Open, TypeOK, Ends, Sides
  <1>2. /\ SetRequest(NodeOf(e), KeyOf(e), e)
        /\ answers' = answers \ {s} /\ msgs' = msgs \cup {p}
        /\ UNCHANGED <<streams, req, handed>>
    BY DEF Open
  <1>3. \A f \in Ends : f[1] = s /\ f[2] = "init" => f = e
    BY DEF Ends
  <1> HIDE DEF e, p
  <1>4. /\ KeyOf(e) \in DOMAIN open'[NodeOf(e)] /\ open'[NodeOf(e)][KeyOf(e)] = e
        /\ \A y \in Nodes : \A x : ~ (y = NodeOf(e) /\ x = KeyOf(e)) =>
             (x \in DOMAIN open[y] => x \in DOMAIN open'[y] /\ open'[y][x] = open[y][x])
    <2>1. NodeOf(e) \in Nodes
      BY <1>1, EndProperties
    <2> QED  BY <1>2, <2>1, SetRequestProperties
  <1>5. /\ \A x : Apart(x)' <=> Apart(x)
        /\ \A f : NodeOf(f)' = NodeOf(f) /\ KeyOf(f)' = KeyOf(f)
    BY <1>2 DEF Apart, Near, NodeOf, KeyOf, Far, SndId, SocketKey
  <1>6. ApartStaysOpen'
    <2> SUFFICES ASSUME NEW f \in Ends, IsOpen(f)', Apart(f[1])
                 PROVE  KeyOf(f) \in DOMAIN open'[NodeOf(f)] /\ open'[NodeOf(f)][KeyOf(f)] = f
      BY <1>5 DEF ApartStaysOpen
    <2>1. CASE f = e
      BY <1>4, <2>1
    <2>2. CASE f # e
      <3>1. f[1] \in DOMAIN streams /\ IsOpen(f)
        BY <1>2, <1>3, <2>2 DEF IsOpen
      <3>2. KeyOf(f) \in DOMAIN open[NodeOf(f)] /\ open[NodeOf(f)][KeyOf(f)] = f
        BY <3>1 DEF RoutingInv, ApartStaysOpen
      <3>3. NodeOf(f) \in Nodes
        BY <3>1, EndProperties
      <3>4. ~ (NodeOf(f) = NodeOf(e) /\ KeyOf(f) = KeyOf(e))
        BY <1>1, <2>2, <3>1, SameKeyIsNear DEF KeysOfOneNode, Apart
      <3> QED  BY <1>4, <3>2, <3>3, <3>4
    <2> QED  BY <2>1, <2>2
  <1>7. ApartPackets'
    <2> SUFFICES ASSUME NEW q \in msgs', Apart(q.from[1])
                 PROVE  q.from[1] \notin answers' /\ q.of = q.from[1]
      BY <1>5 DEF ApartPackets
    <2> QED  BY <1>1, <1>2 DEF RoutingInv, ApartPackets
  <1>8. TwoNodes' /\ ApartRequests' /\ HandedUnderOwnKeys'
    BY <1>2, <1>5 DEF RoutingInv, TwoNodes, ApartRequests, HandedUnderOwnKeys
  <1> QED  BY <1>6, <1>7, <1>8 DEF RoutingInv

LEMMA ReceiveKeeps ==
  ASSUME TypeOK, RoutingInv, NEW p \in msgs, NEW keep \in BOOLEAN, Receive(p, keep),
         EntriesAtTheirKeys'
  PROVE  RoutingInv'
  <1> DEFINE e == RequestFor(p)
  <1>1. /\ e \in Ends /\ e[1] \in DOMAIN streams
        /\ Apart(e[1]) => e[1] = p.from[1]
    BY FoundEnd DEF Receive, RoutingInv
  <1>2. /\ UNCHANGED <<streams, answers, open>>
        /\ \A f \in Ends : f # e => req'[f] = req[f]
        /\ req'[e].held \subseteq req[e].held \cup {p.of}
        /\ req'[e].acked \subseteq req[e].acked \cup {p.of}
        /\ \A m \in msgs' : m \in msgs \/ (m \in Packet /\ m.from = e /\ m.of \in {e[1], p.of})
        /\ \A h \in handed' : h \in handed \/ (h.s = e[1] /\ h.held = req[e].held)
    BY ReceiveEffect DEF RoutingInv
  <1> HIDE DEF e
  <1>3. \A x : Apart(x)' <=> Apart(x)
    BY <1>2, NothingOpened
  <1>4. Apart(e[1]) => e[1] \notin answers /\ p.of = e[1]
    BY <1>1 DEF RoutingInv, ApartPackets
  <1>5. TwoNodes' /\ ApartStaysOpen'
    BY <1>2, NothingOpened DEF RoutingInv
  <1>6. ApartPackets'
    <2> SUFFICES ASSUME NEW m \in msgs', Apart(m.from[1])
                 PROVE  m.from[1] \notin answers /\ m.of = m.from[1]
      BY <1>2, <1>3 DEF ApartPackets
    <2> QED  BY <1>2, <1>4 DEF RoutingInv, ApartPackets
  <1>7. ApartRequests'
    <2> SUFFICES ASSUME NEW f \in Ends
                 PROVE  /\ f[1] \notin DOMAIN streams => req'[f] = NewRequest
                        /\ f[1] \in DOMAIN streams /\ Apart(f[1]) =>
                             req'[f].held \subseteq {f[1]} /\ req'[f].acked \subseteq {f[1]}
      BY <1>2, <1>3 DEF ApartRequests
    <2>1. /\ f[1] \notin DOMAIN streams => req[f] = NewRequest
          /\ f[1] \in DOMAIN streams /\ Apart(f[1]) =>
               req[f].held \subseteq {f[1]} /\ req[f].acked \subseteq {f[1]}
      BY DEF RoutingInv, ApartRequests
    <2>2. CASE f = e
      BY <1>1, <1>2, <1>4, <2>1, <2>2
    <2>3. CASE f # e
      BY <1>2, <2>1, <2>3
    <2> QED  BY <2>2, <2>3
  <1>8. HandedUnderOwnKeys'
    <2> SUFFICES ASSUME NEW h \in handed', Apart(h.s) PROVE h.held \subseteq {h.s}
      BY <1>3 DEF HandedUnderOwnKeys
    <2>1. CASE h \in handed
      BY <2>1 DEF RoutingInv, HandedUnderOwnKeys
    <2>2. CASE h.s = e[1] /\ h.held = req[e].held
      BY <1>1, <2>2 DEF RoutingInv, ApartRequests
    <2> QED  BY <1>2, <2>1, <2>2
  <1> QED  BY <1>5, <1>6, <1>7, <1>8 DEF RoutingInv

LEMMA ResetKeeps ==
  ASSUME TypeOK, RoutingInv, NEW e \in Ends, PeerResets(e), EntriesAtTheirKeys'
  PROVE  RoutingInv'
  <1> DEFINE r == [from |-> e, type |-> "RESET", acks |-> "none", of |-> e[1]]
  <1>1. PICK p \in msgs : p.from = Far(e)
    BY DEF PeerResets
  <1>2. p.from[1] = e[1]
    BY <1>1 DEF Far
  <1>3. r.from = e /\ r.of = e[1]
    OBVIOUS
  <1>4. msgs' = msgs \cup {r} /\ UNCHANGED <<streams, answers, open, req, handed>>
    BY DEF PeerResets
  <1> HIDE DEF r
  <1>5. \A x : Apart(x)' <=> Apart(x)
    BY <1>4, NothingOpened
  <1>6. ApartPackets'
    BY <1>1, <1>2, <1>3, <1>4, <1>5 DEF RoutingInv, ApartPackets
  <1>7. TwoNodes' /\ ApartStaysOpen' /\ ApartRequests' /\ HandedUnderOwnKeys'
    <2>1. TwoNodes' /\ ApartStaysOpen'
      BY <1>4, NothingOpened DEF RoutingInv
    <2>2. ApartRequests' /\ HandedUnderOwnKeys'
      BY <1>4, <1>5 DEF RoutingInv, ApartRequests, HandedUnderOwnKeys
    <2> QED  BY <2>1, <2>2
  <1> QED  BY <1>6, <1>7 DEF RoutingInv

----------------------------------------------------------------------------
(* The theorems.                                                           *)

\* Both ends of a stream apart from all others stay in their tables, its packets
\* carry, and its requests see and hand on, its own chunk only.
THEOREM RoutingInvariant == Spec => []RoutingInv
  <1>1. Init => RoutingInv
    BY DEF Init, RoutingInv, TwoNodes, EntriesAtTheirKeys, ApartStaysOpen, IsOpen,
           ApartPackets, ApartRequests, HandedUnderOwnKeys
  <1>2. TypeOK /\ RoutingInv /\ [Next]_vars => RoutingInv'
    <2> SUFFICES ASSUME TypeOK, RoutingInv, [Next]_vars PROVE RoutingInv'
      OBVIOUS
    <2>1. TypeOK' /\ EntriesAtTheirKeys'
      BY TypeStep DEF RoutingInv
    <2>2. ASSUME NEW n \in Nodes, NEW m \in Nodes, NEW kind \in Kinds, NEW id \in Ids,
                 Answer(n, m, kind, id)
          PROVE  RoutingInv'
      BY <2>1, <2>2, AnswerKeeps
    <2>3. ASSUME NEW s \in 1..MaxStreams, Open(s)
          PROVE  RoutingInv'
      BY <2>1, <2>3, OpenKeeps
    <2>4. ASSUME NEW p \in msgs, NEW keep \in BOOLEAN, Receive(p, keep)
          PROVE  RoutingInv'
      BY <2>1, <2>4, ReceiveKeeps
    <2>5. ASSUME NEW e \in Ends \cap Resetters, PeerResets(e)
          PROVE  RoutingInv'
      BY <2>1, <2>5, ResetKeeps
    <2>6. CASE UNCHANGED vars
      <3>1. UNCHANGED <<streams, answers, open, req, msgs, handed>>
        BY <2>6 DEF vars
      <3>2. \A x : Apart(x)' <=> Apart(x)
        BY <3>1, NothingOpened
      <3>3. TwoNodes' /\ ApartStaysOpen' /\ ApartPackets' /\ ApartRequests' /\ HandedUnderOwnKeys'
        <4>1. TwoNodes' /\ ApartStaysOpen'
          BY <3>1, NothingOpened DEF RoutingInv
        <4>2. ApartPackets' /\ ApartRequests' /\ HandedUnderOwnKeys'
          BY <3>1, <3>2 DEF RoutingInv, ApartPackets, ApartRequests, HandedUnderOwnKeys
        <4> QED  BY <4>1, <4>2
      <3> QED  BY <2>1, <3>3 DEF RoutingInv
    <2> QED  BY <2>2, <2>3, <2>4, <2>5, <2>6 DEF Next
  <1> QED  BY <1>1, <1>2, TypeInvariant, PTL DEF Spec

\* A packet of a stream apart from the others finds the other end of its stream.
THEOREM ReachesOwnRequestAlways == Spec => []ReachesOwnRequest
  <1>1. TypeOK /\ RoutingInv => ReachesOwnRequest
    <2> SUFFICES ASSUME TypeOK, RoutingInv, NEW p \in msgs, Apart(p.from[1])
                 PROVE  HasRequest(p) /\ RequestFor(p) = Far(p.from)
      BY DEF ReachesOwnRequest
    <2>1. p.from[1] \notin answers
      BY DEF RoutingInv, ApartPackets
    <2> QED  BY <2>1, FindsOwn DEF RoutingInv
  <1> QED  BY <1>1, TypeInvariant, RoutingInvariant, PTL

\* Content that is handed on came in the stream of the request.
THEOREM HandedUnderOwnKeysAlways == Spec => []HandedUnderOwnKeys
  <1>1. RoutingInv => HandedUnderOwnKeys
    BY DEF RoutingInv
  <1> QED  BY <1>1, RoutingInvariant, PTL

\* A writer counts only chunks of its own stream as acknowledged.
THEOREM AcksAreOwnAlways == Spec => []AcksAreOwn
  <1>1. RoutingInv => AcksAreOwn
    BY DEF RoutingInv, ApartRequests, AcksAreOwn
  <1> QED  BY <1>1, RoutingInvariant, PTL

----------------------------------------------------------------------------
(* Prefixes: what is written and what is read.                             *)

Byte == 0 .. 2 * Base - 1

\* The quotient is less, the remainder a digit.
LEMMA Quotients ==
  ASSUME NEW n \in Nat
  PROVE  /\ n \div Base \in Nat /\ n % Base \in 0 .. Base - 1
         /\ n = Base * (n \div Base) + (n % Base)
         /\ n >= Base => n \div Base < n
  <1>1. Base \in Nat /\ Base > 1
    BY BaseAssumption
  <1>2. n \div Base \in Int /\ n % Base \in 0 .. Base - 1 /\ n = Base * (n \div Base) + (n % Base)
    BY <1>1
  <1> DEFINE q == n \div Base
             r == n % Base
  <1> HIDE DEF q, r
  <1>3. q \in Int /\ r \in 0 .. Base - 1 /\ n = Base * q + r
    BY <1>2 DEF q, r
  <1>4. q >= 0
    <2> SUFFICES ASSUME q <= -1 PROVE FALSE
      BY <1>3
    <2>1. Base * q <= -Base
      BY <1>1, <1>3
    <2> QED  BY <1>1, <1>3, <2>1
  <1>5. ASSUME n >= Base PROVE q < n
    <2>1. CASE q = 0
      BY <1>1, <1>5, <2>1
    <2>2. CASE q >= 1
      <3> DEFINE m == Base * q
      <3>1. m \in Int /\ m >= 2 * q
        BY <1>1, <1>3, <2>2
      <3>2. n = m + r
        BY <1>3
      <3> HIDE DEF m
      <3> QED  BY <1>3, <2>2, <3>1, <3>2
    <2> QED  BY <1>3, <1>4, <2>1, <2>2
  <1> QED  BY <1>3, <1>4, <1>5 DEF q, r

LEMMA DigitsStep ==
  ASSUME NEW n \in Nat
  PROVE  /\ Digits[n] \in Seq(Byte)
         /\ Digits[n] = IF n < Base THEN <<n>> ELSE <<Base + (n % Base)>> \o Digits[n \div Base]
  <1> DEFINE V == Seq(Byte)
             Follows(x, f) == IF x < Base THEN <<x>> ELSE <<Base + (x % Base)>> \o f[x \div Base]
             M == [x \in Nat |-> x]
             G == [p \in Nat \X [Nat -> V] |-> Follows(p[1], p[2])]
  <1>1. M \in [Nat -> Nat] /\ <<>> \in V
    OBVIOUS
  <1>2. ASSUME NEW x \in Nat, NEW f \in [Nat -> V] PROVE Follows(x, f) \in V /\ G[<<x, f>>] = Follows(x, f)
    <2> DEFINE q == x \div Base
               r == x % Base
    <2>1. q \in Nat /\ r \in 0 .. Base - 1
      BY Quotients
    <2>2. x < Base => x \in Byte
      BY BaseAssumption DEF Byte
    <2>3. Base + r \in Byte
      <3> HIDE DEF r
      <3> QED  BY <2>1, BaseAssumption DEF Byte
    <2>4. f[q] \in V
      BY <2>1
    <2>5. G[<<x, f>>] = Follows(x, f)
      OBVIOUS
    <2>6. Follows(x, f) = IF x < Base THEN <<x>> ELSE <<Base + r>> \o f[q]
      OBVIOUS
    <2> HIDE DEF G, Follows, q, r
    <2>7. Follows(x, f) \in V
      BY <2>2, <2>3, <2>4, <2>6
    <2> QED  BY <2>5, <2>7
  <1>3. \A x \in Nat : \A f, g \in [Nat -> V] :
          (\A y \in Nat : M[y] < M[x] => f[y] = g[y]) => G[<<x, f>>] = G[<<x, g>>]
    <2> SUFFICES ASSUME NEW x \in Nat, NEW f \in [Nat -> V], NEW g \in [Nat -> V],
                        \A y \in Nat : M[y] < M[x] => f[y] = g[y]
                 PROVE  G[<<x, f>>] = G[<<x, g>>]
      OBVIOUS
    <2>0. G[<<x, f>>] = Follows(x, f) /\ G[<<x, g>>] = Follows(x, g)
      <3> HIDE DEF G, Follows
      <3> QED  BY <1>2
    <2> HIDE DEF G
    <2>1. CASE x < Base
      BY <2>0, <2>1
    <2>2. CASE ~ (x < Base)
      <3>1. x \div Base \in Nat /\ x \div Base < x
        <4>1. x >= Base
          BY <2>2, BaseAssumption
        <4> QED  BY <4>1, Quotients
      <3>2. M[x \div Base] < M[x]
        BY <3>1
      <3>3. f[x \div Base] = g[x \div Base]
        BY <3>1, <3>2
      <3> QED  BY <1>2, <3>3
    <2> QED  BY <2>1, <2>2
  <1>4. G \in [Nat \X [Nat -> V] -> V]
    BY <1>2
  <1> HIDE DEF M, G, V
  <1>5. PICK f \in [Nat -> V] : Computes(f, Nat, G)
    <2>1. Recursive(Nat, V, M, G)
      BY <1>1, <1>3, <1>4 DEF Recursive
    <2> QED  BY <1>1, <2>1, RecursionExists
  <1>6. f = [x \in Nat |-> Follows(x, f)]
    BY <1>2, <1>5 DEF Computes
  <1> DEFINE d == CHOOSE d : d = [x \in Nat |-> Follows(x, d)]
  <1>7. Digits = d
    BY DEF Digits
  <1>8. d = [x \in Nat |-> Follows(x, d)]
    BY <1>6
  <1>9. \A x \in Nat : d[x] = Follows(x, d)
    BY <1>8
  <1> HIDE DEF d
  <1>10. ASSUME NEW x \in Nat, \A y \in Nat : M[y] < M[x] => d[y] \in V
         PROVE  d[x] \in V
    <2>1. CASE x < Base
      <3>1. x \in Byte
        BY <2>1, BaseAssumption DEF Byte
      <3>2. d[x] = <<x>>
        BY <1>9, <2>1
      <3> QED  BY <3>1, <3>2 DEF V
    <2>2. CASE ~ (x < Base)
      <3> DEFINE q == x \div Base
                 r == x % Base
      <3>1. q \in Nat /\ M[q] < M[x] /\ r \in 0 .. Base - 1
        <4>1. x >= Base
          BY <2>2, BaseAssumption
        <4> QED  BY <4>1, Quotients DEF M
      <3>2. d[x] = <<Base + r>> \o d[q]
        BY <1>9, <2>2
      <3> HIDE DEF q, r
      <3>3. Base + r \in Byte
        BY <3>1, BaseAssumption DEF Byte
      <3>4. d[q] \in V
        BY <1>10, <3>1
      <3> QED  BY <3>2, <3>3, <3>4 DEF V
    <2> QED  BY <2>1, <2>2
  <1>11. d[n] \in V
    <2> DEFINE T == {x \in Nat : d[x] \in V}
    <2>1. Inductive(Nat, T, M)
      BY <1>1, <1>10 DEF Inductive
    <2> HIDE DEF T
    <2>2. Nat \subseteq T
      BY <1>1, <2>1, MeasureInduction
    <2> QED  BY <2>2 DEF T
  <1> QED  BY <1>7, <1>9, <1>11 DEF V, Follows

\* The remainder of a digit, with or without its high bit.
LEMMA Remainders ==
  ASSUME NEW r \in 0 .. Base - 1
  PROVE  r % Base = r /\ (Base + r) % Base = r
  <1>1. Base \in Nat /\ Base > 1
    BY BaseAssumption
  <1>2. ASSUME NEW n \in Nat, NEW p \in {0, 1}, n = Base * p + r PROVE n % Base = r
    <2> DEFINE q == n \div Base
               m == n % Base
    <2>1. q \in Nat /\ m \in 0 .. Base - 1 /\ n = Base * q + m
      BY Quotients
    <2> HIDE DEF q, m
    <2>2. q = p
      <3>1. CASE q > p
        <4>1. Base * q >= Base * p + Base
          <5>1. Base * q = Base * p + Base * (q - p)
            BY <1>1, <2>1
          <5>2. Base * (q - p) >= Base
            BY <1>1, <2>1, <3>1
          <5> QED  BY <1>1, <2>1, <5>1, <5>2
        <4> QED  BY <1>1, <1>2, <2>1, <4>1
      <3>2. CASE q < p
        <4>1. q = 0 /\ p = 1
          BY <2>1, <3>2
        <4> QED  BY <1>1, <1>2, <2>1, <4>1
      <3> QED  BY <2>1, <3>1, <3>2
    <2>3. m = r
      BY <1>1, <1>2, <2>1, <2>2
    <2> QED  BY <2>3 DEF m
  <1>3. r \in Nat /\ r = Base * 0 + r /\ Base + r \in Nat /\ Base + r = Base * 1 + r
    BY <1>1
  <1>4. r % Base = r
    BY <1>2, <1>3
  <1>5. (Base + r) % Base = r
    BY <1>2, <1>3
  <1> QED  BY <1>4, <1>5

LEMMA ProductType == ASSUME NEW h \in Nat, NEW v \in Nat PROVE h + Base * v \in Nat
  <1>1. Base * v \in Nat
    BY BaseAssumption
  <1> DEFINE m == Base * v
  <1> HIDE DEF m
  <1>2. m \in Nat => h + m \in Nat
    OBVIOUS
  <1> QED  BY <1>1, <1>2 DEF m

LEMMA ValueStep ==
  ASSUME NEW s \in Seq(Byte)
  PROVE  /\ Value[s] \in Nat
         /\ Value[s] = IF s = <<>> THEN 0 ELSE (Head(s) % Base) + Base * Value[Tail(s)]
  <1> DEFINE S == Seq(Byte)
             Follows(x, f) == IF x = <<>> THEN 0 ELSE (Head(x) % Base) + Base * f[Tail(x)]
             M == [x \in S |-> Len(x)]
             G == [p \in S \X [S -> Nat] |-> Follows(p[1], p[2])]
  <1>1. M \in [S -> Nat] /\ \A x \in S : M[x] = Len(x)
    OBVIOUS
  <1>2. ASSUME NEW x \in S, x # <<>>
        PROVE  Head(x) % Base \in Nat /\ Tail(x) \in S /\ M[Tail(x)] < M[x]
    <2>1. Head(x) \in Byte /\ Tail(x) \in S /\ Len(Tail(x)) = Len(x) - 1 /\ Len(x) \in Nat
      BY <1>2, HeadTailProperties
    <2>2. Head(x) \in Nat
      BY <2>1, BaseAssumption DEF Byte
    <2>3. Head(x) % Base \in Nat
      <3> DEFINE h == Head(x)
                 r == h % Base
      <3>1. r \in 0 .. Base - 1
        BY <2>2, Quotients
      <3> HIDE DEF r
      <3>2. r \in Nat
        BY <3>1, BaseAssumption
      <3> QED  BY <3>2 DEF r
    <2> QED  BY <1>1, <2>1, <2>3
  <1>3. ASSUME NEW x \in S, NEW f \in [S -> Nat] PROVE Follows(x, f) \in Nat /\ G[<<x, f>>] = Follows(x, f)
    <2>1. G[<<x, f>>] = Follows(x, f)
      OBVIOUS
    <2>2. CASE x = <<>>
      BY <2>1, <2>2
    <2>3. CASE x # <<>>
      <3> DEFINE h == Head(x) % Base
                 v == f[Tail(x)]
      <3>1. h \in Nat /\ v \in Nat
        BY <1>2, <2>3
      <3>2. Follows(x, f) = h + Base * v
        BY <2>3
      <3> HIDE DEF h, v, Follows, G
      <3>3. Follows(x, f) \in Nat
        BY <3>1, <3>2, ProductType
      <3> QED  BY <2>1, <3>3
    <2> QED  BY <2>2, <2>3
  <1>4. \A x \in S : \A f, g \in [S -> Nat] :
          (\A y \in S : M[y] < M[x] => f[y] = g[y]) => G[<<x, f>>] = G[<<x, g>>]
    <2> SUFFICES ASSUME NEW x \in S, NEW f \in [S -> Nat], NEW g \in [S -> Nat],
                        \A y \in S : M[y] < M[x] => f[y] = g[y]
                 PROVE  G[<<x, f>>] = G[<<x, g>>]
      OBVIOUS
    <2>1. CASE x = <<>>
      BY <1>3, <2>1
    <2>2. CASE x # <<>>
      <3>1. f[Tail(x)] = g[Tail(x)]
        BY <1>2, <2>2
      <3> QED  BY <1>3, <3>1
    <2> QED  BY <2>1, <2>2
  <1>5. G \in [S \X [S -> Nat] -> Nat]
    BY <1>3
  <1> HIDE DEF M, G
  <1>6. PICK f \in [S -> Nat] : Computes(f, S, G)
    <2>1. Recursive(S, Nat, M, G) /\ 0 \in Nat
      BY <1>1, <1>4, <1>5 DEF Recursive
    <2> HIDE DEF S
    <2> QED  BY <2>1, RecursionExists
  <1>7. f = [x \in S |-> Follows(x, f)]
    BY <1>3, <1>6 DEF Computes
  <1> DEFINE d == CHOOSE d : d = [x \in S |-> Follows(x, d)]
  <1>8. Value = d
    BY DEF Value, Byte
  <1>9. d = [x \in S |-> Follows(x, d)]
    BY <1>7
  <1>10. \A x \in S : d[x] = Follows(x, d)
    BY <1>9
  <1> HIDE DEF d
  <1>11. ASSUME NEW x \in S, \A y \in S : M[y] < M[x] => d[y] \in Nat
         PROVE  d[x] \in Nat
    <2>1. CASE x = <<>>
      <3>1. d[x] = 0
        BY <1>10, <2>1
      <3> QED  BY <3>1
    <2>2. CASE x # <<>>
      <3> DEFINE h == Head(x) % Base
                 v == d[Tail(x)]
      <3>1. h \in Nat /\ v \in Nat
        BY <1>2, <1>11, <2>2
      <3>2. d[x] = h + Base * v
        BY <1>10, <2>2
      <3> HIDE DEF h, v
      <3> QED  BY <3>1, <3>2, ProductType
    <2> QED  BY <2>1, <2>2
  <1>12. d[s] \in Nat
    <2> DEFINE T == {x \in S : d[x] \in Nat}
    <2>1. Inductive(S, T, M)
      BY <1>1, <1>11 DEF Inductive
    <2> HIDE DEF T, S
    <2>2. S \subseteq T
      BY <2>1, MeasureInduction
    <2> QED  BY <2>2 DEF T, S
  <1> QED  BY <1>8, <1>10, <1>12 DEF Follows

\* The length n as it is written in front: high bits but for the last digit, and
\* what is read is what was written.
Writes(d, n) ==
  /\ d \in Seq(Byte) /\ Len(d) >= 1 /\ d[Len(d)] < Base
  /\ \A i \in 1 .. Len(d) - 1 : d[i] >= Base
  /\ Value[d] = n

LEMMA DigitsProperties == ASSUME NEW n \in Nat PROVE Writes(Digits[n], n)
  <1> DEFINE T == {x \in Nat : Writes(Digits[x], x)}
             M == [x \in Nat |-> x]
  <1>0. Base \in Nat /\ Base > 1
    BY BaseAssumption
  <1>1. ASSUME NEW x \in Nat, \A y \in Nat : y < x => Writes(Digits[y], y)
        PROVE  Writes(Digits[x], x)
    <2>1. CASE x < Base
      <3> DEFINE d == <<x>>
      <3>1. Digits[x] = d
        BY <2>1, DigitsStep
      <3>2. x \in Byte /\ x \in 0 .. Base - 1
        BY <1>0, <2>1 DEF Byte
      <3>3. d \in Seq(Byte) /\ Len(d) = 1 /\ d[1] = x /\ d # <<>> /\ Head(d) = x /\ Tail(d) = <<>>
        BY <3>2
      <3> HIDE DEF d
      <3>4. Value[<<>>] = 0
        BY ValueStep, EmptySeq
      <3>5. Value[d] = (x % Base) + Base * 0
        BY <3>3, <3>4, ValueStep
      <3>6. Value[d] = x
        BY <1>0, <3>2, <3>5, Remainders
      <3> QED  BY <2>1, <3>1, <3>3, <3>6 DEF Writes
    <2>2. CASE ~ (x < Base)
      <3> DEFINE q == x \div Base
                 r == x % Base
                 e == Digits[q]
                 b == Base + r
                 d == <<b>> \o e
      <3>1. q \in Nat /\ r \in 0 .. Base - 1 /\ x = Base * q + r /\ q < x
        <4>1. x >= Base
          BY <1>0, <2>2
        <4> QED  BY <4>1, Quotients
      <3>2. Digits[x] = d
        BY <2>2, DigitsStep
      <3>3. Writes(e, q)
        BY <1>1, <3>1
      <3>4. b \in Byte /\ b % Base = r
        <4> HIDE DEF r
        <4> QED  BY <1>0, <3>1, Remainders DEF Byte
      <3> HIDE DEF q, r, e, b
      <3>5. /\ e \in Seq(Byte) /\ Len(e) >= 1 /\ e[Len(e)] < Base /\ Len(e) \in Nat
            /\ \A i \in 1 .. Len(e) - 1 : e[i] >= Base
            /\ Value[e] = q
        BY <3>3 DEF Writes
      <3>6. <<b>> \in Seq(Byte) /\ Len(<<b>>) = 1 /\ <<b>>[1] = b
        BY <3>4
      <3>7. /\ d \in Seq(Byte) /\ Len(d) = 1 + Len(e)
            /\ \A i \in 1 .. 1 + Len(e) : d[i] = IF i <= 1 THEN b ELSE e[i - 1]
        BY <3>5, <3>6, ConcatProperties
      <3>8. Head(d) = b /\ Tail(d) = e /\ d # <<>>
        <4> HIDE DEF d
        <4>1. d # <<>> /\ d[1] = b
          BY <3>5, <3>7
        <4>2. /\ Tail(d) \in Seq(Byte) /\ Len(Tail(d)) = Len(e)
              /\ \A i \in 1 .. Len(e) : Tail(d)[i] = d[i + 1]
          BY <3>5, <3>7, <4>1, HeadTailProperties
        <4>3. \A i \in 1 .. Len(e) : d[i + 1] = e[i]
          <5> TAKE i \in 1 .. Len(e)
          <5>1. i + 1 \in 1 .. 1 + Len(e) /\ ~ (i + 1 <= 1) /\ (i + 1) - 1 = i
            BY <3>5
          <5> QED  BY <3>7, <5>1
        <4>4. Tail(d) = e
          BY <3>5, <4>2, <4>3, SeqEqual
        <4> QED  BY <4>1, <4>4
      <3> HIDE DEF d
      <3>9. d[Len(d)] < Base
        <4>1. Len(d) \in 1 .. 1 + Len(e) /\ ~ (Len(d) <= 1) /\ Len(d) - 1 = Len(e)
          BY <3>5, <3>7
        <4>2. d[Len(d)] = e[Len(e)]
          BY <3>7, <4>1
        <4> QED  BY <3>5, <4>2
      <3>10. ASSUME NEW i \in 1 .. Len(d) - 1 PROVE d[i] >= Base
        <4>1. CASE i = 1
          <5>1. d[1] = b /\ b >= Base
            BY <1>0, <3>1, <3>5, <3>7 DEF b
          <5> QED  BY <4>1, <5>1
        <4>2. CASE i # 1
          <5>1. i \in 1 .. 1 + Len(e) /\ ~ (i <= 1) /\ i - 1 \in 1 .. Len(e) - 1
            BY <3>5, <3>7, <4>2
          <5> QED  BY <3>5, <3>7, <5>1
        <4> QED  BY <4>1, <4>2
      <3>11. Value[d] = r + Base * q
        BY <3>4, <3>5, <3>7, <3>8, ValueStep
      <3>12. Value[d] = x
        <4> DEFINE m == Base * q
        <4>1. m \in Int /\ x = m + r /\ Value[d] = r + m
          BY <1>0, <3>1, <3>11
        <4> HIDE DEF m
        <4> QED  BY <3>1, <4>1
      <3> QED  BY <3>2, <3>5, <3>7, <3>9, <3>10, <3>12 DEF Writes
    <2> QED  BY <2>1, <2>2
  <1>2. Inductive(Nat, T, M)
    BY <1>1 DEF Inductive
  <1> HIDE DEF T, M
  <1>3. Nat \subseteq T
    BY <1>2, MeasureInduction
  <1> QED  BY <1>3 DEF T

\* The parts of a concatenation.
LEMMA Parts ==
  ASSUME NEW S, NEW a \in Seq(S), NEW r \in Seq(S)
  PROVE  SubSeq(a \o r, 1, Len(a)) = a /\ SubSeq(a \o r, Len(a) + 1, Len(a \o r)) = r
  <1> DEFINE s == a \o r
             m == Len(a)
             n == Len(r)
  <1>1. m \in Nat /\ n \in Nat
    OBVIOUS
  <1>2. /\ s \in Seq(S) /\ Len(s) = m + n
        /\ \A i \in 1 .. m + n : s[i] = IF i <= m THEN a[i] ELSE r[i - m]
    BY ConcatProperties
  <1> HIDE DEF s, m, n
  <1>3. \A i \in 1 .. m + n : s[i] \in S
    BY <1>1, <1>2
  <1>4. SubSeq(s, 1, m) = a
    <2>1. \A i \in 1 .. m : s[i] \in S /\ s[i] = a[i]
      BY <1>1, <1>2, <1>3
    <2>2. /\ SubSeq(s, 1, m) \in Seq(S) /\ Len(SubSeq(s, 1, m)) = m
          /\ \A i \in 1 .. m : SubSeq(s, 1, m)[i] = s[i]
      <3>1. /\ SubSeq(s, 1, m) \in Seq(S)
            /\ Len(SubSeq(s, 1, m)) = IF 1 <= m THEN m - 1 + 1 ELSE 0
            /\ \A i \in 1 .. m - 1 + 1 : SubSeq(s, 1, m)[i] = s[1 + i - 1]
        BY <1>1, <2>1, SubSeqProperties
      <3>2. m - 1 + 1 = m /\ (~ (1 <= m) => m = 0) /\ \A i \in 1 .. m : 1 + i - 1 = i
        BY <1>1
      <3> QED  BY <3>1, <3>2
    <2>3. \A i \in 1 .. m : SubSeq(s, 1, m)[i] = a[i]
      BY <2>1, <2>2
    <2> QED  BY <2>2, <2>3, SeqEqual DEF m
  <1>5. SubSeq(s, m + 1, m + n) = r
    <2>1. \A i \in m + 1 .. m + n : s[i] \in S
      BY <1>1, <1>3
    <2>2. m + 1 \in Int /\ m + n \in Int
      BY <1>1
    <2>3. /\ SubSeq(s, m + 1, m + n) \in Seq(S)
          /\ Len(SubSeq(s, m + 1, m + n)) = IF m + 1 <= m + n THEN (m + n) - (m + 1) + 1 ELSE 0
          /\ \A i \in 1 .. (m + n) - (m + 1) + 1 : SubSeq(s, m + 1, m + n)[i] = s[(m + 1) + i - 1]
      BY <2>1, <2>2, SubSeqProperties
    <2>4. (m + n) - (m + 1) + 1 = n /\ (~ (m + 1 <= m + n) => n = 0)
      BY <1>1
    <2>5. \A i \in 1 .. n : s[(m + 1) + i - 1] = r[i]
      <3> TAKE i \in 1 .. n
      <3>1. (m + 1) + i - 1 = m + i /\ m + i \in 1 .. m + n /\ ~ (m + i <= m) /\ (m + i) - m = i
        BY <1>1
      <3> QED  BY <1>2, <3>1
    <2> DEFINE t == SubSeq(s, m + 1, m + n)
    <2>6. t \in Seq(S) /\ Len(t) = n /\ \A i \in 1 .. n : t[i] = r[i]
      BY <2>3, <2>4, <2>5
    <2> HIDE DEF t
    <2>7. t = r
      BY <2>6, SeqEqual DEF n
    <2> QED  BY <2>7 DEF t
  <1> QED  BY <1>2, <1>4, <1>5 DEF s, m

LEMMA MinOfInitial ==
  ASSUME NEW S \in SUBSET Int, NEW x \in S, \A y \in S : x <= y PROVE Min(S) = x
  <1>1. Min(S) \in S /\ \A y \in S : Min(S) <= y
    BY DEF Min
  <1>2. Min(S) <= x /\ x <= Min(S) /\ x \in Int /\ Min(S) \in Int
    BY <1>1
  <1> HIDE DEF Min
  <1> QED  BY <1>2

\* The end of the prefix in front is the first byte without the high bit.
LEMMA PrefixEnds ==
  ASSUME NEW b \in Seq(Byte), NEW k \in 1 .. Len(b), b[k] < Base
  PROVE  /\ ParsePrefix(b).offset \in 1 .. Len(b) /\ ParsePrefix(b).length \in Nat
         /\ (\A i \in 1 .. k - 1 : b[i] >= Base) =>
              ParsePrefix(b) = [offset |-> k, length |-> Value[SubSeq(b, 1, k)]]
  <1> DEFINE S == {i \in DOMAIN b : b[i] < Base}
             o == Min(S)
  <1>1. DOMAIN b = 1 .. Len(b) /\ Len(b) \in Nat
    OBVIOUS
  <1>2. ParsePrefix(b) = [offset |-> o, length |-> Value[SubSeq(b, 1, o)]]
    BY DEF ParsePrefix
  <1>3. S \subseteq 1 .. Len(b) /\ k \in S
    BY <1>1
  <1>4. o \in S
    <2>1. PICK x \in S : \A y \in S : x <= y
      <3>1. S \in SUBSET Nat /\ S # {}
        BY <1>1, <1>3
      <3> HIDE DEF S
      <3> QED  BY <3>1, LeastNumber
    <2> QED  BY <2>1 DEF Min
  <1>5. Value[SubSeq(b, 1, o)] \in Nat
    <2>1. \A i \in 1 .. Len(b) : b[i] \in Byte
      BY <1>1
    <2> HIDE DEF o
    <2>2. o \in 1 .. Len(b) /\ o \in Int
      BY <1>1, <1>3, <1>4
    <2>3. \A i \in 1 .. o : b[i] \in Byte
      BY <1>1, <2>1, <2>2
    <2>4. SubSeq(b, 1, o) \in Seq(Byte)
      BY <2>2, <2>3, SubSeqProperties
    <2> QED  BY <2>4, ValueStep
  <1>6. ASSUME \A i \in 1 .. k - 1 : b[i] >= Base PROVE o = k
    <2>1. \A y \in S : k <= y
      <3> SUFFICES ASSUME NEW y \in S, y < k PROVE FALSE
        BY <1>1, <1>3
      <3>1. y \in 1 .. k - 1 /\ b[y] < Base /\ b[y] \in Int
        BY <1>1, <1>3, BaseAssumption DEF Byte
      <3> QED  BY <1>6, <3>1, BaseAssumption
    <2>2. S \subseteq Int
      BY <1>1, <1>3
    <2> HIDE DEF S
    <2> QED  BY <1>3, <2>1, <2>2, MinOfInitial
  <1> HIDE DEF o, S
  <1> QED  BY <1>2, <1>3, <1>4, <1>5, <1>6

LEMMA MinOfTwo ==
  ASSUME NEW a \in Int, NEW b \in Int PROVE Min({a, b}) = IF a <= b THEN a ELSE b
  <1> DEFINE S == {a, b}
  <1>1. S \in SUBSET Int /\ a \in S /\ b \in S /\ \A y \in S : y = a \/ y = b
    OBVIOUS
  <1> HIDE DEF S
  <1>2. CASE a <= b
    <2>1. \A y \in S : a <= y
      BY <1>1, <1>2
    <2>2. Min(S) = a
      BY <1>1, <2>1, MinOfInitial
    <2> QED  BY <1>2, <2>2 DEF S
  <1>3. CASE ~ (a <= b)
    <2>1. \A y \in S : b <= y
      BY <1>1, <1>3
    <2>2. Min(S) = b
      BY <1>1, <2>1, MinOfInitial
    <2> QED  BY <1>3, <2>2 DEF S
  <1> QED  BY <1>2, <1>3

LEMMA SliceType ==
  ASSUME NEW S, NEW s \in Seq(S), NEW m \in Nat \ {0}, NEW n \in Int, n <= Len(s)
  PROVE  /\ SubSeq(s, m, n) \in Seq(S)
         /\ Len(SubSeq(s, m, n)) = IF m <= n THEN n - m + 1 ELSE 0
  <1>1. \A i \in m .. n : s[i] \in S
    OBVIOUS
  <1> QED  BY <1>1, SubSeqProperties

Content(x) == LET p == ParsePrefix(x)
              IN SubSeq(x, p.offset + 1, Min({p.offset + p.length, Len(x)}))
Rest(x) == LET p == ParsePrefix(x) IN SubSeq(x, p.offset + p.length + 1, Len(x))
Ended(x) == \E i \in DOMAIN x : ~ (x[i] >= Base)
Many(x) == LET p == ParsePrefix(x) IN Len(x) > p.offset + p.length

\* One content is taken off the front.
LEMMA OneDropped ==
  ASSUME NEW x \in Seq(Byte), Ended(x)
  PROVE  /\ Content(x) \in Seq(Byte)
         /\ Many(x) => Rest(x) \in Seq(Byte) /\ Len(Rest(x)) < Len(x)
  <1> DEFINE p == ParsePrefix(x)
             o == p.offset
             l == p.length
             n == Min({o + l, Len(x)})
  <1>1. o \in 1 .. Len(x) /\ l \in Nat
    <2>1. PICK k \in DOMAIN x : ~ (x[k] >= Base)
      BY DEF Ended
    <2>2. k \in 1 .. Len(x) /\ x[k] \in Int
      BY BaseAssumption DEF Byte
    <2>3. x[k] < Base
      BY <2>1, <2>2, BaseAssumption
    <2> QED  BY <2>2, <2>3, PrefixEnds
  <1>2. Len(x) \in Nat
    OBVIOUS
  <1>3. Content(x) = SubSeq(x, o + 1, n) /\ Rest(x) = SubSeq(x, o + l + 1, Len(x)) /\ (Many(x) <=> Len(x) > o + l)
    BY DEF Content, Rest, Many
  <1> HIDE DEF p
  <1>4. n \in Int /\ n <= Len(x)
    <2> HIDE DEF o, l
    <2>1. o + l \in Int /\ Len(x) \in Int
      BY <1>1, <1>2
    <2>2. n = IF o + l <= Len(x) THEN o + l ELSE Len(x)
      BY <2>1, MinOfTwo
    <2> HIDE DEF n
    <2> QED  BY <2>1, <2>2
  <1> HIDE DEF n, o, l
  <1>5. Content(x) \in Seq(Byte)
    BY <1>1, <1>2, <1>3, <1>4, SliceType
  <1>6. ASSUME Many(x) PROVE Rest(x) \in Seq(Byte) /\ Len(Rest(x)) < Len(x)
    <2>1. o + l + 1 \in Nat \ {0} /\ o + l + 1 <= Len(x) /\ Len(x) \in Int
      BY <1>1, <1>2, <1>3, <1>6
    <2>2. /\ SubSeq(x, o + l + 1, Len(x)) \in Seq(Byte)
          /\ Len(SubSeq(x, o + l + 1, Len(x))) = Len(x) - (o + l + 1) + 1
      BY <2>1, SliceType
    <2>3. Len(x) - (o + l + 1) + 1 < Len(x)
      BY <1>1, <1>2
    <2> QED  BY <1>3, <2>2, <2>3
  <1> QED  BY <1>5, <1>6

LEMMA DropStep ==
  ASSUME NEW s \in Seq(Byte)
  PROVE  /\ DropPrefixes[s] \in Seq(Seq(Byte))
         /\ DropPrefixes[s] = IF ~ Ended(s) THEN <<>>
                              ELSE IF Many(s) THEN <<Content(s)>> \o DropPrefixes[Rest(s)]
                              ELSE <<Content(s)>>
  <1> DEFINE S == Seq(Byte)
             V == Seq(Seq(Byte))
             Follows(x, f) == LET p    == ParsePrefix(x)
                             last == p.offset + p.length
                             content == SubSeq(x, p.offset + 1, Min({last, Len(x)})) IN
                         IF \A i \in DOMAIN x : x[i] >= Base THEN <<>>
                         ELSE IF Len(x) > last
                         THEN <<content>> \o f[SubSeq(x, last + 1, Len(x))]
                         ELSE <<content>>
             One(x, f) == IF ~ Ended(x) THEN <<>>
                          ELSE IF Many(x) THEN <<Content(x)>> \o f[Rest(x)]
                          ELSE <<Content(x)>>
             M == [x \in S |-> Len(x)]
             G == [p \in S \X [S -> V] |-> One(p[1], p[2])]
  <1>0. ASSUME NEW x, NEW f PROVE Follows(x, f) = One(x, f)
    BY DEF Ended, Many, Content, Rest
  <1>1. M \in [S -> Nat] /\ \A x \in S : M[x] = Len(x)
    OBVIOUS
  <1>2. ASSUME NEW x \in S, Ended(x)
        PROVE  Content(x) \in S /\ (Many(x) => Rest(x) \in S /\ M[Rest(x)] < M[x])
    <2> HIDE DEF M
    <2> QED  BY <1>1, <1>2, OneDropped
  <1>3. ASSUME NEW x \in S, NEW f,
               Ended(x) /\ Many(x) => f[Rest(x)] \in V
        PROVE  One(x, f) \in V
    <2>1. CASE ~ Ended(x)
      BY <2>1
    <2>2. CASE Ended(x) /\ ~ Many(x)
      <3>1. One(x, f) = <<Content(x)>> /\ Content(x) \in S
        BY <1>2, <2>2
      <3> HIDE DEF One
      <3> QED  BY <3>1
    <2>3. CASE Ended(x) /\ Many(x)
      <3>1. One(x, f) = <<Content(x)>> \o f[Rest(x)] /\ Content(x) \in S /\ f[Rest(x)] \in V
        BY <1>2, <1>3, <2>3
      <3> HIDE DEF One
      <3>2. <<Content(x)>> \in V
        BY <3>1
      <3> QED  BY <3>1, <3>2, ConcatProperties
    <2> QED  BY <2>1, <2>2, <2>3
  <1>4. ASSUME NEW x \in S, NEW f \in [S -> V] PROVE One(x, f) \in V /\ G[<<x, f>>] = One(x, f)
    <2>1. G[<<x, f>>] = One(x, f)
      OBVIOUS
    <2>2. Ended(x) /\ Many(x) => f[Rest(x)] \in V
      BY <1>2
    <2> HIDE DEF One, G
    <2>3. One(x, f) \in V
      BY <1>3, <2>2
    <2> QED  BY <2>1, <2>3
  <1>5. \A x \in S : \A f, g \in [S -> V] :
          (\A y \in S : M[y] < M[x] => f[y] = g[y]) => G[<<x, f>>] = G[<<x, g>>]
    <2> SUFFICES ASSUME NEW x \in S, NEW f \in [S -> V], NEW g \in [S -> V],
                        \A y \in S : M[y] < M[x] => f[y] = g[y]
                 PROVE  G[<<x, f>>] = G[<<x, g>>]
      OBVIOUS
    <2>1. Ended(x) /\ Many(x) => f[Rest(x)] = g[Rest(x)]
      BY <1>2
    <2>2. One(x, f) = One(x, g)
      BY <2>1
    <2> HIDE DEF One, G
    <2> QED  BY <1>4, <2>2
  <1>6. G \in [S \X [S -> V] -> V]
    BY <1>4
  <1> HIDE DEF M, G, V
  <1>7. PICK f \in [S -> V] : Computes(f, S, G)
    <2> HIDE DEF S
    <2>1. Recursive(S, V, M, G)
      BY <1>1, <1>5, <1>6 DEF Recursive
    <2>2. <<>> \in V
      BY DEF V
    <2> QED  BY <2>1, <2>2, RecursionExists
  <1> HIDE DEF Follows, One
  <1>8. f = [x \in S |-> Follows(x, f)]
    BY <1>0, <1>4, <1>7 DEF Computes
  <1> DEFINE d == CHOOSE d : d = [x \in S |-> Follows(x, d)]
  <1>9. DropPrefixes = d
    BY DEF DropPrefixes, Byte, Follows
  <1>10. d = [x \in S |-> Follows(x, d)]
    BY <1>8
  <1>11. \A x \in S : d[x] = One(x, d)
    BY <1>0, <1>10
  <1> HIDE DEF d
  <1>12. ASSUME NEW x \in S, \A y \in S : M[y] < M[x] => d[y] \in V
         PROVE  d[x] \in V
    <2>1. Ended(x) /\ Many(x) => d[Rest(x)] \in V
      BY <1>2, <1>12
    <2>2. One(x, d) \in V
      BY <1>3, <2>1
    <2> QED  BY <1>11, <2>2
  <1>13. d[s] \in V
    <2> DEFINE T == {x \in S : d[x] \in V}
    <2>1. Inductive(S, T, M)
      BY <1>1, <1>12 DEF Inductive
    <2> HIDE DEF T, S
    <2>2. S \subseteq T
      BY <2>1, MeasureInduction
    <2> QED  BY <2>2 DEF T, S
  <1> QED  BY <1>9, <1>11, <1>13 DEF V, One

\* The part in the middle.
LEMMA Middle ==
  ASSUME NEW S, NEW a \in Seq(S), NEW c \in Seq(S), NEW r \in Seq(S)
  PROVE  SubSeq(a \o (c \o r), Len(a) + 1, Len(a) + Len(c)) = c
  <1> DEFINE t == c \o r
             s == a \o t
             m == Len(a)
             k == Len(c)
             n == Len(r)
  <1>1. m \in Nat /\ k \in Nat /\ n \in Nat
    OBVIOUS
  <1>2. /\ t \in Seq(S) /\ Len(t) = k + n
        /\ \A i \in 1 .. k + n : t[i] = IF i <= k THEN c[i] ELSE r[i - k]
    BY ConcatProperties
  <1> HIDE DEF t
  <1>3. /\ s \in Seq(S) /\ Len(s) = m + (k + n)
        /\ \A i \in 1 .. m + (k + n) : s[i] = IF i <= m THEN a[i] ELSE t[i - m]
    <2>1. /\ s \in Seq(S) /\ Len(s) = Len(a) + Len(t)
          /\ \A i \in 1 .. Len(a) + Len(t) : s[i] = IF i <= Len(a) THEN a[i] ELSE t[i - Len(a)]
      <3>1. t \in Seq(S)
        BY <1>2
      <3> QED  BY <3>1, ConcatProperties
    <2> HIDE DEF s
    <2> QED  BY <1>2, <2>1
  <1> HIDE DEF s
  <1> DEFINE u == SubSeq(s, m + 1, m + k)
  <1>4. m + 1 \in Nat \ {0} /\ m + k \in Int /\ m + k <= Len(s)
    BY <1>1, <1>3
  <1>5. \A i \in m + 1 .. m + k : s[i] \in S
    BY <1>1, <1>3
  <1> HIDE DEF m, k, n
  <1>6. /\ u \in Seq(S)
        /\ Len(u) = IF m + 1 <= m + k THEN (m + k) - (m + 1) + 1 ELSE 0
        /\ \A i \in 1 .. (m + k) - (m + 1) + 1 : u[i] = s[(m + 1) + i - 1]
    BY <1>4, <1>5, SubSeqProperties
  <1> HIDE DEF u
  <1>7. Len(u) = k /\ (m + k) - (m + 1) + 1 = k
    BY <1>1, <1>6
  <1>8. \A i \in 1 .. k : u[i] = c[i]
    <2> TAKE i \in 1 .. k
    <2>1. (m + 1) + i - 1 = m + i /\ m + i \in 1 .. m + (k + n) /\ ~ (m + i <= m) /\ (m + i) - m = i
          /\ i \in 1 .. k + n /\ i <= k
      BY <1>1
    <2> QED  BY <1>2, <1>3, <1>6, <1>7, <2>1
  <1> QED  BY <1>6, <1>7, <1>8, SeqEqual DEF u, s, t, m, k

LEMMA ContentDropped ==
  ASSUME NEW c \in Seq(Byte), NEW r \in Seq(Byte)
  PROVE  /\ AttatchPrefix(c) \in Seq(Byte)
         /\ DropPrefixes[AttatchPrefix(c) \o r] = <<c>> \o DropPrefixes[r]
  <1> DEFINE d == Digits[Len(c)]
             k == Len(d)
             h == d \o c
             b == h \o r
             p == ParsePrefix(b)
  <1>1. /\ d \in Seq(Byte) /\ k \in Nat /\ k >= 1 /\ d[k] < Base
        /\ \A i \in 1 .. k - 1 : d[i] >= Base
        /\ Value[d] = Len(c) /\ Len(c) \in Nat /\ Len(r) \in Nat
    BY DigitsProperties DEF Writes
  <1> HIDE DEF d
  <1>2. h \in Seq(Byte) /\ Len(h) = k + Len(c)
    BY <1>1, ConcatProperties
  <1>3. b = d \o (c \o r) /\ c \o r \in Seq(Byte)
    <2>1. c \o r \in Seq(Byte)
      BY ConcatProperties
    <2>2. (d \o c) \o r = d \o (c \o r)
      <3>1. d \in Seq(Byte)
        BY <1>1
      <3> QED  BY <3>1, ConcatAssociative
    <2> QED  BY <2>1, <2>2
  <1>4. b \in Seq(Byte) /\ Len(b) = k + Len(c) + Len(r)
    <2> HIDE DEF h, k
    <2>1. b \in Seq(Byte) /\ Len(b) = Len(h) + Len(r)
      BY <1>2, ConcatProperties
    <2> QED  BY <1>2, <2>1
  <1>5. \A i \in 1 .. k : b[i] = d[i]
    <2>1. \A i \in 1 .. k + Len(c \o r) : (d \o (c \o r))[i] = IF i <= k THEN d[i] ELSE (c \o r)[i - k]
      BY <1>1, <1>3, ConcatProperties
    <2>2. \A i \in 1 .. k : i \in 1 .. k + Len(c \o r) /\ i <= k
      BY <1>1, <1>3
    <2> QED  BY <1>3, <2>1, <2>2
  <1>6. SubSeq(b, 1, k) = d
    BY <1>1, <1>3, Parts
  <1>7. SubSeq(b, k + 1, k + Len(c)) = c
    BY <1>1, <1>3, Middle
  <1>8. SubSeq(b, k + Len(c) + 1, Len(b)) = r
    <2> HIDE DEF h
    <2>1. SubSeq(b, Len(h) + 1, Len(b)) = r
      BY <1>2, Parts
    <2> QED  BY <1>2, <2>1
  <1> HIDE DEF h, b
  <1>9. k \in 1 .. Len(b) /\ DOMAIN b = 1 .. Len(b) /\ b[k] < Base
    BY <1>1, <1>4, <1>5
  <1>10. p = [offset |-> k, length |-> Len(c)]
    <2>1. \A i \in 1 .. k - 1 : b[i] >= Base
      BY <1>1, <1>5
    <2>2. p = [offset |-> k, length |-> Value[SubSeq(b, 1, k)]]
      BY <1>4, <1>9, <2>1, PrefixEnds
    <2> HIDE DEF p
    <2> QED  BY <1>1, <1>6, <2>2
  <1>11. p.offset = k /\ p.length = Len(c)
    <2> HIDE DEF p
    <2> QED  BY <1>10
  <1>12. Ended(b)
    <2>1. b[k] \in Int
      BY <1>4, <1>9, BaseAssumption DEF Byte
    <2> QED  BY <1>9, <2>1, BaseAssumption DEF Ended
  <1> HIDE DEF k
  <1>13. Content(b) = c
    <2>1. Content(b) = SubSeq(b, k + 1, Min({k + Len(c), Len(b)}))
      BY <1>11 DEF Content
    <2>2. k + Len(c) <= Len(b) /\ k + Len(c) \in Int /\ Len(b) \in Int
      BY <1>1, <1>4
    <2>3. Min({k + Len(c), Len(b)}) = k + Len(c)
      BY <2>2, MinOfTwo
    <2> QED  BY <1>7, <2>1, <2>3
  <1>14. Rest(b) = r
    BY <1>8, <1>11 DEF Rest
  <1>15. Many(b) <=> r # <<>>
    <2>1. Many(b) <=> Len(b) > k + Len(c)
      BY <1>11 DEF Many
    <2>2. r # <<>> <=> Len(r) > 0
      BY EmptySeq
    <2> QED  BY <1>1, <1>4, <2>1, <2>2
  <1>16. DropPrefixes[b] = IF r # <<>> THEN <<c>> \o DropPrefixes[r] ELSE <<c>>
    BY <1>4, <1>12, <1>13, <1>14, <1>15, DropStep
  <1>17. r = <<>> => DropPrefixes[r] = <<>>
    <2>1. <<>> \in Seq(Byte) /\ ~ Ended(<<>>)
      BY DEF Ended
    <2> QED  BY <2>1, DropStep
  <1>18. <<c>> \o <<>> = <<c>>
    OBVIOUS
  <1> QED  BY <1>2, <1>16, <1>17, <1>18 DEF AttatchPrefix, b, h, d

\* FlattenSeq appends one after the other.
LEMMA Flattening ==
  ASSUME NEW S, NEW seqs \in Seq(Seq(S)), seqs # <<>>
  PROVE  \E f : /\ FlattenSeq(seqs) = f[Len(seqs)] /\ f[1] = seqs[1]
                /\ \A i \in 1 .. Len(seqs) : f[i] \in Seq(S)
                /\ \A i \in 2 .. Len(seqs) : f[i] = f[i - 1] \o seqs[i]
  <1> DEFINE N == Len(seqs)
             D == 1 .. N
             V == Seq(S)
             Follows(i, f) == IF i = 1 THEN seqs[i] ELSE f[i - 1] \o seqs[i]
             M == [i \in D |-> i]
             G == [p \in D \X [D -> V] |-> Follows(p[1], p[2])]
  <1>1. N \in Nat \ {0} /\ \A i \in D : seqs[i] \in V
    BY EmptySeq
  <1>2. M \in [D -> Nat] /\ <<>> \in V
    BY <1>1
  <1>3. ASSUME NEW i \in D, NEW f \in [D -> V] PROVE Follows(i, f) \in V /\ G[<<i, f>>] = Follows(i, f)
    <2>1. G[<<i, f>>] = Follows(i, f)
      OBVIOUS
    <2>2. CASE i = 1
      BY <1>1, <2>1, <2>2
    <2>3. CASE i # 1
      <3>1. i - 1 \in D
        BY <1>1, <2>3
      <3>2. f[i - 1] \in V /\ seqs[i] \in V
        BY <1>1, <3>1
      <3> HIDE DEF D, N
      <3>3. f[i - 1] \o seqs[i] \in V
        BY <3>2, ConcatProperties
      <3> QED  BY <2>1, <2>3, <3>3
    <2> QED  BY <2>2, <2>3
  <1>4. \A i \in D : \A f, g \in [D -> V] :
          (\A j \in D : M[j] < M[i] => f[j] = g[j]) => G[<<i, f>>] = G[<<i, g>>]
    <2> SUFFICES ASSUME NEW i \in D, NEW f \in [D -> V], NEW g \in [D -> V],
                        \A j \in D : M[j] < M[i] => f[j] = g[j]
                 PROVE  G[<<i, f>>] = G[<<i, g>>]
      OBVIOUS
    <2>1. CASE i = 1
      BY <1>3, <2>1
    <2>2. CASE i # 1
      <3>1. i - 1 \in D /\ M[i - 1] < M[i]
        BY <1>1, <2>2
      <3>2. f[i - 1] = g[i - 1]
        BY <3>1
      <3> QED  BY <1>3, <3>2
    <2> QED  BY <2>1, <2>2
  <1>5. G \in [D \X [D -> V] -> V]
    BY <1>3
  <1> HIDE DEF M, G, V
  <1>6. PICK f \in [D -> V] : Computes(f, D, G)
    <2> HIDE DEF D
    <2>1. Recursive(D, V, M, G)
      BY <1>2, <1>4, <1>5 DEF Recursive
    <2> QED  BY <1>2, <2>1, RecursionExists
  <1>7. f = [i \in D |-> Follows(i, f)]
    <2> HIDE DEF Follows, D
    <2> QED  BY <1>3, <1>6 DEF Computes
  <1> DEFINE d == CHOOSE d : d = [i \in D |-> Follows(i, d)]
  <1>8. d = [i \in D |-> Follows(i, d)]
    BY <1>7
  <1>9. FlattenSeq(seqs) = d[N]
    BY <1>1 DEF FlattenSeq
  <1>10. \A i \in D : d[i] = Follows(i, d)
    BY <1>8
  <1> HIDE DEF d
  <1>11. ASSUME NEW i \in D, \A j \in D : M[j] < M[i] => d[j] \in V PROVE d[i] \in V
    <2>1. CASE i = 1
      BY <1>1, <1>10, <2>1
    <2>2. CASE i # 1
      <3>1. i - 1 \in D /\ M[i - 1] < M[i]
        BY <1>1, <2>2 DEF M
      <3>2. d[i - 1] \in V /\ seqs[i] \in V /\ d[i] = d[i - 1] \o seqs[i]
        BY <1>1, <1>10, <1>11, <2>2, <3>1
      <3> QED  BY <3>2, ConcatProperties DEF V
    <2> QED  BY <2>1, <2>2
  <1>12. \A i \in D : d[i] \in V
    <2> DEFINE T == {i \in D : d[i] \in V}
    <2>1. Inductive(D, T, M)
      BY <1>2, <1>11 DEF Inductive
    <2> HIDE DEF T, D
    <2>2. D \subseteq T
      BY <2>1, MeasureInduction
    <2> QED  BY <2>2 DEF T
  <1>13. 1 \in D /\ \A i \in 2 .. N : i \in D /\ i # 1
    BY <1>1
  <1> QED  BY <1>9, <1>10, <1>12, <1>13 DEF V

THEOREM PrefixesRoundTrip ==
  ASSUME NEW contents \in Seq(Seq(0 .. 2 * Base - 1))
  PROVE  DropPrefixes[EncodeWithVariantPrefix(contents)] = contents
  <1> DEFINE C == Seq(Byte)
             N == Len(contents)
             seqs == [i \in DOMAIN contents |-> AttatchPrefix(contents[i])]
  <1>0. contents \in Seq(C) /\ N \in Nat /\ DOMAIN contents = 1 .. N /\ \A i \in 1 .. N : contents[i] \in C
    BY DEF Byte
  <1>1. ASSUME NEW i \in 1 .. N, NEW r \in C
        PROVE  /\ seqs[i] \in C
               /\ DropPrefixes[seqs[i] \o r] = <<contents[i]>> \o DropPrefixes[r]
    <2>1. contents[i] \in C /\ seqs[i] = AttatchPrefix(contents[i])
      BY <1>0
    <2> HIDE DEF seqs
    <2> QED  BY <2>1, ContentDropped
  <1>2. <<>> \in C /\ DropPrefixes[<<>>] = <<>>
    <2>1. <<>> \in C /\ ~ Ended(<<>>)
      BY DEF Ended
    <2> QED  BY <2>1, DropStep
  <1>3. seqs \in Seq(C) /\ Len(seqs) = N
    <2>1. DOMAIN seqs = 1 .. N
      BY <1>0
    <2>2. \A i \in 1 .. N : seqs[i] \in C
      BY <1>1, <1>2
    <2>3. seqs \in [1 .. N -> C]
      BY <2>1, <2>2
    <2> HIDE DEF seqs
    <2> QED  BY <1>0, <2>3
  <1>4. EncodeWithVariantPrefix(contents) = FlattenSeq(seqs)
    BY DEF EncodeWithVariantPrefix
  <1> HIDE DEF seqs, C
  <1>5. CASE N = 0
    <2>1. seqs = <<>> /\ contents = <<>>
      BY <1>0, <1>3, <1>5, EmptySeq
    <2>2. FlattenSeq(seqs) = <<>>
      BY <2>1 DEF FlattenSeq
    <2> QED  BY <1>2, <1>4, <2>1, <2>2
  <1>6. CASE N # 0
    <2>1. seqs # <<>>
      BY <1>3, <1>6
    <2>2. PICK f : /\ FlattenSeq(seqs) = f[N] /\ f[1] = seqs[1]
                   /\ \A i \in 1 .. N : f[i] \in C
                   /\ \A i \in 2 .. N : f[i] = f[i - 1] \o seqs[i]
      <3>1. seqs \in Seq(Seq(Byte))
        BY <1>3 DEF C
      <3>2. \E f : /\ FlattenSeq(seqs) = f[Len(seqs)] /\ f[1] = seqs[1]
                   /\ \A i \in 1 .. Len(seqs) : f[i] \in Seq(Byte)
                   /\ \A i \in 2 .. Len(seqs) : f[i] = f[i - 1] \o seqs[i]
        BY <2>1, <3>1, Flattening
      <3> QED  BY <1>3, <3>2 DEF C
    <2> DEFINE Ok(n) == \A r \in C : DropPrefixes[f[n] \o r] = SubSeq(contents, 1, n) \o DropPrefixes[r]
               S == {n \in Nat : n + 1 <= N => Ok(n + 1)}
    <2>3. ASSUME NEW n \in 1 .. N PROVE SubSeq(contents, 1, n) \in Seq(C) /\ SubSeq(contents, 1, n) = SubSeq(contents, 1, n - 1) \o <<contents[n]>>
      <3>1. SubSeq(contents, 1, n) \in Seq(C)
        <4>1. \A i \in 1 .. n : contents[i] \in C
          BY <1>0
        <4> QED  BY <4>1, SubSeqProperties
      <3>2. 1 \in 1 .. N /\ n \in 1 .. N
        BY <1>0
      <3> QED  BY <1>0, <3>1, <3>2, SubSeqRecursiveSecond
    <2>4. 0 \in S
      <3>1. ASSUME NEW r \in C PROVE DropPrefixes[f[1] \o r] = SubSeq(contents, 1, 1) \o DropPrefixes[r]
        <4>1. 1 \in 1 .. N
          BY <1>0, <1>6
        <4>2. DropPrefixes[f[1] \o r] = <<contents[1]>> \o DropPrefixes[r]
          BY <1>1, <2>2, <4>1
        <4>3. SubSeq(contents, 1, 1) = <<contents[1]>>
          <5>1. SubSeq(contents, 1, 0) = <<>> /\ <<contents[1]>> \in Seq(C)
            BY <1>0, <4>1
          <5>2. <<>> \o <<contents[1]>> = <<contents[1]>>
            BY <5>1, ConcatEmptySeq
          <5>3. SubSeq(contents, 1, 1) = SubSeq(contents, 1, 1 - 1) \o <<contents[1]>> /\ 1 - 1 = 0
            BY <2>3, <4>1
          <5> QED  BY <5>1, <5>2, <5>3
        <4> QED  BY <4>2, <4>3
      <3> QED  BY <3>1
    <2>5. ASSUME NEW n \in Nat, n \in S PROVE n + 1 \in S
      <3> DEFINE k == n + 1
                 m == n + 1 + 1
                 c == contents[m]
      <3> SUFFICES ASSUME m <= N, NEW r \in C
                   PROVE  DropPrefixes[f[m] \o r] = SubSeq(contents, 1, m) \o DropPrefixes[r]
        <4> HIDE DEF Ok
        <4>1. m <= N => Ok(m)
          BY DEF Ok
        <4> QED  BY <4>1
      <3>1. /\ m \in 2 .. N /\ m \in 1 .. N /\ k \in 1 .. N /\ m - 1 = k /\ Ok(k)
        <4> HIDE DEF Ok
        <4> QED  BY <1>0, <2>5
      <3> HIDE DEF k, m
      <3>2. f[k] \in C /\ seqs[m] \in C /\ f[m] = f[k] \o seqs[m]
        BY <1>1, <2>2, <3>1
      <3>3. f[m] \o r = f[k] \o (seqs[m] \o r) /\ seqs[m] \o r \in C
        <4> DEFINE a == f[k]
                   b == seqs[m]
        <4>1. a \in Seq(Byte) /\ b \in Seq(Byte) /\ r \in Seq(Byte) /\ f[m] = a \o b
          BY <3>2 DEF C
        <4> HIDE DEF a, b
        <4>2. (a \o b) \o r = a \o (b \o r)
          BY <4>1, ConcatAssociative
        <4>3. b \o r \in Seq(Byte)
          BY <4>1, ConcatProperties
        <4> QED  BY <4>1, <4>2, <4>3 DEF C, a, b
      <3>4. DropPrefixes[f[m] \o r] = SubSeq(contents, 1, k) \o DropPrefixes[seqs[m] \o r]
        BY <3>1, <3>3
      <3>5. DropPrefixes[seqs[m] \o r] = <<c>> \o DropPrefixes[r]
        BY <1>1, <3>1
      <3>6. SubSeq(contents, 1, k) \in Seq(C) /\ <<c>> \in Seq(C) /\ DropPrefixes[r] \in Seq(C)
        <4>1. c \in C
          BY <1>0, <3>1
        <4>2. DropPrefixes[r] \in Seq(C)
          BY DropStep DEF C
        <4> HIDE DEF c
        <4>3. <<c>> \in Seq(C)
          BY <4>1
        <4> QED  BY <2>3, <3>1, <4>2, <4>3
      <3>7. SubSeq(contents, 1, k) \o (<<c>> \o DropPrefixes[r])
              = (SubSeq(contents, 1, k) \o <<c>>) \o DropPrefixes[r]
        <4> DEFINE a == SubSeq(contents, 1, k)
                   e == <<c>>
                   q == DropPrefixes[r]
        <4> HIDE DEF a, e, q
        <4>1. a \in Seq(C) /\ e \in Seq(C) /\ q \in Seq(C)
          BY <3>6 DEF a, e, q
        <4>2. (a \o e) \o q = a \o (e \o q)
          BY <4>1, ConcatAssociative
        <4> QED  BY <4>2 DEF a, e, q
      <3>8. SubSeq(contents, 1, k) \o <<c>> = SubSeq(contents, 1, m)
        BY <2>3, <3>1
      <3> QED  BY <3>4, <3>5, <3>7, <3>8
    <2> HIDE DEF S
    <2>6. Nat \subseteq S
      BY <2>4, <2>5, InductiveSet
    <2>7. Ok(N)
      <3>1. N - 1 \in Nat /\ (N - 1) + 1 = N
        BY <1>0, <1>6
      <3>2. N - 1 \in S
        BY <2>6, <3>1
      <3>3. (N - 1) + 1 <= N => Ok((N - 1) + 1)
        BY <3>2 DEF S
      <3> HIDE DEF Ok
      <3>4. Ok((N - 1) + 1)
        BY <1>0, <3>1, <3>3
      <3> QED  BY <3>1, <3>4
    <2>8. f[N] \o <<>> = f[N] /\ SubSeq(contents, 1, N) \o <<>> = contents
      <3>1. f[N] \in Seq(Byte) /\ SubSeq(contents, 1, N) = contents
        BY <1>0, <1>6, <2>2, SubSeqFull DEF C
      <3> QED  BY <1>0, <3>1, ConcatEmptySeq
    <2> QED  BY <1>2, <1>4, <2>2, <2>7, <2>8
  <1> QED  BY <1>5, <1>6

----------------------------------------------------------------------------
(* What is added to a store.                                               *)

\* What may be wrong once there was a disturbance: all that is not verified for
\* good.  No content of another kind is, and none before.
Loose == {"body", "receipt"}
Right(w, k, c) == c # Bytes[k] => Kind[k] \in w

Store(D) == [D -> Seq(Byte)]
IsStore(w, s) ==
  /\ DOMAIN s \subseteq Keys /\ s \in Store(DOMAIN s)
  /\ \A k \in DOMAIN s : Right(w, k, s[k])

LEMMA ExchangeConstants ==
  /\ Garbage \in Seq(Byte)
  /\ \A k \in Keys : /\ Bytes[k] \in Seq(Byte) /\ Bytes[k] # Garbage /\ Bytes[k] # <<>>
                     /\ Kind[k] \in {"header", "body", "receipt", "epoch"}
  BY ExchangeAssumption DEF Byte

LEMMA PutDomain ==
  ASSUME NEW s, NEW ks, NEW c PROVE DOMAIN Put(s, ks, c) = DOMAIN s \cup ks
  BY DEF Put

LEMMA PutProperties ==
  ASSUME NEW w \in {{}, Loose}, NEW s, IsStore(w, s), NEW ks \in SUBSET Keys, NEW c \in Seq(Byte),
         \A k \in ks : Right(w, k, c)
  PROVE  IsStore(w, Put(s, ks, c))
  <1> DEFINE t == Put(s, ks, c)
             D == DOMAIN s \cup ks
  <1>1. s \in Store(DOMAIN s) /\ DOMAIN s \subseteq Keys /\ \A k \in DOMAIN s : s[k] \in Seq(Byte) /\ Right(w, k, s[k])
    BY DEF IsStore, Store
  <1>2. DOMAIN t = D /\ \A k \in D : t[k] = IF k \in ks THEN c ELSE s[k]
    BY DEF Put
  <1>3. t \in Store(D)
    <2>1. t = [k \in D |-> IF k \in ks THEN c ELSE s[k]]
      BY DEF Put
    <2>2. \A k \in D : (IF k \in ks THEN c ELSE s[k]) \in Seq(Byte)
      BY <1>1
    <2> HIDE DEF t, D
    <2> QED  BY <2>1, <2>2 DEF Store
  <1> HIDE DEF t
  <1>4. \A k \in D : Right(w, k, t[k])
    BY <1>1, <1>2
  <1> QED  BY <1>1, <1>2, <1>3, <1>4 DEF IsStore, t

\* Content that is right for its key leaves the store right.
LEMMA AddProperties ==
  ASSUME NEW w \in {{}, Loose}, NEW s, IsStore(w, s), NEW k \in Keys, NEW c \in Seq(Byte), Right(w, k, c)
  PROVE  /\ IsStore(w, Add(s, k, c)) /\ DOMAIN s \subseteq DOMAIN Add(s, k, c)
         /\ c = Bytes[k] => k \in DOMAIN Add(s, k, c) \/ Kind[k] = "body"
  <1>1. IsStore(w, Put(s, {k}, c)) /\ DOMAIN Put(s, {k}, c) = DOMAIN s \cup {k}
    <2> DEFINE ks == {k}
    <2>1. ks \in SUBSET Keys /\ \A l \in ks : Right(w, l, c)
      OBVIOUS
    <2> HIDE DEF ks
    <2>2. IsStore(w, Put(s, ks, c))
      BY <2>1, PutProperties
    <2> QED  BY <2>2, PutDomain DEF ks
  <1>2. c = Bytes[k] => Verified(s, k, c) \/ Kind[k] = "body"
    BY ExchangeConstants DEF Verified
  <1> QED  BY <1>1, <1>2 DEF Add

\* Whatever a stream brings leaves it right, if the run is disturbed.
LEMMA AddStreamedProperties ==
  ASSUME NEW w \in {{}, Loose}, NEW s, IsStore(w, s), NEW k \in Keys, NEW c \in Seq(Byte),
         w # {} \/ c = Bytes[k]
  PROVE  /\ IsStore(w, AddStreamed(s, k, c)) /\ DOMAIN s \subseteq DOMAIN AddStreamed(s, k, c)
         /\ c = Bytes[k] => k \in DOMAIN AddStreamed(s, k, c) \/ Kind[k] = "body"
  <1>1. CASE Kind[k] = "epoch"
    <2> DEFINE ks == {e \in Keys : Kind[e] = "epoch" /\ Bytes[e] = c}
    <2>1. ks \in SUBSET Keys /\ \A e \in ks : Right(w, e, c)
      BY DEF Right
    <2>2. AddStreamed(s, k, c) = Put(s, ks, c)
      BY <1>1 DEF AddStreamed
    <2>3. c = Bytes[k] => k \in ks
      BY <1>1
    <2> HIDE DEF ks
    <2>4. IsStore(w, Put(s, ks, c))
      BY <2>1, PutProperties
    <2>5. DOMAIN Put(s, ks, c) = DOMAIN s \cup ks
      BY PutDomain
    <2> QED  BY <2>2, <2>3, <2>4, <2>5
  <1>2. CASE Kind[k] # "epoch" /\ Right(w, k, c)
    BY <1>2, AddProperties DEF AddStreamed
  <1>3. CASE Kind[k] # "epoch" /\ ~ Right(w, k, c)
    <2>1. Kind[k] = "header" /\ c # Bytes[k]
      BY <1>3, ExchangeConstants DEF Right, Loose
    <2>2. AddStreamed(s, k, c) = s
      BY <1>3, <2>1 DEF AddStreamed, Add, Verified
    <2> QED  BY <2>1, <2>2
  <1> QED  BY <1>1, <1>2, <1>3

LEMMA AddAllProperties ==
  ASSUME NEW w \in {{}, Loose}, NEW s, IsStore(w, s), NEW keys \in Seq(Keys), NEW contents,
         \A i \in 1 .. Len(keys) : contents[i] \in Seq(Byte) /\ (w # {} \/ contents[i] = Bytes[keys[i]])
  PROVE  /\ IsStore(w, AddAll(s, keys, contents))
         /\ DOMAIN s \subseteq DOMAIN AddAll(s, keys, contents)
         /\ w = {} => \A i \in 1 .. Len(keys) :
                     keys[i] \in DOMAIN AddAll(s, keys, contents) \/ Kind[keys[i]] = "body"
  <1> DEFINE N == Len(keys)
             Steps(f) == [i \in 0 .. N |-> IF i = 0 THEN s ELSE AddStreamed(f[i - 1], keys[i], contents[i])]
             added == CHOOSE f : f = Steps(f)
             T == {t \in UNION {Store(D) : D \in SUBSET Keys} : IsStore(w, t)}
  <1>1. AddAll(s, keys, contents) = added[N]
    BY DEF AddAll
  <1>2. N \in Nat /\ \A i \in 1 .. N : keys[i] \in Keys
    OBVIOUS
  <1>3. ASSUME NEW t, IsStore(w, t) PROVE t \in T
    BY <1>3 DEF IsStore
  <1>4. ASSUME NEW t \in T, NEW i \in 1 .. N PROVE AddStreamed(t, keys[i], contents[i]) \in T
    <2>1. IsStore(w, t)
      OBVIOUS
    <2> HIDE DEF T
    <2>2. IsStore(w, AddStreamed(t, keys[i], contents[i]))
      BY <1>2, <2>1, AddStreamedProperties
    <2> QED  BY <1>3, <2>2
  <1>5. s \in T /\ \A t \in T : IsStore(w, t)
    BY <1>3
  <1> HIDE DEF T, N
  <1> DEFINE G == [p \in (1 .. N) \X T |-> AddStreamed(p[2], keys[p[1]], contents[p[1]])]
  <1>6. G \in [(1 .. N) \X T -> T]
    BY <1>4
  <1>7. PICK f \in [0 .. N -> T] : AreSteps(f, N, s, G)
    <2> HIDE DEF G
    <2> QED  BY <1>2, <1>5, <1>6, StepsExist
  <1>8. f = Steps(f)
    <2>1. ASSUME NEW i \in 1 .. N PROVE f[i] = AddStreamed(f[i - 1], keys[i], contents[i])
      <3>1. i - 1 \in 0 .. N
        BY <1>2
      <3>2. <<i, f[i - 1]>> \in (1 .. N) \X T
        BY <3>1
      <3>3. G[<<i, f[i - 1]>>] = AddStreamed(f[i - 1], keys[i], contents[i])
        BY <3>2
      <3> QED  BY <1>7, <3>3 DEF AreSteps
    <2>2. \A i \in 0 .. N : i = 0 \/ i \in 1 .. N
      BY <1>2
    <2> HIDE DEF G
    <2> QED  BY <1>7, <2>1, <2>2 DEF AreSteps
  <1>9. added = Steps(added)
    BY <1>8
  <1> HIDE DEF added
  <1>10. added[0] = s /\ \A i \in 1 .. N : added[i] = AddStreamed(added[i - 1], keys[i], contents[i])
    <2>1. \A i \in 0 .. N : Steps(added)[i]
            = IF i = 0 THEN s ELSE AddStreamed(added[i - 1], keys[i], contents[i])
      OBVIOUS
    <2> QED  BY <1>2, <1>9, <2>1
  <1> DEFINE Has(t, i) == /\ DOMAIN s \subseteq DOMAIN t
                          /\ w = {} => \A j \in 1 .. i : keys[j] \in DOMAIN t \/ Kind[keys[j]] = "body"
             U == [i \in 0 .. N |-> {t \in T : Has(t, i)}]
  <1>11. U[0] = {t \in T : Has(t, 0)} /\ U[N] = {t \in T : Has(t, N)}
         /\ \A i \in 1 .. N : U[i] = {t \in T : Has(t, i)} /\ U[i - 1] = {t \in T : Has(t, i - 1)}
    <2> HIDE DEF Has
    <2> QED  BY <1>2
  <1> HIDE DEF U
  <1>12. added[0] \in U[0]
    BY <1>5, <1>10, <1>11
  <1>13. ASSUME NEW i \in 1 .. N, added[i - 1] \in U[i - 1] PROVE added[i] \in U[i]
    <2> DEFINE t == added[i - 1]
               u == added[i]
    <2>1. t \in T /\ Has(t, i - 1) /\ u = AddStreamed(t, keys[i], contents[i])
      BY <1>10, <1>11, <1>13
    <2> HIDE DEF t, u
    <2>2. IsStore(w, t) /\ keys[i] \in Keys /\ contents[i] \in Seq(Byte) /\ (w # {} \/ contents[i] = Bytes[keys[i]])
      BY <1>2, <1>5, <2>1 DEF N
    <2>3. /\ IsStore(w, u) /\ DOMAIN t \subseteq DOMAIN u
          /\ contents[i] = Bytes[keys[i]] => keys[i] \in DOMAIN u \/ Kind[keys[i]] = "body"
      BY <2>1, <2>2, AddStreamedProperties
    <2>4. \A j \in 1 .. i : j = i \/ j \in 1 .. i - 1
      BY <1>2
    <2>5. Has(u, i)
      BY <2>1, <2>2, <2>3, <2>4
    <2> QED  BY <1>3, <1>11, <2>3, <2>5 DEF u
  <1>14. added[N] \in U[N]
    BY <1>2, <1>12, <1>13, StepsLead
  <1>15. added[N] \in T /\ Has(added[N], N)
    BY <1>11, <1>14
  <1> QED  BY <1>1, <1>5, <1>15 DEF N

----------------------------------------------------------------------------
(* The keys that are wanted.                                               *)

WantedOf(keys, marks) ==
  LET wanted[i \in 0 .. Len(marks)] ==
        IF i = 0 THEN <<>>
        ELSE IF marks[i] THEN Append(wanted[i - 1], keys[i]) ELSE wanted[i - 1]
  IN wanted[Len(marks)]

LEMMA WantedIs == ASSUME NEW tr PROVE Wanted(tr) = WantedOf(tr.keys, tr.wanted)
  BY DEF Wanted, WantedOf

LEMMA WantedProperties ==
  ASSUME NEW keys \in Seq(Keys), NEW marks \in Seq(BOOLEAN), Len(marks) <= Len(keys)
  PROVE  /\ WantedOf(keys, marks) \in Seq(Keys)
         /\ \A k \in Keys : keys = <<k>> /\ marks = <<TRUE>> => WantedOf(keys, marks) = <<k>>
  <1> DEFINE N == Len(marks)
             T == Seq(Keys)
             More(i, s) == IF marks[i] THEN Append(s, keys[i]) ELSE s
             Steps(f) == [i \in 0 .. N |-> IF i = 0 THEN <<>>
                           ELSE IF marks[i] THEN Append(f[i - 1], keys[i]) ELSE f[i - 1]]
             d == CHOOSE f : f = Steps(f)
             G == [p \in (1 .. N) \X T |-> More(p[1], p[2])]
  <1>1. WantedOf(keys, marks) = d[N]
    BY DEF WantedOf
  <1>2. N \in Nat /\ <<>> \in T /\ \A i \in 1 .. N : keys[i] \in Keys
    OBVIOUS
  <1>3. ASSUME NEW i \in 1 .. N, NEW s \in T PROVE More(i, s) \in T
    <2>1. Append(s, keys[i]) \in T
      BY <1>2
    <2> QED  BY <2>1
  <1> HIDE DEF T, N
  <1>4. G \in [(1 .. N) \X T -> T]
    <2> HIDE DEF More
    <2> QED  BY <1>3
  <1>5. PICK f \in [0 .. N -> T] : AreSteps(f, N, <<>>, G)
    <2> HIDE DEF G
    <2> QED  BY <1>2, <1>4, StepsExist
  <1>6. f = Steps(f)
    <2>1. ASSUME NEW i \in 1 .. N PROVE f[i] = More(i, f[i - 1])
      <3>1. i - 1 \in 0 .. N
        BY <1>2
      <3>2. <<i, f[i - 1]>> \in (1 .. N) \X T
        BY <3>1
      <3> HIDE DEF More
      <3>3. G[<<i, f[i - 1]>>] = More(i, f[i - 1])
        BY <3>2
      <3> QED  BY <1>5, <3>3 DEF AreSteps
    <2>2. \A i \in 0 .. N : i = 0 \/ i \in 1 .. N
      BY <1>2
    <2> HIDE DEF G
    <2> QED  BY <1>5, <2>1, <2>2 DEF AreSteps
  <1>7. d = Steps(d)
    BY <1>6
  <1> HIDE DEF d
  <1>8. d[0] = <<>> /\ \A i \in 1 .. N : d[i] = More(i, d[i - 1])
    <2>1. \A i \in 0 .. N : Steps(d)[i] = IF i = 0 THEN <<>> ELSE More(i, d[i - 1])
      OBVIOUS
    <2>2. 0 \in 0 .. N /\ \A i \in 1 .. N : i \in 0 .. N /\ i # 0
      BY <1>2
    <2> HIDE DEF More, Steps
    <2> QED  BY <1>7, <2>1, <2>2
  <1>9. d[N] \in T
    <2> DEFINE U == [i \in 0 .. N |-> T]
    <2>1. U[0] = T /\ U[N] = T /\ \A i \in 1 .. N : U[i] = T /\ U[i - 1] = T
      BY <1>2
    <2>2. d[0] \in U[0] /\ \A i \in 1 .. N : d[i - 1] \in U[i - 1] => d[i] \in U[i]
      <3> HIDE DEF More
      <3> QED  BY <1>2, <1>3, <1>8, <2>1
    <2> HIDE DEF U
    <2> QED  BY <1>2, <2>1, <2>2, StepsLead
  <1>10. ASSUME NEW k \in Keys, keys = <<k>>, marks = <<TRUE>> PROVE d[N] = <<k>>
    <2>1. N = 1 /\ marks[1] = TRUE /\ keys[1] = k
      BY <1>10 DEF N
    <2>2. d[1] = More(1, d[0])
      <3>1. 1 \in 1 .. N /\ 1 - 1 = 0
        BY <2>1
      <3> HIDE DEF More
      <3> QED  BY <1>8, <3>1
    <2>3. Append(<<>>, k) = <<k>>
      OBVIOUS
    <2> QED  BY <1>8, <2>1, <2>2, <2>3
  <1> QED  BY <1>1, <1>9, <1>10 DEF T

----------------------------------------------------------------------------
(* The invariant.                                                          *)

Wrong == IF disturbed THEN Loose ELSE {}

Phases == {"idle", "offered", "accepted", "declined", "reading", "hung",
           "asked", "answered", "streaming", "done", "failed"}
Transfer == [pc : Phases, from : SUBSET Clients, to : SUBSET Clients, keys : Seq(Keys),
             wanted : Seq(BOOLEAN), reads : SUBSET Nat, contents : Seq(Seq(Byte))]

\* The contents read are those of the keys, in their order.
Ordered(w, tr) ==
  w = {} => \A i \in 1 .. Len(tr.contents) : tr.contents[i] = Bytes[Wanted(tr)[i]]

IsTransfer(w, tr) ==
  /\ tr \in Transfer /\ Len(tr.wanted) <= Len(tr.keys)
  /\ tr.pc \in {"offered", "accepted", "reading", "asked", "answered", "streaming"} =>
       \E n \in Clients : tr.from = {n}
  /\ tr.pc \in {"offered", "accepted", "reading", "asked", "answered", "streaming", "done"} =>
       \E n \in Clients : tr.to = {n}
  /\ tr.pc = "offered" => Len(tr.wanted) < Len(tr.keys)
  /\ tr.pc \in {"offered", "accepted", "asked"} => tr.contents = <<>>
  /\ tr.pc \in {"asked", "answered"} => \E k \in Keys : tr.keys = <<k>> /\ tr.wanted = <<TRUE>>
  /\ tr.pc = "answered" => Len(tr.contents) = 1 /\ Right(w, tr.keys[1], tr.contents[1])
  /\ tr.pc = "reading" =>
       /\ tr.reads \subseteq 1 .. Len(Wanted(tr))
       /\ Cardinality(tr.reads) + Len(tr.contents) = Len(Wanted(tr))
       /\ w = {} => tr.reads = Len(tr.contents) + 1 .. Len(Wanted(tr))
       /\ Ordered(w, tr)
  /\ tr.pc = "streaming" => Len(tr.contents) = Len(Wanted(tr)) /\ Ordered(w, tr)

Stored(w, tr, s) ==
  w = {} => \A i \in 1 .. Len(Wanted(tr)) : Wanted(tr)[i] \in DOMAIN s \/ Kind[Wanted(tr)[i]] = "body"

ExchangeInv ==
  /\ disturbed \in BOOLEAN
  /\ DOMAIN store = Clients /\ \A n \in Clients : IsStore(Wrong, store[n])
  /\ transfers \in [Transfers -> Transfer]
  /\ \A t \in Transfers : /\ IsTransfer(Wrong, transfers[t])
                          /\ At(t, "done") => Stored(Wrong, transfers[t], store[To(t)])

LEMMA EndPoints ==
  ASSUME NEW t \in Transfers, NEW n \in Clients
  PROVE  /\ transfers[t].from = {n} => From(t) = n
         /\ transfers[t].to = {n} => To(t) = n
  BY DEF From, To

\* A stream that is whole gives the contents as they were read.
LEMMA CarriedIs ==
  ASSUME NEW tr \in Transfer, Len(tr.contents) = Len(Wanted(tr)) PROVE Carried(tr) = tr.contents
  <1>1. tr.contents \in Seq(Seq(0 .. 2 * Base - 1))
    BY DEF Transfer, Byte
  <1> QED  BY <1>1, PrefixesRoundTrip DEF Carried

\* What is right stays right when there is a disturbance.
LEMMA Disturbance ==
  ASSUME NEW v \in {{}, Loose}, NEW w \in {{}, Loose}, v \subseteq w
  PROVE  /\ \A s : IsStore(v, s) => IsStore(w, s)
         /\ \A tr : IsTransfer(v, tr) => IsTransfer(w, tr)
         /\ \A tr, s : Stored(v, tr, s) => Stored(w, tr, s)
  <1>1. w = {} => v = {}
    OBVIOUS
  <1>2. ASSUME NEW k, NEW c, Right(v, k, c) PROVE Right(w, k, c)
    BY <1>2 DEF Right
  <1>3. \A s : IsStore(v, s) => IsStore(w, s)
    BY <1>2 DEF IsStore
  <1>4. \A tr : Ordered(v, tr) => Ordered(w, tr)
    BY <1>1 DEF Ordered
  <1>5. \A tr : IsTransfer(v, tr) => IsTransfer(w, tr)
    BY <1>1, <1>2, <1>4 DEF IsTransfer
  <1>6. \A tr, s : Stored(v, tr, s) => Stored(w, tr, s)
    BY <1>1 DEF Stored
  <1> QED  BY <1>3, <1>5, <1>6

LEMMA TheOne == ASSUME NEW n \in Clients PROVE (CHOOSE m \in Clients : m \in {n}) = n
  OBVIOUS

LEMMA WrongIs ==
  ASSUME disturbed \in BOOLEAN
  PROVE  Wrong \in {{}, Loose} /\ (Wrong = {} <=> ~ disturbed)
  BY DEF Wrong, Loose

LEMMA StoredGrows ==
  ASSUME NEW w, NEW tr, NEW s, NEW r, Stored(w, tr, s), DOMAIN s \subseteq DOMAIN r
  PROVE  Stored(w, tr, r)
  BY DEF Stored

\* One transfer moves, the others stay as they are; stores grow and stay right.
LEMMA Moves ==
  ASSUME ExchangeInv, NEW t \in Transfers, NEW tr, transfers' = [transfers EXCEPT ![t] = tr],
         disturbed' \in BOOLEAN, disturbed => disturbed',
         DOMAIN store' = Clients,
         \A n \in Clients : IsStore(Wrong', store'[n]) /\ DOMAIN store[n] \subseteq DOMAIN store'[n],
         IsTransfer(Wrong', tr),
         tr.pc = "done" => \E n \in Clients : tr.to = {n} /\ Stored(Wrong', tr, store'[n])
  PROVE  ExchangeInv'
  <1>1. Wrong \in {{}, Loose} /\ (Wrong = {} <=> ~ disturbed)
    BY WrongIs DEF ExchangeInv
  <1>2. Wrong' \in {{}, Loose} /\ (Wrong' = {} <=> ~ disturbed')
    BY DEF Wrong, Loose
  <1>3. Wrong \subseteq Wrong'
    BY <1>1, <1>2
  <1> DEFINE v == Wrong
             w == Wrong'
  <1> HIDE DEF v, w
  <1>4. /\ \A u : IsTransfer(v, u) => IsTransfer(w, u)
        /\ \A u, s : Stored(v, u, s) => Stored(w, u, s)
    <2>1. v \in {{}, Loose} /\ w \in {{}, Loose} /\ v \subseteq w
      BY <1>1, <1>2, <1>3 DEF v, w
    <2> QED  BY <2>1, Disturbance
  <1>5. tr \in Transfer
    BY DEF IsTransfer
  <1>6. transfers' \in [Transfers -> Transfer] /\ \A u \in Transfers : transfers'[u] = IF u = t THEN tr ELSE transfers[u]
    BY <1>5 DEF ExchangeInv
  <1>7. ASSUME NEW u \in Transfers
        PROVE  /\ IsTransfer(w, transfers'[u])
               /\ At(u, "done")' => Stored(w, transfers'[u], store'[To(u)'])
    <2>1. CASE u = t
      <3>1. transfers'[u] = tr
        BY <1>6, <2>1
      <3>2. ASSUME tr.pc = "done" PROVE Stored(w, tr, store'[To(u)'])
        <4>1. PICK n \in Clients : tr.to = {n} /\ Stored(w, tr, store'[n])
          BY <3>2 DEF w
        <4>2. To(u)' = n
          BY <3>1, <4>1, TheOne DEF To
        <4> QED  BY <4>1, <4>2
      <3> QED  BY <3>1, <3>2 DEF At, w
    <2>2. CASE u # t
      <3>1. transfers'[u] = transfers[u]
        BY <1>6, <2>2
      <3>2. IsTransfer(v, transfers[u]) /\ (At(u, "done") => Stored(v, transfers[u], store[To(u)]))
        BY DEF ExchangeInv, v
      <3>3. ASSUME At(u, "done") PROVE Stored(w, transfers[u], store'[To(u)'])
        <4>1. PICK n \in Clients : transfers[u].to = {n}
          BY <3>2, <3>3 DEF At, IsTransfer
        <4>2. To(u) = n /\ To(u)' = n
          BY <3>1, <4>1, TheOne DEF To
        <4>3. Stored(w, transfers[u], store[n])
          BY <1>4, <3>2, <3>3, <4>2
        <4> QED  BY <4>2, <4>3, StoredGrows
      <3>4. At(u, "done")' => At(u, "done")
        BY <3>1 DEF At
      <3> QED  BY <1>4, <3>1, <3>2, <3>3, <3>4
    <2> QED  BY <2>1, <2>2
  <1> QED  BY <1>6, <1>7 DEF ExchangeInv, w

\* No store is written.
LEMMA MovesAlone ==
  ASSUME ExchangeInv, NEW t \in Transfers, NEW tr, Become(t, tr), UNCHANGED <<store, disturbed>>,
         IsTransfer(Wrong, tr), tr.pc # "done"
  PROVE  ExchangeInv'
  <1>1. disturbed' = disturbed /\ store' = store /\ Wrong' = Wrong
    BY DEF Wrong
  <1>2. /\ disturbed' \in BOOLEAN /\ DOMAIN store' = Clients
        /\ \A n \in Clients : IsStore(Wrong', store'[n]) /\ DOMAIN store[n] \subseteq DOMAIN store'[n]
    BY <1>1 DEF ExchangeInv
  <1>3. transfers' = [transfers EXCEPT ![t] = tr]
    BY DEF Become
  <1>4. IsTransfer(Wrong', tr) /\ (disturbed => disturbed')
    BY <1>1
  <1> HIDE DEF Wrong
  <1> QED  BY <1>2, <1>3, <1>4, Moves

Grows(r, s) == DOMAIN r \subseteq DOMAIN s

\* One store is written, and that transfer is done.
Delivers(t, m, s) ==
  /\ transfers[t].pc \in {"answered", "streaming"} /\ transfers[t].to = {m}
  /\ Become(t, Done(transfers[t])) /\ store' = [store EXCEPT ![m] = s]
  /\ disturbed' \in BOOLEAN /\ (disturbed => disturbed')
  /\ IsStore(Wrong', s) /\ Grows(store[m], s) /\ Stored(Wrong', transfers[t], s)

LEMMA MovesToDone ==
  ASSUME ExchangeInv, NEW t \in Transfers, NEW m \in Clients, NEW s, Delivers(t, m, s)
  PROVE  ExchangeInv'
  <1>0. /\ transfers[t].pc \in {"answered", "streaming"} /\ transfers[t].to = {m}
        /\ Become(t, Done(transfers[t])) /\ store' = [store EXCEPT ![m] = s]
        /\ disturbed' \in BOOLEAN /\ (disturbed => disturbed')
        /\ IsStore(Wrong', s) /\ Grows(store[m], s) /\ Stored(Wrong', transfers[t], s)
    BY DEF Delivers
  <1> DEFINE tr == transfers[t]
             du == Done(tr)
             w == Wrong'
  <1>1. w \in {{}, Loose} /\ Wrong \in {{}, Loose} /\ Wrong \subseteq w
    BY <1>0, WrongIs DEF Wrong, Loose, ExchangeInv
  <1>2. tr \in Transfer /\ IsTransfer(Wrong, tr)
    BY DEF ExchangeInv
  <1>3. /\ DOMAIN store' = Clients
        /\ \A n \in Clients : store'[n] = IF n = m THEN s ELSE store[n]
    BY <1>0 DEF ExchangeInv
  <1>4. \A n \in Clients : IsStore(w, store'[n]) /\ DOMAIN store[n] \subseteq DOMAIN store'[n]
    <2>1. \A n \in Clients : IsStore(Wrong, store[n])
      BY DEF ExchangeInv
    <2> HIDE DEF w
    <2>2. \A n \in Clients : IsStore(w, store[n])
      BY <1>1, <2>1, Disturbance
    <2> QED  BY <1>0, <1>3, <2>2 DEF w, Grows
  <1>5. /\ du \in Transfer /\ du.pc = "done" /\ du.to = {m}
        /\ du.keys = tr.keys /\ du.wanted = tr.wanted
    <2>1. <<>> \in Seq(Seq(Byte)) /\ {} \in SUBSET Clients /\ "done" \in Phases
      BY DEF Phases
    <2>2. du = [tr EXCEPT !.pc = "done", !.from = {}, !.contents = <<>>]
      BY DEF Done
    <2>3. tr.to = {m}
      BY <1>0
    <2> HIDE DEF du, tr
    <2> QED  BY <1>2, <2>1, <2>2, <2>3 DEF Transfer
  <1>6. Wanted(du) = Wanted(tr)
    <2> HIDE DEF du, tr
    <2> QED  BY <1>5, WantedIs
  <1> HIDE DEF du, w, tr
  <1>7. IsTransfer(w, du)
    BY <1>0, <1>2, <1>5 DEF IsTransfer
  <1>8. Stored(w, du, s)
    BY <1>0, <1>6 DEF Stored, w, tr
  <1>9. store'[m] = s
    BY <1>3
  <1>10. transfers' = [transfers EXCEPT ![t] = du]
    BY <1>0 DEF Become, du, tr
  <1> QED  BY <1>0, <1>3, <1>4, <1>5, <1>7, <1>8, <1>9, <1>10, Moves DEF w

----------------------------------------------------------------------------
(* The steps.                                                              *)

LEMMA ExchangeInitial == ExchangeInit => ExchangeInv
  <1> SUFFICES ASSUME ExchangeInit PROVE ExchangeInv
    OBVIOUS
  <1>1. DOMAIN <<>> = {}
    OBVIOUS
  <1>2. \A n \in Clients : IsStore(Wrong, store[n])
    <2>1. <<>> \in Store(DOMAIN <<>>)
      <3>1. <<>> = [k \in {} |-> k] /\ DOMAIN <<>> = {}
        OBVIOUS
      <3> QED  BY <3>1 DEF Store
    <2>2. \A n \in Clients : store[n] = <<>>
      BY DEF ExchangeInit
    <2> QED  BY <1>1, <2>1, <2>2 DEF IsStore
  <1>3. /\ NoTransfer \in Transfer /\ NoTransfer.pc = "idle" /\ NoTransfer.wanted = <<>> /\ NoTransfer.keys = <<>>
    <2>1. <<>> \in Seq(Seq(Byte)) /\ <<>> \in Seq(Keys) /\ <<>> \in Seq(BOOLEAN)
      OBVIOUS
    <2> QED  BY <2>1 DEF NoTransfer, Transfer, Phases
  <1>4. IsTransfer(Wrong, NoTransfer)
    <2> HIDE DEF NoTransfer, Wrong
    <2> QED  BY <1>3 DEF IsTransfer
  <1>5. transfers = [t \in Transfers |-> NoTransfer]
    BY DEF ExchangeInit
  <1>6. transfers \in [Transfers -> Transfer] /\ \A t \in Transfers : transfers[t] = NoTransfer
    <2> HIDE DEF NoTransfer
    <2> QED  BY <1>3, <1>5
  <1>7. DOMAIN store = Clients /\ disturbed \in BOOLEAN
    BY DEF ExchangeInit
  <1>8. \A t \in Transfers : ~ At(t, "done")
    <2> HIDE DEF NoTransfer
    <2> QED  BY <1>3, <1>6 DEF At
  <1> HIDE DEF NoTransfer, Wrong
  <1> QED  BY <1>2, <1>4, <1>6, <1>7, <1>8 DEF ExchangeInv

\* A transfer that is over, or begins.
LEMMA OverTransfer ==
  ASSUME NEW w, NEW pc \in {"declined", "failed"}
  PROVE  IsTransfer(w, Over(pc)) /\ Over(pc).pc = pc
  <1>0. <<>> \in Seq(Seq(Byte)) /\ <<>> \in Seq(Keys) /\ <<>> \in Seq(BOOLEAN) /\ Len(<<>>) = 0
    OBVIOUS
  <1> DEFINE tr == Over(pc)
  <1>1. tr \in Transfer /\ tr.pc = pc /\ tr.wanted = <<>> /\ tr.keys = <<>>
    BY <1>0 DEF Over, NoTransfer, Transfer, Phases
  <1> HIDE DEF tr
  <1>2. IsTransfer(w, tr)
    BY <1>0, <1>1 DEF IsTransfer
  <1> QED  BY <1>1, <1>2 DEF tr

LEMMA OfferedTransfer ==
  ASSUME NEW w, NEW n \in Clients, NEW m \in Clients, NEW ks \in KeySequences, NEW tr,
         tr = [NoTransfer EXCEPT !.pc = "offered", !.from = {n}, !.to = {m}, !.keys = ks]
  PROVE  IsTransfer(w, tr) /\ tr.pc = "offered"
  <1>0. <<>> \in Seq(Seq(Byte)) /\ <<>> \in Seq(Keys) /\ <<>> \in Seq(BOOLEAN) /\ Len(<<>>) = 0
    OBVIOUS
  <1>1. ks \in Seq(Keys) /\ 0 < Len(ks)
    <2>1. CASE \E k \in Keys : ks = <<k>>
      BY <2>1
    <2>2. CASE ks \in Keys \X Keys
      <3>1. PICK k \in Keys, l \in Keys : ks = <<k, l>>
        BY <2>2
      <3> QED  BY <3>1
    <2> QED  BY <2>1, <2>2 DEF KeySequences
  <1>2. /\ tr \in Transfer /\ tr.pc = "offered" /\ tr.from = {n} /\ tr.to = {m} /\ tr.keys = ks
        /\ tr.wanted = <<>> /\ tr.contents = <<>>
    BY <1>0, <1>1 DEF NoTransfer, Transfer, Phases
  <1>3. IsTransfer(w, tr)
    BY <1>0, <1>1, <1>2 DEF IsTransfer
  <1> QED  BY <1>2, <1>3

Asked(n, m, k) == [NoTransfer EXCEPT !.pc = "asked", !.from = {n}, !.to = {m},
                                     !.keys = <<k>>, !.wanted = <<TRUE>>]

LEMMA AskedTransfer ==
  ASSUME NEW w, NEW n \in Clients, NEW m \in Clients, NEW k \in Keys
  PROVE  IsTransfer(w, Asked(n, m, k)) /\ Asked(n, m, k).pc = "asked"
  <1>0. <<>> \in Seq(Seq(Byte)) /\ <<>> \in Seq(Keys) /\ <<>> \in Seq(BOOLEAN) /\ Len(<<>>) = 0
    OBVIOUS
  <1> DEFINE tr == Asked(n, m, k)
             one == <<k>>
             mark == <<TRUE>>
  <1>1. one \in Seq(Keys) /\ Len(one) = 1 /\ mark \in Seq(BOOLEAN) /\ Len(mark) = 1
    OBVIOUS
  <1> HIDE DEF one, mark
  <1>2. /\ tr \in Transfer /\ tr.pc = "asked" /\ tr.from = {n} /\ tr.to = {m} /\ tr.keys = one
        /\ tr.wanted = mark /\ tr.contents = <<>>
    <2>1. tr = [NoTransfer EXCEPT !.pc = "asked", !.from = {n}, !.to = {m}, !.keys = one, !.wanted = mark]
      BY DEF one, mark, Asked
    <2> HIDE DEF tr
    <2> QED  BY <1>0, <1>1, <2>1 DEF NoTransfer, Transfer, Phases
  <1> HIDE DEF tr
  <1>3. tr.keys = <<k>> /\ tr.wanted = <<TRUE>>
    BY <1>2 DEF one, mark
  <1>4. IsTransfer(w, tr)
    BY <1>0, <1>1, <1>2, <1>3 DEF IsTransfer
  <1> QED  BY <1>2, <1>4 DEF tr

LEMMA OfferStep ==
  ASSUME ExchangeInv, NEW t \in Transfers, NEW n \in Clients, NEW m \in Clients, NEW ks \in KeySequences,
         Offer(t, n, m, ks)
  PROVE  ExchangeInv'
  <1> DEFINE tr == [NoTransfer EXCEPT !.pc = "offered", !.from = {n}, !.to = {m}, !.keys = ks]
  <1>1. Become(t, tr) /\ UNCHANGED <<store, disturbed>>
    BY DEF Offer
  <1> HIDE DEF tr
  <1>2. IsTransfer(Wrong, tr) /\ tr.pc = "offered"
    BY OfferedTransfer DEF tr
  <1> QED  BY <1>1, <1>2, MovesAlone

LEMMA FindStep ==
  ASSUME ExchangeInv, NEW t \in Transfers, NEW n \in Clients, NEW m \in Clients, NEW k \in Keys,
         Find(t, n, m, k)
  PROVE  ExchangeInv'
  <1>1. Become(t, Asked(n, m, k)) /\ UNCHANGED <<store, disturbed>>
    BY DEF Find, Asked
  <1>2. IsTransfer(Wrong, Asked(n, m, k)) /\ Asked(n, m, k).pc = "asked"
    BY AskedTransfer
  <1> QED  BY <1>1, <1>2, MovesAlone

LEMMA FailStep ==
  ASSUME ExchangeInv, NEW t \in Transfers, Fail(t) PROVE ExchangeInv'
  <1> DEFINE tr == Over("failed")
  <1>1. Become(t, tr) /\ UNCHANGED <<store, disturbed>>
    BY DEF Fail
  <1>2. IsTransfer(Wrong, tr) /\ tr.pc = "failed"
    BY OverTransfer
  <1> HIDE DEF tr
  <1> QED  BY <1>1, <1>2, MovesAlone

\* Content from elsewhere is right for its key.
LEMMA ObtainStep ==
  ASSUME ExchangeInv, NEW n \in Clients, NEW k \in Keys, Obtain(n, k) PROVE ExchangeInv'
  <1> DEFINE s == Add(store[n], k, Bytes[k])
  <1>1. Wrong \in {{}, Loose} /\ IsStore(Wrong, store[n]) /\ Bytes[k] \in Seq(Byte) /\ Right(Wrong, k, Bytes[k])
    BY WrongIs, ExchangeConstants DEF ExchangeInv, Right
  <1>2. IsStore(Wrong, s) /\ DOMAIN store[n] \subseteq DOMAIN s
    <2> HIDE DEF Wrong
    <2> QED  BY <1>1, AddProperties
  <1>3. /\ DOMAIN store' = Clients
        /\ \A m \in Clients : store'[m] = IF m = n THEN s ELSE store[m]
    BY DEF ExchangeInv, Obtain
  <1>4. transfers' = transfers /\ disturbed' = disturbed /\ Wrong' = Wrong
    BY DEF Obtain, Wrong
  <1> HIDE DEF s
  <1>5. \A m \in Clients : IsStore(Wrong, store'[m]) /\ DOMAIN store[m] \subseteq DOMAIN store'[m]
    BY <1>2, <1>3 DEF ExchangeInv
  <1>6. ASSUME NEW t \in Transfers, At(t, "done")
        PROVE  Stored(Wrong, transfers[t], store'[To(t)])
    <2>1. IsTransfer(Wrong, transfers[t]) /\ Stored(Wrong, transfers[t], store[To(t)])
      BY <1>6 DEF ExchangeInv
    <2>2. PICK m \in Clients : transfers[t].to = {m}
      BY <1>6, <2>1 DEF At, IsTransfer
    <2>3. To(t) = m
      BY <2>2, TheOne DEF To
    <2> QED  BY <1>5, <2>1, <2>3, StoredGrows
  <1>7. \A t \in Transfers : To(t)' = To(t) /\ (At(t, "done")' <=> At(t, "done"))
    BY <1>4 DEF To, At
  <1> QED  BY <1>3, <1>4, <1>5, <1>6, <1>7 DEF ExchangeInv

\* What is known of a transfer under way.
LEMMA OfTransfer ==
  ASSUME ExchangeInv, NEW t \in Transfers
  PROVE  /\ transfers[t] \in Transfer /\ IsTransfer(Wrong, transfers[t])
         /\ Wrong \in {{}, Loose} /\ (Wrong = {} <=> ~ disturbed)
         /\ Wanted(transfers[t]) \in Seq(Keys)
  <1>1. transfers[t] \in Transfer /\ IsTransfer(Wrong, transfers[t])
    BY DEF ExchangeInv
  <1> DEFINE tr == transfers[t]
  <1> HIDE DEF tr
  <1>2. tr.keys \in Seq(Keys) /\ tr.wanted \in Seq(BOOLEAN) /\ Len(tr.wanted) <= Len(tr.keys)
    BY <1>1 DEF tr, Transfer, IsTransfer
  <1>3. Wanted(tr) \in Seq(Keys)
    BY <1>2, WantedIs, WantedProperties
  <1> QED  BY <1>1, <1>3, WrongIs DEF tr, ExchangeInv

LEMMA CheckKeyStep ==
  ASSUME ExchangeInv, NEW t \in Transfers, CheckKey(t) PROVE ExchangeInv'
  <1> DEFINE tr == transfers[t]
             b == tr.keys[Len(tr.wanted) + 1] \notin DOMAIN store[To(t)]
             marks == Append(tr.wanted, b)
             more == [tr EXCEPT !.wanted = marks]
             accept == [tr EXCEPT !.wanted = marks, !.pc = "accepted"]
  <1>1. /\ tr \in Transfer /\ IsTransfer(Wrong, tr) /\ tr.pc = "offered"
        /\ UNCHANGED <<store, disturbed>>
        /\ \/ Become(t, more) /\ Len(marks) < Len(tr.keys)
           \/ Become(t, accept)
           \/ Become(t, Over("declined"))
    BY OfTransfer DEF CheckKey, At
  <1>2. b \in BOOLEAN
    OBVIOUS
  <1> HIDE DEF tr, b
  <1>3. /\ tr.wanted \in Seq(BOOLEAN) /\ tr.keys \in Seq(Keys) /\ Len(tr.wanted) < Len(tr.keys)
    BY <1>1 DEF Transfer, IsTransfer
  <1>4. marks \in Seq(BOOLEAN) /\ Len(marks) = Len(tr.wanted) + 1
    BY <1>2, <1>3, AppendProperties
  <1> HIDE DEF marks
  <1>5. Len(marks) <= Len(tr.keys)
    BY <1>3, <1>4
  <1>6. CASE Become(t, more) /\ Len(marks) < Len(tr.keys)
    <2>1. /\ more \in Transfer /\ more.pc = "offered" /\ more.keys = tr.keys /\ more.wanted = marks
          /\ more.from = tr.from /\ more.to = tr.to /\ more.contents = tr.contents
      BY <1>1, <1>4 DEF Transfer
    <2> HIDE DEF more
    <2>2. IsTransfer(Wrong, more)
      BY <1>1, <1>5, <1>6, <2>1 DEF IsTransfer
    <2> QED  BY <1>1, <1>6, <2>1, <2>2, MovesAlone
  <1>7. CASE Become(t, accept)
    <2>1. /\ accept \in Transfer /\ accept.pc = "accepted" /\ accept.keys = tr.keys /\ accept.wanted = marks
          /\ accept.from = tr.from /\ accept.to = tr.to /\ accept.contents = tr.contents
      BY <1>1, <1>4 DEF Transfer, Phases
    <2> HIDE DEF accept
    <2>2. IsTransfer(Wrong, accept)
      BY <1>1, <1>5, <2>1 DEF IsTransfer
    <2> QED  BY <1>1, <1>7, <2>1, <2>2, MovesAlone
  <1>8. CASE Become(t, Over("declined"))
    <2>1. IsTransfer(Wrong, Over("declined")) /\ Over("declined").pc = "declined"
      BY OverTransfer
    <2> QED  BY <1>1, <1>8, <2>1, MovesAlone
  <1> QED  BY <1>1, <1>6, <1>7, <1>8

LEMMA ReceiveAcceptStep ==
  ASSUME ExchangeInv, NEW t \in Transfers, ReceiveAccept(t) PROVE ExchangeInv'
  <1> DEFINE tr == transfers[t]
             W == Wanted(tr)
             du == [tr EXCEPT !.pc = "reading", !.reads = DOMAIN W]
  <1>1. /\ tr \in Transfer /\ IsTransfer(Wrong, tr) /\ tr.pc = "accepted" /\ W \in Seq(Keys)
        /\ UNCHANGED <<store, disturbed>> /\ Become(t, du)
    BY OfTransfer DEF ReceiveAccept, At
  <1> HIDE DEF tr, W
  <1>2. DOMAIN W = 1 .. Len(W) /\ Len(W) \in Nat
    BY <1>1
  <1>3. /\ du \in Transfer /\ du.pc = "reading" /\ du.keys = tr.keys /\ du.wanted = tr.wanted
        /\ du.from = tr.from /\ du.to = tr.to /\ du.contents = tr.contents /\ du.reads = 1 .. Len(W)
    <2> DEFINE reads == DOMAIN W
    <2>1. reads = 1 .. Len(W) /\ reads \in SUBSET Nat /\ du = [tr EXCEPT !.pc = "reading", !.reads = reads]
      BY <1>2
    <2>2. "reading" \in Phases
      BY DEF Phases
    <2> HIDE DEF du, reads
    <2> QED  BY <1>1, <2>1, <2>2 DEF Transfer
  <1> HIDE DEF du
  <1>4. tr.contents = <<>> /\ Len(tr.contents) = 0
    BY <1>1 DEF IsTransfer
  <1>5. Wanted(du) = W
    BY <1>3, WantedIs DEF W
  <1>6. Cardinality(1 .. Len(W)) = Len(W)
    <2> DEFINE n == Len(W)
    <2> HIDE DEF n
    <2>1. n \in Nat /\ 1 \in Int /\ n \in Int
      BY <1>2 DEF n
    <2>2. Cardinality(1 .. n) = IF 1 > n THEN 0 ELSE n - 1 + 1
      BY <2>1, FS_Interval
    <2> QED  BY <2>1, <2>2 DEF n
  <1>7. IsTransfer(Wrong, du)
    <2> DEFINE n == Len(W)
    <2>1. /\ du.reads \subseteq 1 .. n /\ Cardinality(du.reads) + Len(du.contents) = n
          /\ du.reads = Len(du.contents) + 1 .. n /\ Ordered(Wrong, du)
      BY <1>2, <1>3, <1>4, <1>6 DEF Ordered
    <2> HIDE DEF n, Ordered
    <2> QED  BY <1>1, <1>3, <1>5, <2>1 DEF IsTransfer, n
  <1> QED  BY <1>1, <1>3, <1>7, MovesAlone

LEMMA AnswerFindStep ==
  ASSUME ExchangeInv, NEW t \in Transfers, AnswerFind(t) PROVE ExchangeInv'
  <1> DEFINE tr == transfers[t]
             s == store[From(t)]
             k == tr.keys[1]
             pc == IF Len(s[k]) < PacketSize THEN "answered" ELSE "streaming"
             du == [tr EXCEPT !.pc = pc, !.contents = <<s[k]>>]
  <1>1. /\ tr \in Transfer /\ IsTransfer(Wrong, tr) /\ tr.pc = "asked"
        /\ Wrong \in {{}, Loose} /\ (Wrong = {} <=> ~ disturbed)
        /\ UNCHANGED <<store, disturbed>>
        /\ \/ Become(t, Over("failed"))
           \/ k \in DOMAIN s /\ Become(t, du)
    BY OfTransfer DEF AnswerFind, At
  <1>2. /\ \E l \in Keys : tr.keys = <<l>> /\ tr.wanted = <<TRUE>>
        /\ \E n \in Clients : tr.from = {n}
        /\ \E n \in Clients : tr.to = {n}
    <2> HIDE DEF tr
    <2> QED  BY <1>1 DEF IsTransfer
  <1>3. k \in Keys /\ tr.keys = <<k>> /\ tr.wanted = <<TRUE>>
    <2> HIDE DEF tr
    <2> QED  BY <1>2
  <1>4. IsStore(Wrong, s)
    <2>1. From(t) \in Clients
      BY <1>2, TheOne DEF From
    <2> QED  BY <2>1 DEF ExchangeInv
  <1>5. CASE Become(t, Over("failed"))
    <2>1. IsTransfer(Wrong, Over("failed")) /\ Over("failed").pc = "failed"
      BY OverTransfer
    <2> QED  BY <1>1, <1>5, <2>1, MovesAlone
  <1>6. CASE k \in DOMAIN s /\ Become(t, du)
    <2> DEFINE c == s[k]
               cs == <<c>>
    <2>1. c \in Seq(Byte) /\ Right(Wrong, k, c)
      BY <1>4, <1>6 DEF IsStore, Store
    <2>2. pc \in {"answered", "streaming"} /\ pc \in Phases
      BY DEF Phases
    <2>3. du = [tr EXCEPT !.pc = pc, !.contents = cs]
      OBVIOUS
    <2> HIDE DEF tr, c, pc, du
    <2>4. cs \in Seq(Seq(Byte)) /\ Len(cs) = 1 /\ cs[1] = c
      BY <2>1
    <2> HIDE DEF cs
    <2>5. /\ du \in Transfer /\ du.pc = pc /\ du.keys = tr.keys /\ du.wanted = tr.wanted
          /\ du.from = tr.from /\ du.to = tr.to /\ du.contents = cs
      BY <1>1, <2>2, <2>3, <2>4 DEF Transfer
    <2>6. Wanted(du) = <<k>>
      <3> HIDE DEF k
      <3>1. <<k>> \in Seq(Keys) /\ <<TRUE>> \in Seq(BOOLEAN) /\ Len(<<TRUE>>) <= Len(<<k>>)
        BY <1>3
      <3>2. WantedOf(<<k>>, <<TRUE>>) = <<k>>
        BY <1>3, <3>1, WantedProperties
      <3> QED  BY <1>3, <2>5, <3>2, WantedIs
    <2>7. Wrong = {} => c = Bytes[k]
      BY <2>1 DEF Right
    <2> HIDE DEF k
    <2>8. Ordered(Wrong, du) /\ Len(Wanted(du)) = 1
      <3> DEFINE one == <<k>>
      <3>1. Len(one) = 1 /\ one[1] = k
        OBVIOUS
      <3> HIDE DEF one
      <3>2. Wanted(du) = one /\ du.contents = cs
        BY <2>5, <2>6 DEF one
      <3>3. \A i \in 1 .. 1 : one[i] = k /\ cs[i] = c
        BY <2>4, <3>1
      <3>4. Wrong = {} => \A i \in 1 .. 1 : cs[i] = Bytes[one[i]]
        BY <2>7, <3>3
      <3> QED  BY <2>4, <3>1, <3>2, <3>4 DEF Ordered
    <2>9. Right(Wrong, du.keys[1], du.contents[1])
      BY <1>3, <2>1, <2>4, <2>5
    <2>10. IsTransfer(Wrong, du)
      BY <1>1, <1>2, <2>2, <2>4, <2>5, <2>8, <2>9 DEF IsTransfer
    <2> QED  BY <1>1, <1>6, <2>2, <2>5, <2>10, MovesAlone
  <1> QED  BY <1>1, <1>5, <1>6

LEMMA ReceiveContentStep ==
  ASSUME ExchangeInv, NEW t \in Transfers, ReceiveContent(t) PROVE ExchangeInv'
  <1> DEFINE tr == transfers[t]
             k == tr.keys[1]
             c == tr.contents[1]
             r == store[To(t)]
             s == Add(r, k, c)
  <1>1. /\ tr \in Transfer /\ IsTransfer(Wrong, tr) /\ tr.pc = "answered"
        /\ Wrong \in {{}, Loose} /\ (Wrong = {} <=> ~ disturbed)
        /\ disturbed' = disturbed /\ Become(t, Done(tr))
    BY OfTransfer DEF ReceiveContent, At
  <1>2. /\ \E l \in Keys : tr.keys = <<l>> /\ tr.wanted = <<TRUE>>
        /\ \E n \in Clients : tr.to = {n}
        /\ Len(tr.contents) = 1 /\ Right(Wrong, k, c)
    <2> HIDE DEF tr
    <2> QED  BY <1>1 DEF IsTransfer
  <1>3. k \in Keys /\ tr.keys = <<k>> /\ tr.wanted = <<TRUE>> /\ c \in Seq(Byte)
    <2>1. tr.contents \in Seq(Seq(Byte))
      BY <1>1 DEF Transfer
    <2> HIDE DEF tr
    <2> QED  BY <1>2, <2>1
  <1>4. PICK m \in Clients : tr.to = {m}
    BY <1>2
  <1>5. To(t) = m /\ r = store[m]
    BY <1>4, TheOne DEF To
  <1>6. store' = [store EXCEPT ![m] = s]
    BY <1>5 DEF ReceiveContent
  <1>7. IsStore(Wrong, r)
    BY <1>5 DEF ExchangeInv
  <1> HIDE DEF r, c, k
  <1>8. /\ IsStore(Wrong, s) /\ DOMAIN r \subseteq DOMAIN s
        /\ c = Bytes[k] => k \in DOMAIN s \/ Kind[k] = "body"
    <2> HIDE DEF Wrong
    <2> QED  BY <1>1, <1>2, <1>3, <1>7, AddProperties
  <1>9. Stored(Wrong, tr, s)
    <2> HIDE DEF tr, s
    <2>1. <<k>> \in Seq(Keys) /\ <<TRUE>> \in Seq(BOOLEAN) /\ Len(<<TRUE>>) <= Len(<<k>>)
      BY <1>3
    <2>2. WantedOf(<<k>>, <<TRUE>>) = <<k>>
      BY <1>3, <2>1, WantedProperties
    <2>3. Wanted(tr) = <<k>>
      BY <1>3, <2>2, WantedIs
    <2>4. Wrong = {} => k \in DOMAIN s \/ Kind[k] = "body"
      BY <1>2, <1>8 DEF Right
    <2> DEFINE one == <<k>>
    <2>5. Len(one) = 1 /\ one[1] = k
      OBVIOUS
    <2> HIDE DEF one
    <2>6. Wanted(tr) = one
      BY <2>3 DEF one
    <2>7. \A i \in 1 .. 1 : one[i] = k
      BY <2>5
    <2>8. Wrong = {} => \A i \in 1 .. 1 : one[i] \in DOMAIN s \/ Kind[one[i]] = "body"
      BY <2>4, <2>7
    <2> QED  BY <2>5, <2>6, <2>8 DEF Stored
  <1> HIDE DEF s
  <1>10. Wrong' = Wrong
    BY <1>1 DEF Wrong
  <1>11. disturbed' \in BOOLEAN /\ (disturbed => disturbed')
    BY <1>1 DEF ExchangeInv
  <1>12. IsStore(Wrong', s) /\ Grows(store[m], s) /\ Stored(Wrong', transfers[t], s)
    BY <1>5, <1>8, <1>9, <1>10 DEF Grows
  <1>13. transfers[t].pc \in {"answered", "streaming"} /\ transfers[t].to = {m} /\ Become(t, Done(transfers[t]))
    BY <1>1, <1>4
  <1> HIDE DEF Wrong, tr
  <1>14. Delivers(t, m, s)
    BY <1>6, <1>11, <1>12, <1>13 DEF Delivers
  <1> QED  BY <1>14, MovesToDone

\* Both ends of a stream, which may lack chunks.
LEMMA StreamStep ==
  ASSUME ExchangeInv, NEW t \in Transfers, At(t, "streaming"), NEW contents,
         \A i \in 1 .. Len(Wanted(transfers[t])) :
           contents[i] \in Seq(Byte) /\ (disturbed' \/ contents[i] = Bytes[Wanted(transfers[t])[i]]),
         store' = [store EXCEPT ![To(t)] = AddAll(@, Wanted(transfers[t]), contents)],
         Become(t, Done(transfers[t])),
         disturbed' \in BOOLEAN, disturbed => disturbed'
  PROVE  ExchangeInv'
  <1> DEFINE tr == transfers[t]
             r == store[To(t)]
             W == Wanted(tr)
             s == AddAll(r, W, contents)
             w == Wrong'
  <1>1. /\ tr \in Transfer /\ IsTransfer(Wrong, tr) /\ tr.pc = "streaming" /\ W \in Seq(Keys)
        /\ Wrong \in {{}, Loose} /\ (Wrong = {} <=> ~ disturbed)
    BY OfTransfer DEF At
  <1>2. PICK m \in Clients : tr.to = {m}
    <2> HIDE DEF tr
    <2> QED  BY <1>1 DEF IsTransfer
  <1>3. To(t) = m /\ r = store[m]
    BY <1>2, TheOne DEF To
  <1>4. store' = [store EXCEPT ![m] = s]
    BY <1>3
  <1>5. w \in {{}, Loose} /\ (w = {} <=> ~ disturbed') /\ Wrong \subseteq w
    BY <1>1 DEF Wrong, Loose
  <1> HIDE DEF w
  <1>6. IsStore(w, r)
    <2>1. IsStore(Wrong, r)
      BY <1>3 DEF ExchangeInv
    <2> QED  BY <1>1, <1>5, <2>1, Disturbance
  <1>7. \A i \in 1 .. Len(W) : contents[i] \in Seq(Byte) /\ (w # {} \/ contents[i] = Bytes[W[i]])
    BY <1>5
  <1> HIDE DEF r, W
  <1>8. /\ IsStore(w, s) /\ DOMAIN r \subseteq DOMAIN s
        /\ w = {} => \A i \in 1 .. Len(W) : W[i] \in DOMAIN s \/ Kind[W[i]] = "body"
    BY <1>1, <1>5, <1>6, <1>7, AddAllProperties
  <1> HIDE DEF s
  <1>9. Stored(w, tr, s)
    BY <1>8 DEF Stored, W
  <1>10. IsStore(Wrong', s) /\ Grows(store[m], s) /\ Stored(Wrong', transfers[t], s)
    BY <1>3, <1>8, <1>9 DEF w, Grows
  <1>11. transfers[t].pc \in {"answered", "streaming"} /\ transfers[t].to = {m} /\ Become(t, Done(transfers[t]))
    BY <1>1, <1>2
  <1> HIDE DEF Wrong, tr
  <1>12. Delivers(t, m, s)
    BY <1>4, <1>10, <1>11 DEF Delivers
  <1> QED  BY <1>12, MovesToDone

LEMMA StreamArrivesStep ==
  ASSUME ExchangeInv, NEW t \in Transfers, StreamArrives(t) PROVE ExchangeInv'
  <1> DEFINE tr == transfers[t]
             W == Wanted(tr)
             cs == Carried(tr)
  <1>1. /\ tr \in Transfer /\ IsTransfer(Wrong, tr) /\ tr.pc = "streaming"
        /\ (Wrong = {} <=> ~ disturbed) /\ Become(t, Done(tr)) /\ disturbed' = disturbed
        /\ store' = [store EXCEPT ![To(t)] = AddAll(@, W, cs)]
    BY OfTransfer DEF StreamArrives, At
  <1> HIDE DEF tr
  <1>2. Len(tr.contents) = Len(W) /\ Ordered(Wrong, tr) /\ tr.contents \in Seq(Seq(Byte))
    BY <1>1 DEF IsTransfer, Transfer
  <1>3. cs = tr.contents
    BY <1>1, <1>2, CarriedIs
  <1>4. \A i \in 1 .. Len(W) : cs[i] \in Seq(Byte) /\ (disturbed' \/ cs[i] = Bytes[W[i]])
    BY <1>1, <1>2, <1>3 DEF Ordered
  <1>5. disturbed' \in BOOLEAN /\ (disturbed => disturbed')
    BY <1>1 DEF ExchangeInv
  <1> HIDE DEF cs
  <1> QED  BY <1>1, <1>4, <1>5, StreamStep DEF At, tr

LEMMA StreamArrivesShortStep ==
  ASSUME ExchangeInv, NEW t \in Transfers, NEW intact \in Nat, StreamArrivesShort(t, intact)
  PROVE  ExchangeInv'
  <1> DEFINE tr == transfers[t]
             W == Wanted(tr)
             cs == [i \in DOMAIN W |-> IF i <= intact THEN Carried(tr)[i] ELSE Garbage]
  <1>1. /\ tr \in Transfer /\ IsTransfer(Wrong, tr) /\ tr.pc = "streaming" /\ W \in Seq(Keys)
        /\ Become(t, Done(tr)) /\ disturbed' = TRUE
        /\ store' = [store EXCEPT ![To(t)] = AddAll(@, W, cs)]
    BY OfTransfer DEF StreamArrivesShort, At
  <1> HIDE DEF tr
  <1>2. Len(tr.contents) = Len(W) /\ tr.contents \in Seq(Seq(Byte))
    BY <1>1 DEF IsTransfer, Transfer
  <1>3. Carried(tr) = tr.contents
    BY <1>1, <1>2, CarriedIs
  <1>4. \A i \in 1 .. Len(W) : cs[i] \in Seq(Byte)
    <2>1. DOMAIN W = 1 .. Len(W)
      BY <1>1
    <2>2. \A i \in 1 .. Len(W) : tr.contents[i] \in Seq(Byte)
      BY <1>2
    <2> QED  BY <1>3, <2>1, <2>2, ExchangeConstants
  <1> HIDE DEF cs
  <1> QED  BY <1>1, <1>4, StreamStep DEF At, tr

\* What is read is, without a disturbance, the content of the next key.
LEMMA ReadDoneStep ==
  ASSUME ExchangeInv, NEW t \in Transfers, NEW i, ReadDone(t, i) PROVE ExchangeInv'
  <1> DEFINE tr == transfers[t]
             W == Wanted(tr)
             s == store[From(t)]
             k == W[i]
             c == IF k \in DOMAIN s THEN s[k] ELSE <<>>
             left == tr.reads \ {i}
             read == Append(tr.contents, c)
             pc == IF left # {} THEN "reading" ELSE IF read = << <<>> >> THEN "hung" ELSE "streaming"
             du == [tr EXCEPT !.reads = left, !.contents = read, !.pc = pc]
             w == Wrong'
             n == Len(tr.contents)
             l == Len(W)
  <1>1. /\ tr \in Transfer /\ IsTransfer(Wrong, tr) /\ tr.pc = "reading" /\ W \in Seq(Keys)
        /\ Wrong \in {{}, Loose} /\ (Wrong = {} <=> ~ disturbed)
        /\ Become(t, du) /\ i \in tr.reads /\ store' = store
        /\ disturbed' = (disturbed \/ k \notin DOMAIN s \/ i # Min(tr.reads))
    BY OfTransfer DEF ReadDone, At
  <1>2. disturbed' \in BOOLEAN /\ (disturbed => disturbed')
    <2>1. disturbed \in BOOLEAN
      BY DEF ExchangeInv
    <2> QED  BY <1>1, <2>1
  <1>3. w \in {{}, Loose} /\ (w = {} <=> ~ disturbed') /\ Wrong \subseteq w
    BY <1>1, <1>2 DEF Wrong, Loose
  <1>4. IsStore(Wrong, s)
    <2>1. \E m \in Clients : tr.from = {m}
      <3> HIDE DEF tr
      <3> QED  BY <1>1 DEF IsTransfer
    <2>2. From(t) \in Clients
      BY <2>1, TheOne DEF From
    <2> QED  BY <2>2 DEF ExchangeInv
  <1>5. w = {} => Wrong = {} /\ k \in DOMAIN s /\ i = Min(tr.reads)
    BY <1>1, <1>2, <1>3
  <1>6. c \in Seq(Byte) /\ (w = {} => c = Bytes[k])
    <2> HIDE DEF w, k
    <2>1. k \in DOMAIN s => s[k] \in Seq(Byte) /\ Right(Wrong, k, s[k])
      BY <1>4 DEF IsStore, Store
    <2>2. <<>> \in Seq(Byte)
      OBVIOUS
    <2> QED  BY <1>5, <2>1, <2>2 DEF Right
  <1> HIDE DEF w, c, tr, W
  <1>7. /\ tr.reads \subseteq 1 .. l /\ l \in Nat /\ n \in Nat /\ tr.contents \in Seq(Seq(Byte))
        /\ Cardinality(tr.reads) + n = l
        /\ Wrong = {} => tr.reads = n + 1 .. l
        /\ Ordered(Wrong, tr)
    BY <1>1 DEF IsTransfer, Transfer, W
  <1>8. read \in Seq(Seq(Byte)) /\ Len(read) = n + 1 /\ read[n + 1] = c
        /\ \A j \in 1 .. n : read[j] = tr.contents[j]
    BY <1>6, <1>7, AppendProperties
  <1>9. pc \in {"reading", "hung", "streaming"} /\ pc \in Phases
    BY DEF Phases
  <1>10. pc = "streaming" => left = {}
    OBVIOUS
  <1> HIDE DEF pc, read, n
  <1>11. left \in SUBSET Nat /\ left \subseteq 1 .. l
    BY <1>7
  <1>12. Cardinality(left) + (n + 1) = l /\ (left = {} => n + 1 = l)
    <2>1. IsFiniteSet(1 .. l)
      <3> HIDE DEF l
      <3>1. 1 \in Int /\ l \in Int
        BY <1>7
      <3> QED  BY <3>1, FS_Interval
    <2>2. IsFiniteSet(tr.reads)
      BY <1>7, <2>1, FS_Subset
    <2>3. Cardinality(tr.reads) \in Nat
      BY <2>2, FS_CardinalityType
    <2>4. Cardinality(left) = Cardinality(tr.reads) - 1
      BY <1>1, <2>2, FS_RemoveElement
    <2>5. left = {} => Cardinality(left) = 0
      BY FS_EmptySet
    <2> QED  BY <1>7, <2>3, <2>4, <2>5
  <1>13. ASSUME w = {} PROVE i = n + 1 /\ left = n + 2 .. l
    <2>1. tr.reads = n + 1 .. l /\ i = Min(tr.reads) /\ i \in tr.reads
      BY <1>1, <1>5, <1>7, <1>13
    <2>2. n + 1 \in tr.reads /\ \A y \in tr.reads : n + 1 <= y
      BY <1>7, <2>1
    <2>3. tr.reads \in SUBSET Int
      BY <1>7
    <2>4. i = n + 1
      BY <2>1, <2>2, <2>3, MinOfInitial
    <2> QED  BY <1>7, <2>1, <2>4
  <1> HIDE DEF left
  <1>14. /\ du \in Transfer /\ du.pc = pc /\ du.keys = tr.keys /\ du.wanted = tr.wanted
         /\ du.from = tr.from /\ du.to = tr.to /\ du.contents = read /\ du.reads = left
    BY <1>1, <1>8, <1>9, <1>11 DEF Transfer
  <1> HIDE DEF du, l
  <1>15. Wanted(du) = W
    BY <1>14, WantedIs DEF W
  <1>16. Ordered(w, du)
    <2> SUFFICES ASSUME w = {}, NEW j \in 1 .. Len(read) PROVE read[j] = Bytes[W[j]]
      BY <1>14, <1>15 DEF Ordered
    <2>1. CASE j \in 1 .. n
      <3>1. tr.contents[j] = Bytes[W[j]]
        BY <1>5, <1>7, <2>1 DEF Ordered, W, n
      <3> QED  BY <1>8, <2>1, <3>1
    <2>2. CASE j = n + 1
      BY <1>6, <1>8, <1>13, <2>2
    <2>3. j \in 1 .. n \/ j = n + 1
      BY <1>7, <1>8
    <2> QED  BY <2>1, <2>2, <2>3
  <1>17. IsTransfer(w, du)
    <2>1. /\ du.reads \subseteq 1 .. l /\ Cardinality(du.reads) + Len(du.contents) = l
          /\ w = {} => du.reads = Len(du.contents) + 1 .. l
      <3>1. (n + 1) + 1 = n + 2
        BY <1>7
      <3> QED  BY <1>8, <1>11, <1>12, <1>13, <1>14, <3>1
    <2>2. pc = "streaming" => Len(du.contents) = l
      BY <1>8, <1>10, <1>12, <1>14
    <2>3. l = Len(Wanted(du))
      BY <1>15 DEF l
    <2> QED  BY <1>1, <1>9, <1>14, <1>16, <2>1, <2>2, <2>3 DEF IsTransfer
  <1>18. /\ DOMAIN store' = Clients
         /\ \A m \in Clients : IsStore(w, store'[m]) /\ DOMAIN store[m] \subseteq DOMAIN store'[m]
    <2>1. DOMAIN store = Clients /\ \A m \in Clients : IsStore(Wrong, store[m])
      BY DEF ExchangeInv
    <2>2. \A m \in Clients : IsStore(w, store[m])
      BY <1>1, <1>3, <2>1, Disturbance
    <2> QED  BY <1>1, <2>1, <2>2
  <1>19. transfers' = [transfers EXCEPT ![t] = du] /\ du.pc # "done"
    BY <1>1, <1>9, <1>14 DEF Become
  <1> QED  BY <1>2, <1>17, <1>18, <1>19, Moves DEF w

LEMMA ExchangeStep == ExchangeInv /\ [ExchangeNext]_exchangeVars => ExchangeInv'
  <1> SUFFICES ASSUME ExchangeInv, [ExchangeNext]_exchangeVars PROVE ExchangeInv'
    OBVIOUS
  <1>1. CASE UNCHANGED exchangeVars
    <2>1. store' = store /\ transfers' = transfers /\ disturbed' = disturbed /\ Wrong' = Wrong
      BY <1>1 DEF exchangeVars, Wrong
    <2>2. \A t \in Transfers : To(t)' = To(t) /\ (At(t, "done")' <=> At(t, "done"))
      BY <2>1 DEF To, At
    <2> QED  BY <2>1, <2>2 DEF ExchangeInv
  <1>2. CASE \E n \in Clients, k \in Keys : Obtain(n, k)
    BY <1>2, ObtainStep
  <1>3. CASE \E t \in Transfers, from, to \in Clients : \E ks \in KeySequences : Offer(t, from, to, ks)
    BY <1>3, OfferStep
  <1>4. CASE \E t \in Transfers, from, to \in Clients : \E k \in Keys : Find(t, from, to, k)
    BY <1>4, FindStep
  <1>5. CASE \E t \in Transfers : Step(t)
    <2> SUFFICES ASSUME NEW t \in Transfers, Step(t) PROVE ExchangeInv'
      BY <1>5
    <2>1. CASE CheckKey(t)
      BY <2>1, CheckKeyStep
    <2>2. CASE ReceiveAccept(t)
      BY <2>2, ReceiveAcceptStep
    <2>3. CASE AnswerFind(t)
      BY <2>3, AnswerFindStep
    <2>4. CASE ReceiveContent(t)
      BY <2>4, ReceiveContentStep
    <2>5. CASE \E i \in transfers[t].reads : ReadDone(t, i)
      BY <2>5, ReadDoneStep
    <2>6. CASE StreamArrives(t)
      BY <2>6, StreamArrivesStep
    <2>7. CASE \E intact \in 0 .. Len(transfers[t].keys) : StreamArrivesShort(t, intact)
      <3>1. Len(transfers[t].keys) \in Nat
        BY DEF ExchangeInv, Transfer
      <3> QED  BY <2>7, <3>1, StreamArrivesShortStep
    <2>8. CASE Fail(t)
      BY <2>8, FailStep
    <2> QED  BY <2>1, <2>2, <2>3, <2>4, <2>5, <2>6, <2>7, <2>8 DEF Step
  <1> QED  BY <1>1, <1>2, <1>3, <1>4, <1>5 DEF ExchangeNext

THEOREM ExchangeInvariant == ExchangeSpec => []ExchangeInv
  BY ExchangeInitial, ExchangeStep, PTL DEF ExchangeSpec

THEOREM WrongOnlyIfDisturbedAlways == ExchangeSpec => []WrongOnlyIfDisturbed
  <1>1. ExchangeInv => WrongOnlyIfDisturbed
    <2> SUFFICES ASSUME ExchangeInv, NEW n \in Clients, NEW k \in DOMAIN store[n], store[n][k] # Bytes[k]
                 PROVE  disturbed /\ Kind[k] \in {"body", "receipt"}
      BY DEF WrongOnlyIfDisturbed
    <2>1. Right(Wrong, k, store[n][k])
      BY DEF ExchangeInv, IsStore
    <2> QED  BY <2>1 DEF Right, Wrong, Loose
  <1> QED  BY <1>1, ExchangeInvariant, PTL

THEOREM DoneMeansStoredAlways == ExchangeSpec => []DoneMeansStored
  <1>1. ExchangeInv => DoneMeansStored
    <2> SUFFICES ASSUME ExchangeInv, NEW t \in Transfers, At(t, "done"), ~ disturbed,
                        NEW k \in ToSet(Wanted(transfers[t]))
                 PROVE  k \in DOMAIN store[To(t)] \/ Kind[k] = "body"
      BY DEF DoneMeansStored
    <2>1. Wanted(transfers[t]) \in Seq(Keys) /\ Wrong = {} /\ Stored(Wrong, transfers[t], store[To(t)])
      BY OfTransfer DEF ExchangeInv
    <2>2. PICK i \in 1 .. Len(Wanted(transfers[t])) : k = Wanted(transfers[t])[i]
      BY <2>1 DEF ToSet
    <2> QED  BY <2>1, <2>2 DEF Stored
  <1> QED  BY <1>1, ExchangeInvariant, PTL

==============================================================================
