-------------------------- MODULE UtpNetworkProofs --------------------------
(***************************************************************************)
(* Lemmas about the operators both streams are built from: the             *)
(* packets and sockets, and what a delivery does to the packets in flight. *)
(***************************************************************************)
EXTENDS UtpNetwork, ListLemmas

----------------------------------------------------------------------------
(* Packets and sockets.                                                    *)

LEMMA AddPacketProperties ==
  ASSUME NEW s \in Seq(Segment), NEW seg \in Segment
  PROVE  /\ AddPacket(s, seg) \in Seq(Segment)
         /\ Len(AddPacket(s, seg)) = Len(s) + 1
         /\ \A j \in 1 .. Len(s) + 1 :
              AddPacket(s, seg)[j] =
                IF j <= Len(s) /\ s[j].seqNr <= seg.seqNr THEN s[j]
                ELSE IF j = 1 \/ s[j-1].seqNr <= seg.seqNr THEN seg ELSE s[j-1]
  <1> DEFINE n == Len(s) + 1
             a == AddPacket(s, seg)
  <1>1. \A j \in 1..n : a[j] \in Segment
    BY DEF AddPacket
  <1>2. n \in Nat /\ a = [j \in 1..n |-> a[j]]
    BY DEF AddPacket
  <1>3. a \in Seq(Segment) /\ Len(a) = n
    <2> HIDE DEF a, n
    <2> QED  BY <1>1, <1>2
  <1> QED  BY <1>3 DEF AddPacket

\* A packet that is not yet held gets in between the lower and the higher
\* numbers, and nothing gets lost.
LEMMA AddPacketKeepsOrder ==
  ASSUME NEW s \in Seq(Segment), NEW seg \in Segment,
         \A j, k \in 1 .. Len(s) : j < k => s[j].seqNr < s[k].seqNr,
         \A k \in 1 .. Len(s) : s[k].seqNr # seg.seqNr
  PROVE  LET a == AddPacket(s, seg) IN
         /\ \A j, k \in 1 .. Len(a) : j < k => a[j].seqNr < a[k].seqNr
         /\ \A k \in 1 .. Len(s) : \E j \in 1 .. Len(a) : a[j] = s[k]
         /\ \E j \in 1 .. Len(a) : a[j] = seg
  <1> DEFINE a == AddPacket(s, seg)
             n == Len(s)
  <1>1. /\ a \in Seq(Segment) /\ Len(a) = n + 1 /\ n \in Nat
        /\ \A j \in 1 .. n + 1 :
             a[j] = IF j <= n /\ s[j].seqNr <= seg.seqNr THEN s[j]
                    ELSE IF j = 1 \/ s[j-1].seqNr <= seg.seqNr THEN seg ELSE s[j-1]
    <2>1. Len(s) \in Nat
      OBVIOUS
    <2> QED  BY <2>1, AddPacketProperties, Zenon
  <1>2. seg.seqNr \in Nat /\ \A j \in 1 .. n : s[j].seqNr \in Nat
    <2>1. \A j \in 1 .. Len(s) : s[j] \in Segment
      OBVIOUS
    <2> QED  BY <2>1 DEF Segment
  <1>3. \A j, k \in 1 .. n : j < k => s[j].seqNr < s[k].seqNr
    OBVIOUS
  <1>4. \A k \in 1 .. n : s[k].seqNr # seg.seqNr
    OBVIOUS
  <1> HIDE DEF a, n
  <1>5. ASSUME NEW j \in 1 .. n + 1, NEW k \in 1 .. n + 1, j < k
        PROVE  a[j].seqNr < a[k].seqNr
    <2>1. CASE j <= n /\ s[j].seqNr <= seg.seqNr
      <3>1. a[j] = s[j] /\ j \in 1 .. n /\ s[j].seqNr < seg.seqNr
        BY <1>1, <1>2, <1>4, <2>1
      <3>2. CASE k <= n /\ s[k].seqNr <= seg.seqNr
        BY <1>1, <1>3, <1>5, <3>1, <3>2
      <3>3. CASE ~ (k <= n /\ s[k].seqNr <= seg.seqNr) /\ s[k-1].seqNr <= seg.seqNr
        BY <1>1, <3>1, <3>3
      <3>4. CASE ~ (k <= n /\ s[k].seqNr <= seg.seqNr) /\ ~ (s[k-1].seqNr <= seg.seqNr)
        <4>1. k - 1 \in 1 .. n /\ a[k] = s[k-1]
          BY <1>1, <1>5, <3>4
        <4> QED  BY <1>2, <3>1, <3>4, <4>1
      <3> QED  BY <3>2, <3>3, <3>4
    <2>2. CASE ~ (j <= n /\ s[j].seqNr <= seg.seqNr)
      <3>1. k - 1 \in 1 .. n /\ j \in 1 .. n /\ seg.seqNr < s[j].seqNr
        BY <1>1, <1>2, <1>5, <2>2
      <3>2. seg.seqNr < s[k-1].seqNr
        <4>1. CASE j = k - 1
          BY <3>1, <4>1
        <4>2. CASE j < k - 1
          BY <1>2, <1>3, <3>1, <4>2
        <4> QED  BY <1>1, <1>5, <4>1, <4>2
      <3>3. ~ (k <= n /\ s[k].seqNr <= seg.seqNr)
        <4>1. CASE k \in 1 .. n
          <5>1. s[k-1].seqNr < s[k].seqNr
            BY <1>3, <3>1, <4>1
          <5> QED  BY <1>2, <3>1, <3>2, <4>1, <5>1
        <4> QED  BY <1>1, <4>1
      <3>4. a[k] = s[k-1]
        BY <1>1, <1>2, <1>5, <3>1, <3>2, <3>3
      <3>5. CASE j = 1 \/ s[j-1].seqNr <= seg.seqNr
        <4>1. a[j] = seg
          BY <1>1, <2>2, <3>5
        <4> QED  BY <3>2, <3>4, <4>1
      <3>6. CASE ~ (j = 1 \/ s[j-1].seqNr <= seg.seqNr)
        <4>1. a[j] = s[j-1] /\ j - 1 \in 1 .. n /\ j - 1 < k - 1
          BY <1>1, <1>5, <2>2, <3>6
        <4> QED  BY <1>3, <3>1, <3>4, <4>1
      <3> QED  BY <3>5, <3>6
    <2> QED  BY <2>1, <2>2
  <1>6. ASSUME NEW k \in 1 .. n PROVE \E j \in 1 .. n + 1 : a[j] = s[k]
    <2>1. CASE s[k].seqNr <= seg.seqNr
      BY <1>1, <2>1
    <2>2. CASE ~ (s[k].seqNr <= seg.seqNr)
      <3>1. k + 1 \in 1 .. n + 1 /\ k + 1 # 1 /\ (k + 1) - 1 = k
        BY <1>1
      <3>2. ~ (k + 1 <= n /\ s[k+1].seqNr <= seg.seqNr)
        <4>1. CASE k + 1 \in 1 .. n
          <5>1. s[k].seqNr < s[k+1].seqNr
            BY <1>3, <4>1
          <5> QED  BY <1>2, <2>2, <4>1, <5>1
        <4> QED  BY <1>1, <3>1, <4>1
      <3>3. a[k+1] = s[k]
        BY <1>1, <2>2, <3>1, <3>2
      <3> QED  BY <3>1, <3>3
    <2> QED  BY <2>1, <2>2
  <1>7. \E j \in 1 .. n + 1 : a[j] = seg
    <2> DEFINE T == {j \in 1 .. n + 1 : ~ (j <= n /\ s[j].seqNr <= seg.seqNr)}
    <2>1. n + 1 \in T /\ T \subseteq Nat
      BY <1>1
    <2>2. PICK m \in T : \A j \in T : m <= j
      <3> HIDE DEF T
      <3> QED  BY <2>1, LeastNumber
    <2>3. m = 1 \/ s[m-1].seqNr <= seg.seqNr
      <3>1. CASE m # 1
        <4>1. m - 1 \in 1 .. n + 1 /\ m - 1 \notin T
          BY <1>1, <2>2, <3>1
        <4> QED  BY <4>1
      <3> QED  BY <3>1
    <2> QED  BY <1>1, <2>3
  <1> QED  BY <1>1, <1>5, <1>6, <1>7 DEF a, n

\* What is held afterwards was held before, or is the packet.
LEMMA AddPacketOnly ==
  ASSUME NEW s \in Seq(Segment), NEW seg \in Segment
  PROVE  LET a == AddPacket(s, seg) IN
         \A j \in 1 .. Len(a) : a[j] = seg \/ \E k \in 1 .. Len(s) : a[j] = s[k]
  <1> DEFINE a == AddPacket(s, seg)
  <1>1. Len(s) \in Nat
    OBVIOUS
  <1>2. /\ Len(a) = Len(s) + 1
        /\ \A j \in 1 .. Len(s) + 1 :
             a[j] = IF j <= Len(s) /\ s[j].seqNr <= seg.seqNr THEN s[j]
                    ELSE IF j = 1 \/ s[j-1].seqNr <= seg.seqNr THEN seg ELSE s[j-1]
    BY AddPacketProperties, Zenon
  <1> HIDE DEF a
  <1>3. \A j \in 1 .. Len(s) + 1 : a[j] = seg \/ \E k \in 1 .. Len(s) : a[j] = s[k]
    <2> TAKE j \in 1 .. Len(s) + 1
    <2>1. CASE j <= Len(s) /\ s[j].seqNr <= seg.seqNr
      BY <1>1, <1>2, <2>1
    <2>2. CASE ~ (j <= Len(s) /\ s[j].seqNr <= seg.seqNr) /\ (j = 1 \/ s[j-1].seqNr <= seg.seqNr)
      BY <1>2, <2>2
    <2>3. CASE ~ (j <= Len(s) /\ s[j].seqNr <= seg.seqNr) /\ ~ (j = 1 \/ s[j-1].seqNr <= seg.seqNr)
      <3>1. a[j] = s[j-1] /\ j - 1 \in 1 .. Len(s)
        BY <1>1, <1>2, <2>3
      <3> QED  BY <3>1
    <2> QED  BY <2>1, <2>2, <2>3
  <1> QED  BY <1>2, <1>3 DEF a

\* Taking a packet out of some with different numbers takes out its number.
LEMMA WithoutDiffers ==
  ASSUME NEW s \in Seq(Packet), NEW i \in 1 .. Len(s),
         \A j, k \in 1 .. Len(s) : s[j].seqNr = s[k].seqNr => j = k
  PROVE  LET w == Without(s, i) IN
         /\ \A j, k \in 1 .. Len(w) : w[j].seqNr = w[k].seqNr => j = k
         /\ \A q \in Range(w) : q.seqNr # s[i].seqNr
  <1> DEFINE w == Without(s, i)
             n == Len(s)
             at(m) == IF m < i THEN m ELSE m + 1
  <1>1. /\ w \in Seq(Packet) /\ Len(w) = n - 1
        /\ \A k \in 1 .. n - 1 : w[k] = s[at(k)]
    BY WithoutProperties
  <1>2. n \in Nat /\ i \in 1 .. n
    OBVIOUS
  <1>3. \A j, k \in 1 .. n : s[j].seqNr = s[k].seqNr => j = k
    OBVIOUS
  <1> HIDE DEF w, n
  <1>4. \A k \in 1 .. n - 1 : at(k) \in 1 .. n /\ at(k) # i
    BY <1>2
  <1>5. \A j, k \in 1 .. n - 1 : at(j) = at(k) => j = k
    BY <1>2
  <1> HIDE DEF at
  <1>6. \A j, k \in 1 .. n - 1 : w[j].seqNr = w[k].seqNr => j = k
    BY <1>1, <1>3, <1>4, <1>5
  <1>7. \A k \in 1 .. n - 1 : w[k].seqNr # s[i].seqNr
    BY <1>1, <1>2, <1>3, <1>4
  <1>8. \A q \in Range(w) : q.seqNr # s[i].seqNr
    <2> TAKE q \in Range(w)
    <2>1. PICK k \in 1 .. n - 1 : q = w[k]
      BY <1>1, InRange
    <2> QED  BY <1>7, <2>1
  <1>9. \A j, k \in 1 .. Len(w) : w[j].seqNr = w[k].seqNr => j = k
    BY <1>1, <1>6
  <1> QED  BY <1>8, <1>9 DEF w

LEMMA PacketType ==
  ASSUME NEW type \in {"SYN", "STATE", "DATA", "FIN"}, NEW nr \in Nat,
         NEW ack \in Int, NEW payload \in 0..N
  PROVE  MakePacket(type, nr, ack, payload) \in Packet
  BY DEF MakePacket, Packet

LEMMA BurstProperties ==
  ASSUME NEW sk \in Socket
  PROVE  /\ Burst(sk) \in Seq(Packet)
         /\ Len(Burst(sk)) = N + 1
         /\ \A j \in 1..N : Burst(sk)[j] = MakePacket("DATA", sk.seqNr + j - 1, sk.ackNr, j)
         /\ Burst(sk)[N+1] = MakePacket("FIN", sk.seqNr + N, sk.ackNr, 0)
  <1> DEFINE b == Burst(sk)
  <1> USE SocketAssumption
  <1>1. \A j \in 1..N : b[j] = MakePacket("DATA", sk.seqNr + j - 1, sk.ackNr, j)
    BY DEF Burst
  <1>2. b[N+1] = MakePacket("FIN", sk.seqNr + N, sk.ackNr, 0)
    BY DEF Burst
  <1>3. sk.seqNr \in Nat /\ sk.ackNr \in Int
    BY DEF Socket
  <1>4. \A j \in 1..N+1 : b[j] \in Packet
    <2> HIDE DEF b
    <2>1. \A j \in 1..N : b[j] \in Packet
      <3> TAKE j \in 1..N
      <3>1. sk.seqNr + j - 1 \in Nat /\ j \in 0..N
        BY <1>3
      <3> QED  BY <1>1, <1>3, <3>1, PacketType
    <2>2. b[N+1] \in Packet
      <3>1. sk.seqNr + N \in Nat /\ 0 \in 0..N
        BY <1>3
      <3> QED  BY <1>2, <1>3, <3>1, PacketType
    <2> QED  BY <2>1, <2>2
  <1>5. b = [j \in 1..N+1 |-> b[j]]
    BY DEF Burst
  <1>6. b \in Seq(Packet) /\ Len(b) = N + 1
    <2> HIDE DEF b
    <2> QED  BY <1>4, <1>5
  <1> QED  BY <1>1, <1>2, <1>6
----------------------------------------------------------------------------
(* The network.                                                            *)

LEMMA DeliverType ==
  ASSUME NetTypeOK, NEW r \in Roles, NEW i \in 1 .. Len(chan[r]),
         NEW keep \in BOOLEAN, NEW out \in Seq(Packet), Deliver(r, i, keep, out)
  PROVE  NetTypeOK'
  <1>1. chan[r] \in Seq(Packet) /\ chan[Other(r)] \in Seq(Packet)
        /\ Other(r) \in Roles /\ Other(r) # r
    BY DEF NetTypeOK, Other, Roles
  <1>2. Without(chan[r], i) \in Seq(Packet)
    BY <1>1, WithoutProperties
  <1>3. chan[Other(r)] \o out \in Seq(Packet)
    BY <1>1, ConcatenationProperties
  <1>4. chan' \in [Roles -> Seq(Packet)]
    BY <1>1, <1>2, <1>3 DEF Deliver, NetTypeOK
  <1>5. lost' \in 0..MaxLost /\ dups' \in 0..MaxDups /\ overtaken' \in 0..MaxOvertaken
    BY NetworkAssumption DEF Deliver, NetTypeOK
  <1> QED  BY <1>4, <1>5 DEF NetTypeOK

LEMMA SendType ==
  ASSUME NetTypeOK, NEW r \in Roles, NEW out \in Seq(Packet), Send(r, out)
  PROVE  NetTypeOK'
  <1>1. chan[Other(r)] \in Seq(Packet) /\ Other(r) \in Roles
    BY DEF NetTypeOK, Other, Roles
  <1>2. chan[Other(r)] \o out \in Seq(Packet)
    BY <1>1, ConcatenationProperties
  <1> QED  BY <1>1, <1>2 DEF Send, NetTypeOK

LEMMA LoseType ==
  ASSUME NetTypeOK, NEW r \in Roles, Lose(r)
  PROVE  NetTypeOK'
  <1> PICK i \in 1 .. Len(chan[r]) :
         /\ lost < MaxLost
         /\ lost' = lost + 1
         /\ chan' = [chan EXCEPT ![r] = Without(@, i)]
         /\ UNCHANGED <<dups, overtaken>>
    BY DEF Lose
  <1>1. chan[r] \in Seq(Packet)
    BY DEF NetTypeOK
  <1>2. Without(chan[r], i) \in Seq(Packet)
    BY <1>1, WithoutProperties
  <1> QED  BY <1>2, NetworkAssumption DEF NetTypeOK

\* A delivery adds to what is in flight what the receiver sends, and no more.
LEMMA DeliverInFlight ==
  ASSUME NetTypeOK, NEW r \in Roles, NEW i \in 1 .. Len(chan[r]),
         NEW keep \in BOOLEAN, NEW out \in Seq(Packet), Deliver(r, i, keep, out)
  PROVE  /\ chan[r][i] \in InFlight(r)
         /\ InFlight(r)' \subseteq InFlight(r)
         /\ InFlight(Other(r))' = InFlight(Other(r)) \cup Range(out)
  <1>1. chan[r] \in Seq(Packet) /\ chan[Other(r)] \in Seq(Packet)
        /\ Other(r) \in Roles /\ Other(r) # r
    BY DEF NetTypeOK, Other, Roles
  <1>2. /\ chan'[r] = IF keep THEN chan[r] ELSE Without(chan[r], i)
        /\ chan'[Other(r)] = chan[Other(r)] \o out
    BY <1>1 DEF Deliver, NetTypeOK
  <1>3. Range(chan'[r]) \subseteq Range(chan[r])
    BY <1>1, <1>2, RangeWithout
  <1>4. Range(chan'[Other(r)]) = Range(chan[Other(r)]) \cup Range(out)
    BY <1>1, <1>2, RangeOfBoth
  <1>5. chan[r][i] \in Range(chan[r])
    BY <1>1 DEF Range
  <1> QED  BY <1>3, <1>4, <1>5 DEF InFlight

LEMMA SendInFlight ==
  ASSUME NetTypeOK, NEW r \in Roles, NEW out \in Seq(Packet), Send(r, out)
  PROVE  /\ InFlight(r)' = InFlight(r)
         /\ InFlight(Other(r))' = InFlight(Other(r)) \cup Range(out)
  <1>1. chan[Other(r)] \in Seq(Packet) /\ Other(r) \in Roles /\ Other(r) # r
    BY DEF NetTypeOK, Other, Roles
  <1>2. /\ chan'[r] = chan[r]
        /\ chan'[Other(r)] = chan[Other(r)] \o out
    BY <1>1 DEF Send, NetTypeOK
  <1>3. Range(chan'[Other(r)]) = Range(chan[Other(r)]) \cup Range(out)
    BY <1>1, <1>2, RangeOfBoth
  <1> QED  BY <1>2, <1>3 DEF InFlight

LEMMA LoseInFlight ==
  ASSUME NetTypeOK, NEW r \in Roles, Lose(r)
  PROVE  \A q \in Roles : InFlight(q)' \subseteq InFlight(q)
  <1> PICK i \in 1 .. Len(chan[r]) : chan' = [chan EXCEPT ![r] = Without(@, i)]
    BY DEF Lose
  <1>1. chan[r] \in Seq(Packet)
    BY DEF NetTypeOK
  <1>2. Range(Without(chan[r], i)) \subseteq Range(chan[r])
    BY <1>1, RangeWithout
  <1> QED  BY <1>2 DEF NetTypeOK, InFlight

----------------------------------------------------------------------------
(* Sockets and packets.                                                    *)

LEMMA StateType ==
  ASSUME NEW sk \in Socket
  PROVE  State(sk) \in Packet /\ <<State(sk)>> \in Seq(Packet)
  <1>1. sk.seqNr \in Nat /\ sk.ackNr \in Int /\ 0 \in 0..N
    BY SocketAssumption DEF Socket
  <1>2. State(sk) \in Packet
    BY <1>1, PacketType DEF State
  <1> QED  BY <1>2

\* The fields most handlers change together.
LEMMA UpdateType ==
  ASSUME NEW sk \in Socket, NEW st \in States, NEW nr \in Nat, NEW ack \in Int,
         NEW next \in Nat \cup {Undefined}
  PROVE  [sk EXCEPT !.state = st, !.seqNr = nr, !.ackNr = ack, !.nextSeq = next] \in Socket
  BY DEF Socket

LEMMA NewSocketType ==
  ASSUME NEW state \in States, NEW nr \in Nat, NEW ack \in Int,
         NEW next \in Nat \cup {Undefined}
  PROVE  NewSocket(state, nr, ack, next) \in Socket
  BY DEF NewSocket, Socket

LEMMA TakeDataType ==
  ASSUME NEW sk \in Socket, NEW p \in Packet
  PROVE  TakeData(sk, p) \in Socket
  <1>1. [seqNr |-> p.seqNr, payload |-> p.payload] \in Segment
    BY DEF Packet, Segment
  <1>2. sk.packets \in Seq(Segment) /\ sk.ackNrs \in Seq(Int)
        /\ p.seqNr \in Nat /\ sk.seqNr \in Nat
    BY DEF Socket, Packet
  <1>3. AddPacket(sk.packets, [seqNr |-> p.seqNr, payload |-> p.payload]) \in Seq(Segment)
    BY <1>1, <1>2, AddPacketProperties
  <1>4. Append(sk.ackNrs, p.seqNr) \in Seq(Int)
    BY <1>2
  <1>5. p.seqNr + 1 \in Nat \cup {Undefined} /\ sk.seqNr + 1 \in Nat /\ p.seqNr \in Int
        /\ "Connected" \in States
    BY <1>2 DEF States
  <1> QED  BY <1>3, <1>4, <1>5 DEF TakeData, Socket

LEMMA AttachWriterType ==
  ASSUME NEW sk \in Socket, NEW start \in Nat
  PROVE  AttachWriter(sk, start) \in Socket
  <1>1. sk.dataNrs \cup start .. (start + N - 1) \in SUBSET Nat
    BY SocketAssumption DEF Socket
  <1> QED  BY <1>1 DEF AttachWriter, Socket

LEMMA NoteAckType ==
  ASSUME NEW sk \in Socket, NEW nr \in Int
  PROVE  NoteAck(sk, nr) \in Socket
  <1>1. sk.ackNrs \in Seq(Int) /\ Append(sk.ackNrs, nr) \in Seq(Int)
    BY DEF Socket
  <1>2. (IF nr \in Range(sk.ackNrs) THEN sk.ackNrs ELSE Append(sk.ackNrs, nr)) \in Seq(Int)
    BY <1>1
  <1> QED  BY <1>2 DEF NoteAck, Socket

LEMMA EmptyType == <<>> \in Seq(Packet)
  OBVIOUS

LEMMA CompileType ==
  ASSUME NEW sk \in Socket
  PROVE  Compile(sk) \in Seq(0..N)
  <1>1. sk.packets \in Seq(Segment)
    BY DEF Socket
  <1>2. \A j \in 1 .. Len(sk.packets) : sk.packets[j].payload \in 0..N
    <2> TAKE j \in 1 .. Len(sk.packets)
    <2>1. sk.packets[j] \in Segment
      BY <1>1
    <2> QED  BY <2>1 DEF Segment
  <1> QED  BY <1>1, <1>2 DEF Compile

LEMMA AttachReaderType ==
  ASSUME NEW sk \in Socket
  PROVE  AttachReader(sk) \in Socket
  <1>1. <<>> \in Seq(Segment)
    OBVIOUS
  <1> QED  BY <1>1 DEF AttachReader, Socket

=============================================================================
