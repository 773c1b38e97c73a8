---------------------------- MODULE UtpFindProofs ----------------------------
(***************************************************************************)
(* Proofs about the FINDCONTENT stream, for every length of the content,   *)
(* every random number and every number of losses, duplicates and          *)
(* overtakings.                                                            *)
(***************************************************************************)
EXTENDS UtpFind, UtpNetworkProofs, FiniteSetTheorems

----------------------------------------------------------------------------
(* What the handlers leave behind.                                         *)

\* The two sockets of WriterSyn: the one the SYN-ACK is made from, and the one
\* the burst starts from.
SynAckSocket(p, nr) == [writer EXCEPT !.ackNr = p.seqNr, !.seqNr = nr]

BurstSocket(p, nr) ==
  [AttachWriter(SynAckSocket(p, nr), nr) EXCEPT !.ackNr = @ + 1, !.seqNr = nr + 1,
                                                !.nextSeq = nr + 2]

LEMMA WriterSynSockets ==
  ASSUME writer \in Socket, NEW p \in Packet, NEW nr \in Nat
  PROVE  /\ SynAckSocket(p, nr) \in Socket
         /\ BurstSocket(p, nr) \in Socket
         /\ BurstSocket(p, nr).seqNr = nr + 1
         /\ BurstSocket(p, nr).ackNrs = writer.ackNrs
         /\ SynAckSocket(p, nr).seqNr = nr
         /\ SynAckSocket(p, nr).ackNr = p.seqNr
  <1> DEFINE ack == SynAckSocket(p, nr)
             att == AttachWriter(ack, nr)
             sk  == [att EXCEPT !.ackNr = @ + 1, !.seqNr = nr + 1, !.nextSeq = nr + 2]
  <1>1. p.seqNr \in Int
    BY DEF Packet
  <1>2. ack \in Socket /\ ack.seqNr = nr /\ ack.ackNr = p.seqNr /\ ack.ackNrs = writer.ackNrs
    BY <1>1 DEF SynAckSocket, Socket
  <1> HIDE DEF ack
  <1>3. att \in Socket /\ att.ackNrs = writer.ackNrs
    <2>1. att \in Socket
      BY <1>2, AttachWriterType
    <2>2. att.ackNrs = ack.ackNrs
      BY <1>2 DEF AttachWriter, Socket
    <2> QED  BY <1>2, <2>1, <2>2
  <1> HIDE DEF att
  <1>4. sk \in Socket /\ sk.seqNr = nr + 1 /\ sk.ackNrs = writer.ackNrs
    <2>1. att.ackNr + 1 \in Int /\ nr + 1 \in Nat /\ nr + 2 \in Nat \cup {Undefined}
      BY <1>3 DEF Socket
    <2> QED  BY <1>3, <2>1 DEF Socket
  <1>5. sk = BurstSocket(p, nr)
    BY DEF sk, att, ack, BurstSocket
  <1> QED  BY <1>2, <1>4, <1>5 DEF ack

LEMMA AfterBurstProperties ==
  ASSUME NEW sk \in Socket
  PROVE  /\ AfterBurst(sk) \in Socket
         /\ AfterBurst(sk).finNr = sk.seqNr + N
         /\ AfterBurst(sk).ackNrs = sk.ackNrs
  <1>1. sk.seqNr + N \in Nat /\ sk.seqNr + N \in Nat \cup {Undefined}
        /\ "Connected" \in States
    BY SocketAssumption DEF Socket, States
  <1> QED  BY <1>1 DEF AfterBurst, Socket

\* What the writer sends for a SYN: the SYN-ACK, then DATA and FIN.
LEMMA WriterSynOut ==
  ASSUME NEW ack \in Socket, NEW sk \in Socket, sk.seqNr = ack.seqNr + 1
  PROVE  LET out == <<State(ack)>> \o Burst(sk) IN
         /\ out \in Seq(Packet)
         /\ Len(out) = N + 2
         /\ out[1] = State(ack)
         /\ \A p \in Range(out) :
              /\ p.type = "STATE" => p = State(ack)
              /\ p.seqNr \in ack.seqNr .. ack.seqNr + N + 1
  <1> DEFINE b   == Burst(sk)
             out == <<State(ack)>> \o b
  <1> USE SocketAssumption
  <1>1. <<State(ack)>> \in Seq(Packet) /\ Len(<<State(ack)>>) = 1
    BY StateType
  <1>2. /\ b \in Seq(Packet) /\ Len(b) = N + 1
        /\ \A j \in 1..N : b[j] = MakePacket("DATA", sk.seqNr + j - 1, sk.ackNr, j)
        /\ b[N+1] = MakePacket("FIN", sk.seqNr + N, sk.ackNr, 0)
    BY BurstProperties
  <1> HIDE DEF b
  <1>3. /\ out \in Seq(Packet) /\ Len(out) = 1 + Len(b)
        /\ \A j \in 1 .. 1 + Len(b) : out[j] = IF j <= 1 THEN <<State(ack)>>[j] ELSE b[j - 1]
    BY <1>1, <1>2, ConcatenationProperties
  <1>4. out[1] = State(ack)
    BY <1>2, <1>3
  <1>5. Range(out) = {State(ack)} \cup Range(b)
    <2>1. Range(out) = Range(<<State(ack)>>) \cup Range(b)
      <3> DEFINE h == <<State(ack)>>
      <3>1. h \in Seq(Packet) /\ b \in Seq(Packet)
        BY <1>1, <1>2
      <3> HIDE DEF h
      <3>2. Range(h \o b) = Range(h) \cup Range(b)
        BY <3>1, RangeOfBoth
      <3> QED  BY <3>2 DEF h
    <2>2. Range(<<State(ack)>>) = {State(ack)}
      BY RangeSingle
    <2> QED  BY <2>1, <2>2
  <1>6. ack.seqNr \in Nat /\ State(ack).seqNr = ack.seqNr
    BY DEF State, MakePacket, Socket
  <1>7. ASSUME NEW p \in Range(b)
        PROVE  p.type # "STATE" /\ p.seqNr \in ack.seqNr .. ack.seqNr + N + 1
    <2>1. PICK j \in 1 .. N + 1 : p = b[j]
      BY <1>2, <1>7, InRange
    <2>2. CASE j \in 1..N
      <3>1. p = MakePacket("DATA", sk.seqNr + j - 1, sk.ackNr, j)
        BY <1>2, <2>1, <2>2
      <3>2. p.type = "DATA" /\ p.seqNr = sk.seqNr + j - 1
        BY <3>1 DEF MakePacket
      <3> QED  BY <1>6, <2>2, <3>2
    <2>3. CASE j = N + 1
      <3>1. p.type = "FIN" /\ p.seqNr = sk.seqNr + N
        BY <1>2, <2>1, <2>3 DEF MakePacket
      <3> QED  BY <1>6, <3>1
    <2> QED  BY <2>2, <2>3
  <1> HIDE DEF out
  <1>8. \A p \in Range(out) : /\ p.type = "STATE" => p = State(ack)
                              /\ p.seqNr \in ack.seqNr .. ack.seqNr + N + 1
    BY <1>5, <1>6, <1>7
  <1> QED  BY <1>2, <1>3, <1>4, <1>8 DEF out, b

LEMMA ReaderSynAckSocket ==
  ASSUME reader \in Socket, NEW p \in Packet,
         NEW sk, sk = AttachReader([reader EXCEPT !.ackNr = p.seqNr, !.seqNr = 2,
                                                  !.nextSeq = p.seqNr + 1])
  PROVE  /\ sk \in Socket
         /\ sk.reading = TRUE /\ sk.state = reader.state /\ sk.ackNr = p.seqNr
  <1> DEFINE up == [reader EXCEPT !.ackNr = p.seqNr, !.seqNr = 2, !.nextSeq = p.seqNr + 1]
  <1>1. p.seqNr \in Int /\ p.seqNr + 1 \in Nat \cup {Undefined} /\ 2 \in Nat
    BY DEF Packet
  <1>2. up \in Socket /\ up.state = reader.state /\ up.ackNr = p.seqNr
    BY <1>1 DEF Socket
  <1> HIDE DEF up
  <1>3. AttachReader(up) \in Socket
    BY <1>2, AttachReaderType
  <1>4. AttachReader(up).reading = TRUE /\ AttachReader(up).state = up.state
        /\ AttachReader(up).ackNr = up.ackNr
    BY <1>2 DEF AttachReader, Socket
  <1>5. sk = AttachReader(up)
    BY DEF up
  <1> QED  BY <1>2, <1>3, <1>4, <1>5

LEMMA TakeFinProperties ==
  ASSUME NEW sk \in Socket, NEW p \in Packet
  PROVE  /\ TakeFin(sk, p) \in Socket
         /\ TakeFin(sk, p).state = "GotFin" /\ TakeFin(sk, p).reading = sk.reading
         /\ TakeFin(sk, p).ackNr = p.seqNr
  <1>1. p.seqNr \in Int /\ sk.seqNr + 1 \in Nat /\ "GotFin" \in States
    BY DEF Packet, Socket, States
  <1> QED  BY <1>1 DEF TakeFin, Socket

LEMMA TakeDataProperties ==
  ASSUME NEW sk \in Socket, NEW p \in Packet
  PROVE  /\ TakeData(sk, p) \in Socket
         /\ TakeData(sk, p).state = "Connected" /\ TakeData(sk, p).reading = TRUE
         /\ TakeData(sk, p).ackNr = p.seqNr
  <1>1. TakeData(sk, p) \in Socket
    BY TakeDataType
  <1>2. /\ TakeData(sk, p).state = "Connected" /\ TakeData(sk, p).reading = TRUE
        /\ TakeData(sk, p).ackNr = p.seqNr
    BY DEF TakeData, Socket
  <1> QED  BY <1>1, <1>2

\* What the opening end sends, and what a delivery leaves on its way.
LEMMA OpenReaderEffect ==
  ASSUME TypeOK, OpenReader
  PROVE  \E p \in Packet :
           /\ p.type = "SYN" /\ p.seqNr = 1
           /\ reader.state = "null"
           /\ reader' \in Socket /\ reader'.state = "SynSent" /\ reader'.reading = FALSE
           /\ Send("reader", <<p>>)
           /\ UNCHANGED <<writer, delivered, thrown>>
  <1>1. PICK nr \in RandNrs :
          LET sk == NewSocket("SynSent", 0, nr, Undefined) IN
          /\ reader.state = "null"
          /\ reader' = sk
          /\ Send("reader", <<Syn(sk)>>)
          /\ UNCHANGED <<writer, delivered, thrown>>
    BY DEF OpenReader
  <1> DEFINE sk == NewSocket("SynSent", 0, nr, Undefined)
  <1>2. sk \in Socket
    <2>1. nr \in Int /\ "SynSent" \in States /\ 0 \in Nat /\ Undefined \in Nat \cup {Undefined}
      BY SocketAssumption DEF States
    <2> QED  BY <2>1, NewSocketType
  <1>3. sk.state = "SynSent" /\ sk.reading = FALSE
    BY DEF NewSocket
  <1> HIDE DEF sk
  <1>4. Syn(sk) \in Packet /\ Syn(sk).type = "SYN" /\ Syn(sk).seqNr = 1
    <2>1. sk.ackNr \in Int /\ 0 \in 0..N
      BY <1>2, SocketAssumption DEF Socket
    <2> QED  BY <2>1, PacketType DEF Syn, MakePacket
  <1>5. reader' = sk /\ Send("reader", <<Syn(sk)>>) /\ reader.state = "null"
    BY <1>1 DEF sk
  <1> QED  BY <1>1, <1>2, <1>3, <1>4, <1>5

ReaderHandles(i, keep) ==
  \/ ReaderSynAck(i, keep) \/ ReaderData(i, keep)
  \/ ReaderFin(i, keep) \/ ReaderFinThrows(i, keep)

LEMMA Deliveries ==
  ASSUME TypeOK, NEW r \in Roles, NEW i \in 1 .. Len(chan[r]),
         NEW keep \in BOOLEAN, NEW out \in Seq(Packet), Deliver(r, i, keep, out)
  PROVE  /\ chan[r][i] \in Packet /\ chan[r][i] \in InFlight(r)
         /\ InFlight(r)' \subseteq InFlight(r)
         /\ InFlight(Other(r))' = InFlight(Other(r)) \cup Range(out)
         /\ chan'[r] = IF keep THEN chan[r] ELSE Without(chan[r], i)
         /\ chan'[Other(r)] = chan[Other(r)] \o out
         /\ chan[r] \in Seq(Packet) /\ chan[Other(r)] \in Seq(Packet)
         /\ chan[r] # <<>>
  <1>1. chan[r] \in Seq(Packet) /\ chan[Other(r)] \in Seq(Packet)
        /\ Other(r) \in Roles /\ Other(r) # r
    BY DEF TypeOK, NetTypeOK, Other, Roles
  <1>2. chan'[r] = IF keep THEN chan[r] ELSE Without(chan[r], i)
    BY <1>1 DEF Deliver, TypeOK, NetTypeOK
  <1>3. chan'[Other(r)] = chan[Other(r)] \o out
    BY <1>1 DEF Deliver, TypeOK, NetTypeOK
  <1>4. chan[r][i] \in Packet /\ chan[r] # <<>>
    BY <1>1
  <1> QED  BY <1>1, <1>2, <1>3, <1>4, DeliverInFlight DEF TypeOK

LEMMA WriterDelivery ==
  ASSUME TypeOK, NEW i \in 1 .. Len(chan["writer"]), NEW keep \in BOOLEAN,
         NEW out \in Seq(Packet), Deliver("writer", i, keep, out)
  PROVE  /\ chan["writer"][i] \in InFlight("writer")
         /\ InFlight("writer")' \subseteq InFlight("writer")
         /\ InFlight("reader")' = InFlight("reader") \cup Range(out)
         /\ chan["writer"] \in Seq(Packet)
  BY Deliveries DEF Roles, Other

\* Each packet handler in one form: what it makes of the sockets and sends.
LEMMA WriterSynEffect ==
  ASSUME TypeOK, NEW i \in 1 .. Len(chan["writer"]), NEW keep \in BOOLEAN,
         WriterSyn(i, keep)
  PROVE  \E ack \in Socket, sk \in Socket :
           /\ chan["writer"][i].type = "SYN"
           /\ ack.ackNr = chan["writer"][i].seqNr /\ sk.seqNr = ack.seqNr + 1
           /\ sk.ackNrs = writer.ackNrs
           /\ writer' = AfterBurst(sk)
           /\ Deliver("writer", i, keep, <<State(ack)>> \o Burst(sk))
           /\ UNCHANGED <<reader, delivered, thrown>>
  <1> DEFINE p == chan["writer"][i]
  <1>1. PICK nr \in RandNrs :
          /\ p.type = "SYN"
          /\ writer' = AfterBurst(BurstSocket(p, nr))
          /\ Deliver("writer", i, keep, <<State(SynAckSocket(p, nr))>> \o Burst(BurstSocket(p, nr)))
          /\ UNCHANGED <<reader, delivered, thrown>>
    BY DEF WriterSyn, BurstSocket, SynAckSocket
  <1>2. nr \in Nat /\ p \in Packet /\ writer \in Socket
    BY SocketAssumption DEF TypeOK, NetTypeOK, Roles
  <1> DEFINE ack == SynAckSocket(p, nr)
             sk  == BurstSocket(p, nr)
  <1>3. /\ ack \in Socket /\ sk \in Socket
        /\ ack.ackNr = p.seqNr /\ sk.seqNr = ack.seqNr + 1 /\ sk.ackNrs = writer.ackNrs
    <2>1. /\ SynAckSocket(p, nr) \in Socket /\ BurstSocket(p, nr) \in Socket
          /\ BurstSocket(p, nr).seqNr = nr + 1
          /\ BurstSocket(p, nr).ackNrs = writer.ackNrs
          /\ SynAckSocket(p, nr).seqNr = nr
          /\ SynAckSocket(p, nr).ackNr = p.seqNr
      <3> HIDE DEF p, ack, sk
      <3> QED  BY <1>2, WriterSynSockets
    <2> QED  BY <2>1
  <1>4. writer' = AfterBurst(sk) /\ Deliver("writer", i, keep, <<State(ack)>> \o Burst(sk))
    BY <1>1
  <1> HIDE DEF ack, sk
  <1> QED  BY <1>1, <1>3, <1>4

LEMMA WriterStateEffect ==
  ASSUME TypeOK, NEW i \in 1 .. Len(chan["writer"]), NEW keep \in BOOLEAN,
         WriterState(i, keep)
  PROVE  /\ chan["writer"][i].type = "STATE"
         /\ writer' \in Socket /\ writer'.finNr = writer.finNr
         /\ Range(writer'.ackNrs) \subseteq Range(writer.ackNrs) \cup {chan["writer"][i].ackNr}
         /\ <<>> \in Seq(Packet)
         /\ Deliver("writer", i, keep, <<>>)
         /\ UNCHANGED <<reader, delivered, thrown>>
  <1> DEFINE p == chan["writer"][i]
  <1>1. p \in Packet /\ writer \in Socket
    BY DEF TypeOK, NetTypeOK, Roles
  <1>2. p.ackNr \in Int /\ writer.ackNrs \in Seq(Int)
    BY <1>1 DEF Packet, Socket
  <1>3. writer' = NoteAck(writer, p.ackNr)
    BY DEF WriterState
  <1>4. writer' \in Socket
    BY <1>1, <1>2, <1>3, NoteAckType
  <1> HIDE DEF p
  <1>5. writer'.finNr = writer.finNr
        /\ writer'.ackNrs = IF p.ackNr \in Range(writer.ackNrs) THEN writer.ackNrs
                            ELSE Append(writer.ackNrs, p.ackNr)
    BY <1>1, <1>3 DEF NoteAck, Socket
  <1>6. Range(Append(writer.ackNrs, p.ackNr)) = Range(writer.ackNrs) \cup {p.ackNr}
    BY <1>2, RangeAppend
  <1>7. Range(writer'.ackNrs) \subseteq Range(writer.ackNrs) \cup {p.ackNr}
    BY <1>5, <1>6
  <1> QED  BY <1>4, <1>5, <1>7, EmptyType DEF WriterState, p

\* What the reader's handlers have in common: packet p, at i, makes them send out,
\* acknowledgements of it only, and changes nothing at the writer.
ReaderTakes(p, i, keep, out) ==
  /\ Deliver("reader", i, keep, out)
  /\ \A q \in Range(out) : q.type = "STATE" /\ q.ackNr = p.seqNr
  /\ reader' \in Socket
  /\ reader'.state = IF p.type = "STATE" THEN reader.state
                     ELSE IF p.type = "DATA" THEN "Connected" ELSE "GotFin"
  /\ reader'.reading = IF p.type = "FIN" THEN reader.reading ELSE TRUE
  /\ writer' = writer
  /\ p.type \in {"STATE", "DATA", "FIN"}
  /\ delivered' \in Seq(Seq(0..N))
  /\ thrown' \subseteq {"sackLength", "noReader"}
  /\ "noReader" \in thrown' =>
       "noReader" \in thrown \/ (p.type = "FIN" /\ ~ reader.reading)

\* The reader acknowledges, if anything, the packet it gets.
LEMMA ReaderEffect ==
  ASSUME TypeOK, NEW i \in 1 .. Len(chan["reader"]), NEW keep \in BOOLEAN,
         ReaderHandles(i, keep)
  PROVE  \E out \in Seq(Packet) : ReaderTakes(chan["reader"][i], i, keep, out)
  <1> DEFINE p == chan["reader"][i]
  <1>1. p \in Packet /\ reader \in Socket
    BY DEF TypeOK, NetTypeOK, Roles
  <1>2. delivered \in Seq(Seq(0..N)) /\ thrown \subseteq {"sackLength", "noReader"}
    BY DEF TypeOK
  <1>3. \A sk \in Socket : State(sk).type = "STATE" /\ State(sk).ackNr = sk.ackNr
    BY DEF State, MakePacket
  <1>4. CASE ReaderSynAck(i, keep)
    <2> DEFINE sk == AttachReader([reader EXCEPT !.ackNr = p.seqNr, !.seqNr = 2,
                                                 !.nextSeq = p.seqNr + 1])
    <2>1. sk \in Socket /\ sk.reading = TRUE /\ sk.state = reader.state /\ sk.ackNr = p.seqNr
      BY <1>1, ReaderSynAckSocket
    <2>2. /\ p.type = "STATE" /\ reader' = sk /\ Deliver("reader", i, keep, <<State(sk)>>)
          /\ UNCHANGED <<writer, delivered, thrown>>
      BY <1>4 DEF ReaderSynAck
    <2> HIDE DEF sk, p
    <2>3. <<State(sk)>> \in Seq(Packet) /\ Range(<<State(sk)>>) = {State(sk)}
      BY <2>1, StateType, RangeSingle
    <2>4. State(sk).type = "STATE" /\ State(sk).ackNr = p.seqNr
      BY <1>3, <2>1
    <2>8. \A q \in Range(<<State(sk)>>) : q.type = "STATE" /\ q.ackNr = p.seqNr
      BY <2>3, <2>4
    <2>9. ReaderTakes(p, i, keep, <<State(sk)>>)
      BY <1>2, <2>1, <2>2, <2>8 DEF ReaderTakes
    <2> USE <2>3
    <2> WITNESS <<State(sk)>> \in Seq(Packet)
    <2> QED  BY <2>9 DEF p
  <1>5. CASE ReaderData(i, keep)
    <2> DEFINE sk  == TakeData(reader, p)
               out == DataAck(reader, p)
    <2>1. sk \in Socket /\ sk.state = "Connected" /\ sk.reading = TRUE /\ sk.ackNr = p.seqNr
      BY <1>1, TakeDataProperties
    <2>2. /\ p.type = "DATA" /\ reader' = sk /\ Deliver("reader", i, keep, out)
          /\ UNCHANGED <<writer, delivered>>
          /\ thrown' \subseteq thrown \cup {"sackLength"}
      BY <1>5 DEF ReaderData
    <2>3. out \in Seq(Packet) /\ Range(out) \subseteq {State(sk)}
      BY <2>1, StateType, RangeSingle, RangeEmpty, EmptyType DEF DataAck
    <2> HIDE DEF sk, p, out
    <2>4. State(sk).type = "STATE" /\ State(sk).ackNr = p.seqNr
      BY <1>3, <2>1
    <2>5. "sackLength" # "noReader"
      OBVIOUS
    <2>8. \A q \in Range(out) : q.type = "STATE" /\ q.ackNr = p.seqNr
      BY <2>3, <2>4
    <2>9. ReaderTakes(p, i, keep, out)
      BY <1>2, <2>1, <2>2, <2>5, <2>8 DEF ReaderTakes
    <2> USE <2>3
    <2> WITNESS out \in Seq(Packet)
    <2> QED  BY <2>9 DEF p
  <1>6. CASE ReaderFin(i, keep)
    <2> DEFINE sk == TakeFin(reader, p)
    <2>1. sk \in Socket /\ sk.state = "GotFin" /\ sk.reading = reader.reading
          /\ sk.ackNr = p.seqNr
      BY <1>1, TakeFinProperties
    <2>2. /\ p.type = "FIN" /\ reader' = sk /\ Deliver("reader", i, keep, <<State(sk)>>)
          /\ delivered' = Append(delivered, Compile(reader))
          /\ UNCHANGED <<writer, thrown>>
      BY <1>6 DEF ReaderFin
    <2>3. delivered' \in Seq(Seq(0..N))
      BY <1>1, <1>2, <2>2, CompileType
    <2> HIDE DEF sk, p
    <2>4. <<State(sk)>> \in Seq(Packet) /\ Range(<<State(sk)>>) = {State(sk)}
      BY <2>1, StateType, RangeSingle
    <2>5. State(sk).type = "STATE" /\ State(sk).ackNr = p.seqNr
      BY <1>3, <2>1
    <2>8. \A q \in Range(<<State(sk)>>) : q.type = "STATE" /\ q.ackNr = p.seqNr
      BY <2>4, <2>5
    <2>9. ReaderTakes(p, i, keep, <<State(sk)>>)
      BY <1>2, <2>1, <2>2, <2>3, <2>8 DEF ReaderTakes
    <2> USE <2>4
    <2> WITNESS <<State(sk)>> \in Seq(Packet)
    <2> QED  BY <2>9 DEF p
  <1>7. CASE ReaderFinThrows(i, keep)
    <2>1. /\ p.type = "FIN" /\ ~ reader.reading
          /\ reader' = [reader EXCEPT !.state = "GotFin"]
          /\ Deliver("reader", i, keep, <<>>)
          /\ UNCHANGED <<writer, delivered>>
          /\ thrown' = thrown \cup {"noReader"}
      BY <1>7 DEF ReaderFinThrows
    <2>2. reader' \in Socket /\ reader'.state = "GotFin" /\ reader'.reading = reader.reading
      BY <1>1, <2>1 DEF Socket, States
    <2> HIDE DEF p
    <2>3. <<>> \in Seq(Packet) /\ Range(<<>>) = {}
      BY EmptyType, RangeEmpty
    <2>9. ReaderTakes(p, i, keep, <<>>)
      BY <1>2, <2>1, <2>2, <2>3 DEF ReaderTakes
    <2> WITNESS <<>> \in Seq(Packet)
    <2> QED  BY <2>9 DEF p
  <1> QED  BY <1>4, <1>5, <1>6, <1>7 DEF ReaderHandles

----------------------------------------------------------------------------
(* Type correctness.                                                       *)

\* Every field of the two sockets and every packet in flight stays within its
\* type, whatever the handlers of the FINDCONTENT stream do.
THEOREM TypeInvariant == Spec => []TypeOK
  <1>1. Init => TypeOK
    <2> SUFFICES ASSUME Init PROVE TypeOK
      OBVIOUS
    <2>1. PICK nr \in RandNrs : writer = NewSocket("null", nr, 0, 1)
      BY DEF Init
    <2>2. nr \in Nat /\ "null" \in States /\ 0 \in Nat /\ 0 \in Int
          /\ 1 \in Nat \cup {Undefined} /\ Undefined \in Nat \cup {Undefined}
      BY SocketAssumption DEF States
    <2>3. writer \in Socket /\ reader \in Socket
      BY <2>1, <2>2, NewSocketType DEF Init
    <2>4. NetTypeOK
      BY NetworkAssumption DEF Init, NetInit, NetTypeOK
    <2> QED  BY <2>3, <2>4 DEF Init, TypeOK
  <1>2. TypeOK /\ [Next]_vars => TypeOK'
    <2> SUFFICES ASSUME TypeOK, [Next]_vars PROVE TypeOK'
      OBVIOUS
    <2>1. CASE OpenReader
      <3>1. PICK p \in Packet : /\ reader' \in Socket
                                /\ Send("reader", <<p>>)
                                /\ UNCHANGED <<writer, delivered, thrown>>
        BY <2>1, OpenReaderEffect
      <3>2. NetTypeOK'
        <4>1. <<p>> \in Seq(Packet)
          OBVIOUS
        <4> QED  BY <3>1, <4>1, SendType DEF TypeOK, Roles
      <3> QED  BY <3>1, <3>2 DEF TypeOK
    <2>2. ASSUME NEW i \in 1 .. Len(chan["writer"]), NEW keep \in BOOLEAN,
                 WriterSyn(i, keep)
          PROVE  TypeOK'
      <3>1. PICK ack \in Socket, sk \in Socket :
              /\ sk.seqNr = ack.seqNr + 1
              /\ writer' = AfterBurst(sk)
              /\ Deliver("writer", i, keep, <<State(ack)>> \o Burst(sk))
              /\ UNCHANGED <<reader, delivered, thrown>>
        BY <2>2, WriterSynEffect
      <3>2. NetTypeOK'
        <4>1. <<State(ack)>> \o Burst(sk) \in Seq(Packet)
          BY <3>1, WriterSynOut
        <4> QED  BY <3>1, <4>1, DeliverType DEF TypeOK, Roles
      <3>3. writer' \in Socket
        BY <3>1, AfterBurstProperties
      <3> QED  BY <3>1, <3>2, <3>3 DEF TypeOK
    <2>3. ASSUME NEW i \in 1 .. Len(chan["writer"]), NEW keep \in BOOLEAN,
                 WriterState(i, keep)
          PROVE  TypeOK'
      <3>1. /\ writer' \in Socket /\ <<>> \in Seq(Packet)
            /\ Deliver("writer", i, keep, <<>>)
            /\ UNCHANGED <<reader, delivered, thrown>>
        BY <2>3, WriterStateEffect
      <3>2. NetTypeOK'
        BY <3>1, DeliverType DEF TypeOK, Roles
      <3> QED  BY <3>1, <3>2 DEF TypeOK
    <2>4. ASSUME NEW i \in 1 .. Len(chan["reader"]), NEW keep \in BOOLEAN,
                 ReaderHandles(i, keep)
          PROVE  TypeOK'
      <3>0. PICK out \in Seq(Packet) : ReaderTakes(chan["reader"][i], i, keep, out)
        BY <2>4, ReaderEffect
      <3>1. /\ Deliver("reader", i, keep, out)
            /\ reader' \in Socket /\ writer' = writer
            /\ delivered' \in Seq(Seq(0..N))
            /\ thrown' \subseteq {"sackLength", "noReader"}
        BY <3>0 DEF ReaderTakes
      <3>2. NetTypeOK'
        BY <3>1, DeliverType DEF TypeOK, Roles
      <3> QED  BY <3>1, <3>2 DEF TypeOK
    <2>5. CASE LoseStep
      BY <2>5, LoseType, Zenon DEF LoseStep, TypeOK
    <2>6. CASE UNCHANGED vars
      BY <2>6 DEF vars, net, NetTypeOK, TypeOK
    <2> QED
      BY <2>1, <2>2, <2>3, <2>4, <2>5, <2>6 DEF Next, ReaderStep, WriterStep, ReaderHandles
  <1> QED  BY <1>1, <1>2, PTL DEF Spec

----------------------------------------------------------------------------
(* The early FIN.  EarlyFinInv is inductive on top of TypeOK.              *)

\* The head of what is on its way stays, or is what was sent to an empty one.
LEMMA HeadOfConcatenation ==
  ASSUME NEW S, NEW s \in Seq(S), NEW t \in Seq(S)
  PROVE  /\ s # <<>> => (s \o t)[1] = s[1]
         /\ s = <<>> => s \o t = t
         /\ s \o t = <<>> => s = <<>>
  <1>1. /\ Len(s \o t) = Len(s) + Len(t)
        /\ \A j \in 1 .. Len(s) + Len(t) :
              (s \o t)[j] = IF j <= Len(s) THEN s[j] ELSE t[j - Len(s)]
    BY ConcatenationProperties
  <1>2. s # <<>> => (s \o t)[1] = s[1]
    <2> SUFFICES ASSUME s # <<>> PROVE (s \o t)[1] = s[1]
      OBVIOUS
    <2>1. Len(s) \in Nat /\ Len(t) \in Nat /\ Len(s) >= 1
      OBVIOUS
    <2> QED  BY <1>1, <2>1
  <1>3. s = <<>> => s \o t = t
    OBVIOUS
  <1>4. s \o t = <<>> => s = <<>>
    OBVIOUS
  <1> QED  BY <1>2, <1>3, <1>4

LEMMA EmptyOnTheWay ==
  ASSUME NEW r \in Roles, chan[r] = <<>> PROVE InFlight(r) = {}
  BY RangeEmpty DEF InFlight

LEMMA EarlyFinInit == ASSUME Init PROVE EarlyFinInv
  <1>1. \A r \in Roles : chan[r] = <<>> /\ InFlight(r) = {}
    BY EmptyOnTheWay DEF Init, NetInit
  <1>2. thrown = {}
    BY DEF Init
  <1> QED
    BY <1>1, <1>2 DEF EarlyFinInv, NothingBeforeOpen, SynNumbers, SynAckComesFirst,
                      ThrowsOnlyAtEarlyFin, Roles

LEMMA EarlyFinOpenReader ==
  ASSUME TypeOK, EarlyFinInv, OpenReader PROVE EarlyFinInv'
  <1>1. PICK p \in Packet :
           /\ p.type = "SYN" /\ p.seqNr = 1
           /\ reader.state = "null"
           /\ reader'.state = "SynSent"
           /\ Send("reader", <<p>>)
           /\ UNCHANGED <<writer, delivered, thrown>>
    BY OpenReaderEffect
  <1>2. <<p>> \in Seq(Packet) /\ Range(<<p>>) = {p}
    BY RangeSingle
  <1>3. InFlight("reader")' = InFlight("reader")
        /\ InFlight("writer")' = InFlight("writer") \cup {p}
    BY <1>1, <1>2, SendInFlight DEF TypeOK, Roles, Other
  <1>4. chan["reader"] = <<>> /\ chan'["reader"] = chan["reader"]
    BY <1>1 DEF EarlyFinInv, NothingBeforeOpen, Roles, Send, Other, TypeOK, NetTypeOK
  <1>5. lost' = lost /\ overtaken' = overtaken
    BY <1>1 DEF Send
  <1>6. NothingBeforeOpen'
    BY <1>1 DEF NothingBeforeOpen
  <1>7. SynNumbers'
    BY <1>1, <1>3 DEF EarlyFinInv, SynNumbers
  <1>8. SynAckComesFirst'
    BY <1>4 DEF SynAckComesFirst
  <1>9. ThrowsOnlyAtEarlyFin'
    BY <1>1, <1>3, <1>5 DEF EarlyFinInv, ThrowsOnlyAtEarlyFin
  <1> QED  BY <1>6, <1>7, <1>8, <1>9 DEF EarlyFinInv

\* What the writer sends, if anything, begins with a STATE that acknowledges 1.
LEMMA EarlyFinWriter ==
  ASSUME TypeOK, EarlyFinInv, NEW i \in 1 .. Len(chan["writer"]), NEW keep \in BOOLEAN,
         NEW out \in Seq(Packet), Deliver("writer", i, keep, out),
         out = <<>> \/ out[1].type = "STATE",
         \A p \in Range(out) : p.type = "STATE" => p.ackNr = 1,
         UNCHANGED <<reader, delivered, thrown>>
  PROVE  EarlyFinInv'
  <1>1. /\ InFlight("writer")' \subseteq InFlight("writer")
        /\ InFlight("reader")' = InFlight("reader") \cup Range(out)
        /\ chan'["reader"] = chan["reader"] \o out
        /\ chan["reader"] \in Seq(Packet) /\ chan["writer"] # <<>>
    BY Deliveries DEF Roles, Other
  <1>2. lost' = lost /\ (overtaken' = overtaken \/ overtaken' = overtaken + 1)
        /\ lost \in Nat /\ overtaken \in Nat
    BY NetworkAssumption DEF Deliver, TypeOK, NetTypeOK
  <1>3. NothingBeforeOpen'
    BY <1>1 DEF EarlyFinInv, NothingBeforeOpen, Roles
  <1>4. SynNumbers'
    BY <1>1 DEF EarlyFinInv, SynNumbers
  <1>5. SynAckComesFirst'
    <2> SUFFICES ASSUME lost' = 0, overtaken' = 0, ~ reader.reading, chan'["reader"] # <<>>
                 PROVE  chan'["reader"][1].type = "STATE"
      BY DEF SynAckComesFirst
    <2>1. chan["reader"] = <<>> \/ chan["reader"][1].type = "STATE"
      BY <1>2 DEF EarlyFinInv, SynAckComesFirst
    <2>2. CASE chan["reader"] = <<>>
      <3>1. chan'["reader"] = out
        BY <1>1, <2>2, HeadOfConcatenation
      <3> QED  BY <3>1
    <2>3. CASE chan["reader"] # <<>>
      <3>1. chan'["reader"][1] = chan["reader"][1]
        BY <1>1, <2>3, HeadOfConcatenation
      <3> QED  BY <2>1, <2>3, <3>1
    <2> QED  BY <2>2, <2>3
  <1>6. ThrowsOnlyAtEarlyFin'
    BY <1>1, <1>2 DEF EarlyFinInv, ThrowsOnlyAtEarlyFin
  <1> QED  BY <1>3, <1>4, <1>5, <1>6 DEF EarlyFinInv

\* Only a FIN leaves the reader as it is: the first to come is none, unless
\* something was lost or overtaken.
LEMMA EarlyFinReader ==
  ASSUME TypeOK, EarlyFinInv, NEW i \in 1 .. Len(chan["reader"]), NEW keep \in BOOLEAN,
         ReaderHandles(i, keep)
  PROVE  EarlyFinInv'
  <1> DEFINE p == chan["reader"][i]
  <1>0. PICK out \in Seq(Packet) : ReaderTakes(chan["reader"][i], i, keep, out)
    BY ReaderEffect
  <1>1. /\ Deliver("reader", i, keep, out)
        /\ \A q \in Range(out) : q.type = "STATE" /\ q.ackNr = chan["reader"][i].seqNr
        /\ reader' \in Socket
        /\ reader'.state = IF chan["reader"][i].type = "STATE" THEN reader.state
                           ELSE IF chan["reader"][i].type = "DATA" THEN "Connected" ELSE "GotFin"
        /\ reader'.reading = IF chan["reader"][i].type = "FIN" THEN reader.reading ELSE TRUE
        /\ writer' = writer
        /\ chan["reader"][i].type \in {"STATE", "DATA", "FIN"}
        /\ delivered' \in Seq(Seq(0..N))
        /\ thrown' \subseteq {"sackLength", "noReader"}
        /\ "noReader" \in thrown' =>
             \/ "noReader" \in thrown
             \/ chan["reader"][i].type = "FIN" /\ ~ reader.reading
    BY <1>0 DEF ReaderTakes
  <1>2. /\ InFlight("reader")' \subseteq InFlight("reader")
        /\ InFlight("writer")' = InFlight("writer") \cup Range(out)
        /\ chan["reader"] # <<>> /\ Len(chan["reader"]) \in Nat
    BY <1>1, Deliveries DEF Roles, Other
  <1>3. /\ lost' = lost /\ overtaken' = IF i > 1 THEN overtaken + 1 ELSE overtaken
        /\ lost \in Nat /\ overtaken \in Nat /\ i \in Nat \ {0}
    BY <1>1, <1>2, NetworkAssumption DEF Deliver, TypeOK, NetTypeOK
  <1>4. p.type = "FIN" /\ ~ reader.reading => lost' + overtaken' > 0
    <2> SUFFICES ASSUME p.type = "FIN", ~ reader.reading, ~ (lost' + overtaken' > 0)
                 PROVE  FALSE
      OBVIOUS
    <2>1. i = 1 /\ lost = 0 /\ overtaken = 0
      BY <1>3
    <2>2. p.type = "STATE"
      BY <1>2, <2>1 DEF EarlyFinInv, SynAckComesFirst
    <2> QED  BY <2>2
  <1>5. reader.state # "null"
    BY <1>2 DEF EarlyFinInv, NothingBeforeOpen, Roles
  <1> HIDE DEF p
  <1>6. NothingBeforeOpen'
    BY <1>1, <1>5 DEF NothingBeforeOpen
  <1>7. SynNumbers'
    BY <1>1, <1>2 DEF EarlyFinInv, SynNumbers
  <1>8. SynAckComesFirst'
    <2> SUFFICES ASSUME lost' = 0, overtaken' = 0 PROVE reader'.reading
      BY DEF SynAckComesFirst
    <2>1. p.type # "FIN" \/ reader.reading
      BY <1>3, <1>4
    <2> QED  BY <1>1, <2>1 DEF p
  <1>9. ThrowsOnlyAtEarlyFin'
    <2>1. "noReader" \in thrown => lost + overtaken > 0
      BY DEF EarlyFinInv, ThrowsOnlyAtEarlyFin
    <2>2. lost + overtaken > 0 => lost' + overtaken' > 0
      BY <1>3
    <2>3. "noReader" \in thrown' => lost' + overtaken' > 0
      BY <1>1, <1>4, <2>1, <2>2 DEF p
    <2> QED  BY <1>7, <2>3 DEF SynNumbers, ThrowsOnlyAtEarlyFin
  <1> QED  BY <1>6, <1>7, <1>8, <1>9 DEF EarlyFinInv

LEMMA EarlyFinLose ==
  ASSUME TypeOK, EarlyFinInv, LoseStep PROVE EarlyFinInv'
  <1>1. PICK r \in Roles : Lose(r)
    BY DEF LoseStep
  <1>2. \A q \in Roles : InFlight(q)' \subseteq InFlight(q)
    BY <1>1, LoseInFlight DEF TypeOK
  <1>3. lost' = lost + 1 /\ overtaken' = overtaken /\ lost \in Nat /\ overtaken \in Nat
    BY <1>1, NetworkAssumption DEF Lose, TypeOK, NetTypeOK
  <1>4. reader' = reader /\ thrown' = thrown
    BY DEF LoseStep
  <1>5. NothingBeforeOpen'
    <2> SUFFICES ASSUME reader.state = "null" PROVE FALSE
      BY <1>4 DEF NothingBeforeOpen
    <2>1. chan[r] = <<>>
      BY DEF EarlyFinInv, NothingBeforeOpen
    <2> QED  BY <1>1, <2>1 DEF Lose
  <1>6. SynNumbers'
    BY <1>2 DEF EarlyFinInv, SynNumbers, Roles
  <1>7. SynAckComesFirst'
    BY <1>3 DEF SynAckComesFirst
  <1>8. ThrowsOnlyAtEarlyFin'
    BY <1>2, <1>3, <1>4 DEF EarlyFinInv, ThrowsOnlyAtEarlyFin, Roles
  <1> QED  BY <1>5, <1>6, <1>7, <1>8 DEF EarlyFinInv

\* The inductive invariant of what comes first to either end.
THEOREM EarlyFinInvariant == Spec => []EarlyFinInv
  <1>1. Init => EarlyFinInv
    BY EarlyFinInit
  <1>2. TypeOK /\ EarlyFinInv /\ [Next]_vars => EarlyFinInv'
    <2> SUFFICES ASSUME TypeOK, EarlyFinInv, [Next]_vars PROVE EarlyFinInv'
      OBVIOUS
    <2>1. CASE OpenReader
      BY <2>1, EarlyFinOpenReader
    <2>2. ASSUME NEW i \in 1 .. Len(chan["writer"]), NEW keep \in BOOLEAN,
                 WriterSyn(i, keep)
          PROVE  EarlyFinInv'
      <3>1. PICK ack \in Socket, sk \in Socket :
              /\ chan["writer"][i].type = "SYN"
              /\ ack.ackNr = chan["writer"][i].seqNr /\ sk.seqNr = ack.seqNr + 1
              /\ Deliver("writer", i, keep, <<State(ack)>> \o Burst(sk))
              /\ UNCHANGED <<reader, delivered, thrown>>
        BY <2>2, WriterSynEffect
      <3> DEFINE out == <<State(ack)>> \o Burst(sk)
      <3>2. /\ out \in Seq(Packet) /\ out[1] = State(ack)
            /\ \A p \in Range(out) : p.type = "STATE" => p = State(ack)
        BY <3>1, WriterSynOut
      <3>3. chan["writer"][i].seqNr = 1
        <4>1. chan["writer"][i] \in InFlight("writer")
          BY <3>1, <3>2, Deliveries DEF Roles
        <4> QED  BY <3>1, <4>1 DEF EarlyFinInv, SynNumbers
      <3>4. State(ack).type = "STATE" /\ State(ack).ackNr = 1
        BY <3>1, <3>3 DEF State, MakePacket
      <3>5. Deliver("writer", i, keep, out)
        BY <3>1
      <3> HIDE DEF out
      <3> QED  BY <3>1, <3>2, <3>4, <3>5, EarlyFinWriter
    <2>3. ASSUME NEW i \in 1 .. Len(chan["writer"]), NEW keep \in BOOLEAN,
                 WriterState(i, keep)
          PROVE  EarlyFinInv'
      <3>1. <<>> \in Seq(Packet) /\ Deliver("writer", i, keep, <<>>)
            /\ UNCHANGED <<reader, delivered, thrown>>
        BY <2>3, WriterStateEffect
      <3>2. \A p \in Range(<<>>) : p.type = "STATE" => p.ackNr = 1
        BY RangeEmpty
      <3> QED  BY <3>1, <3>2, EarlyFinWriter
    <2>4. ASSUME NEW i \in 1 .. Len(chan["reader"]), NEW keep \in BOOLEAN,
                 ReaderHandles(i, keep)
          PROVE  EarlyFinInv'
      BY <2>4, EarlyFinReader
    <2>5. CASE LoseStep
      BY <2>5, EarlyFinLose
    <2>6. CASE UNCHANGED vars
      BY <2>6 DEF vars, net, InFlight, EarlyFinInv, NothingBeforeOpen, SynNumbers,
                  SynAckComesFirst, ThrowsOnlyAtEarlyFin
    <2> QED
      BY <2>1, <2>2, <2>3, <2>4, <2>5, <2>6 DEF Next, ReaderStep, WriterStep, ReaderHandles
  <1> QED  BY <1>1, <1>2, TypeInvariant, PTL DEF Spec

\* The reader throws for a packet's type at a FIN only that came before all else,
\* after a loss or an overtaking; STATE packets acknowledge the SYN alone.
THEOREM ThrowsOnlyAtEarlyFinAlways == Spec => []ThrowsOnlyAtEarlyFin
  <1>1. EarlyFinInv => ThrowsOnlyAtEarlyFin
    BY DEF EarlyFinInv
  <1> QED  BY <1>1, EarlyFinInvariant, PTL

----------------------------------------------------------------------------
(* One burst.  OneBurstInv is inductive on top of TypeOK and EarlyFinInv.  *)

LEMMA AtMostOneSynWithout ==
  ASSUME NEW s \in Seq(Packet), NEW i \in 1 .. Len(s), AtMostOneSyn(s)
  PROVE  /\ AtMostOneSyn(Without(s, i))
         /\ s[i].type = "SYN" => \A p \in Range(Without(s, i)) : p.type # "SYN"
  <1> DEFINE w    == Without(s, i)
             at(j) == IF j < i THEN j ELSE j + 1
  <1>1. /\ w \in Seq(Packet) /\ Len(w) = Len(s) - 1
        /\ \A j \in 1 .. Len(s) - 1 : w[j] = s[at(j)]
    BY WithoutProperties
  <1>2. \A j \in 1 .. Len(s) - 1 : at(j) \in 1 .. Len(s) /\ at(j) # i
    OBVIOUS
  <1>3. \A j, k \in 1 .. Len(s) - 1 : at(j) = at(k) => j = k
    OBVIOUS
  <1> HIDE DEF w, at
  <1>4. AtMostOneSyn(w)
    <2> SUFFICES ASSUME NEW j \in 1 .. Len(w), NEW k \in 1 .. Len(w),
                        w[j].type = "SYN", w[k].type = "SYN"
                 PROVE  j = k
      BY DEF AtMostOneSyn
    <2>1. j \in 1 .. Len(s) - 1 /\ k \in 1 .. Len(s) - 1
      BY <1>1
    <2>2. s[at(j)].type = "SYN" /\ s[at(k)].type = "SYN"
      BY <1>1, <2>1
    <2>3. at(j) = at(k)
      BY <1>2, <2>1, <2>2 DEF AtMostOneSyn
    <2> QED  BY <1>3, <2>1, <2>3
  <1>5. ASSUME s[i].type = "SYN", NEW p \in Range(w) PROVE p.type # "SYN"
    <2>1. PICK j \in 1 .. Len(w) : p = w[j]
      BY <1>1, <1>5, InRange
    <2>2. j \in 1 .. Len(s) - 1
      BY <1>1
    <2>3. p = s[at(j)] /\ at(j) \in 1 .. Len(s) /\ at(j) # i
      BY <1>1, <1>2, <2>1, <2>2
    <2> QED  BY <1>5, <2>3 DEF AtMostOneSyn
  <1> QED  BY <1>4, <1>5 DEF w

LEMMA AtMostOneSynConcatenation ==
  ASSUME NEW s \in Seq(Packet), NEW t \in Seq(Packet), AtMostOneSyn(s),
         \A p \in Range(t) : p.type = "STATE"
  PROVE  AtMostOneSyn(s \o t)
  <1> DEFINE c == s \o t
  <1>1. /\ c \in Seq(Packet) /\ Len(c) = Len(s) + Len(t)
        /\ Len(s) \in Nat /\ Len(t) \in Nat
        /\ \A j \in 1 .. Len(s) + Len(t) : c[j] = IF j <= Len(s) THEN s[j] ELSE t[j - Len(s)]
    BY ConcatenationProperties
  <1> HIDE DEF c
  <1>2. ASSUME NEW j \in 1 .. Len(c), c[j].type = "SYN"
        PROVE  j \in 1 .. Len(s) /\ s[j].type = "SYN"
    <2>1. CASE j <= Len(s)
      BY <1>1, <1>2, <2>1
    <2>2. CASE j > Len(s)
      <3>1. j - Len(s) \in 1 .. Len(t) /\ c[j] = t[j - Len(s)]
        BY <1>1, <2>2
      <3>2. c[j] \in Range(t)
        BY <3>1, InRange
      <3> QED  BY <1>2, <3>2
    <2> QED  BY <1>1, <2>1, <2>2
  <1>3. AtMostOneSyn(c)
    BY <1>2 DEF AtMostOneSyn
  <1> QED  BY <1>3 DEF c

LEMMA OneBurstInit == ASSUME Init PROVE OneBurstInv
  <1>1. \A r \in Roles : chan[r] = <<>> /\ InFlight(r) = {}
    BY EmptyOnTheWay DEF Init, NetInit
  <1>2. writer.finNr = Undefined /\ Range(writer.ackNrs) = {}
    BY RangeEmpty DEF Init, NewSocket
  <1>3. AtMostOneSyn(chan["writer"])
    BY <1>1 DEF AtMostOneSyn, Roles
  <1> QED
    BY <1>1, <1>2, <1>3 DEF OneBurstInv, OneSyn, NoAckBeforeBurst, OnlyBurstNrs, Roles

LEMMA OneBurstOpenReader ==
  ASSUME TypeOK, EarlyFinInv, OneBurstInv, OpenReader PROVE OneBurstInv'
  <1>1. PICK p \in Packet :
           /\ p.type = "SYN" /\ p.seqNr = 1
           /\ reader.state = "null"
           /\ reader'.state = "SynSent"
           /\ Send("reader", <<p>>)
           /\ UNCHANGED <<writer, delivered, thrown>>
    BY OpenReaderEffect
  <1>2. <<p>> \in Seq(Packet) /\ Range(<<p>>) = {p}
    BY RangeSingle
  <1>3. InFlight("reader")' = InFlight("reader")
        /\ InFlight("writer")' = InFlight("writer") \cup {p}
    BY <1>1, <1>2, SendInFlight DEF TypeOK, Roles, Other
  <1>4. chan["writer"] = <<>> /\ InFlight("writer") = {} /\ writer.finNr = Undefined
    BY <1>1, EmptyOnTheWay DEF EarlyFinInv, NothingBeforeOpen, OneBurstInv, Roles
  <1>5. chan'["writer"] = <<p>>
    <2>1. chan'["writer"] = chan["writer"] \o <<p>>
      BY <1>1 DEF Send, Other, TypeOK, NetTypeOK, Roles
    <2> QED  BY <1>2, <1>4, <2>1, HeadOfConcatenation
  <1>6. AtMostOneSyn(chan'["writer"])
    BY <1>5 DEF AtMostOneSyn
  <1>7. dups' = dups
    BY <1>1 DEF Send
  <1>8. dups = 0 => OneSyn'
    BY <1>1, <1>4, <1>6 DEF OneSyn
  <1>9. dups = 0 => NoAckBeforeBurst'
    BY <1>1, <1>3, <1>4 DEF OneBurstInv, NoAckBeforeBurst
  <1>10. OnlyBurstNrs'
    BY <1>1, <1>4 DEF OnlyBurstNrs
  <1> QED  BY <1>1, <1>7, <1>8, <1>9, <1>10 DEF OneBurstInv

\* A delivery that leaves no duplicate behind takes the packet away.
LEMMA DeliverOnce ==
  ASSUME TypeOK, NEW r \in Roles, NEW i \in 1 .. Len(chan[r]),
         NEW keep \in BOOLEAN, NEW out \in Seq(Packet), Deliver(r, i, keep, out),
         dups' = 0
  PROVE  dups = 0 /\ chan'[r] = Without(chan[r], i)
  <1>1. dups = 0 /\ ~ keep
    BY NetworkAssumption DEF Deliver, TypeOK, NetTypeOK
  <1> QED  BY <1>1, Deliveries

LEMMA OneBurstWriterSyn ==
  ASSUME TypeOK, EarlyFinInv, OneBurstInv, NEW i \in 1 .. Len(chan["writer"]),
         NEW keep \in BOOLEAN, WriterSyn(i, keep)
  PROVE  OneBurstInv'
  <1>1. PICK ack \in Socket, sk \in Socket :
          /\ chan["writer"][i].type = "SYN"
          /\ ack.ackNr = chan["writer"][i].seqNr /\ sk.seqNr = ack.seqNr + 1
          /\ sk.ackNrs = writer.ackNrs
          /\ writer' = AfterBurst(sk)
          /\ Deliver("writer", i, keep, <<State(ack)>> \o Burst(sk))
          /\ UNCHANGED <<reader, delivered, thrown>>
    BY WriterSynEffect
  <1> DEFINE out == <<State(ack)>> \o Burst(sk)
  <1>2. /\ out \in Seq(Packet)
        /\ \A p \in Range(out) : p.seqNr \in ack.seqNr .. ack.seqNr + N + 1
    BY <1>1, WriterSynOut
  <1>3. writer'.finNr = ack.seqNr + N + 1 /\ writer'.ackNrs = writer.ackNrs
        /\ ack.seqNr \in Nat
    <2>1. writer'.finNr = sk.seqNr + N /\ writer'.ackNrs = sk.ackNrs
      BY <1>1, AfterBurstProperties
    <2>2. ack.seqNr \in Nat
      BY DEF Socket
    <2> QED  BY <1>1, <2>1, <2>2, SocketAssumption
  <1>4. Deliver("writer", i, keep, out)
    BY <1>1
  <1> HIDE DEF out
  <1>5. /\ chan["writer"][i] \in InFlight("writer")
        /\ InFlight("writer")' \subseteq InFlight("writer")
        /\ InFlight("reader")' = InFlight("reader") \cup Range(out)
        /\ chan["writer"] \in Seq(Packet) /\ chan["writer"] # <<>>
    BY <1>2, <1>4, Deliveries DEF Roles, Other
  <1>6. writer'.finNr # Undefined
    BY <1>3, SocketAssumption DEF Undefined
  <1>7. reader.state # "null"
    BY <1>5 DEF EarlyFinInv, NothingBeforeOpen, Roles
  <1>8. ASSUME dups' = 0 PROVE OneSyn' /\ NoAckBeforeBurst' /\ OnlyBurstNrs'
    <2>1. dups = 0 /\ chan'["writer"] = Without(chan["writer"], i)
      BY <1>2, <1>4, <1>8, DeliverOnce DEF Roles
    <2>2. AtMostOneSyn(chan["writer"]) /\ writer.finNr = Undefined
      BY <1>1, <1>5, <2>1 DEF OneBurstInv, OneSyn
    <2>3. /\ InFlight("reader") = {} /\ Range(writer.ackNrs) = {}
          /\ \A p \in InFlight("writer") : p.type # "STATE"
      BY <2>1, <2>2 DEF OneBurstInv, NoAckBeforeBurst
    <2>4. /\ AtMostOneSyn(chan'["writer"])
          /\ \A p \in InFlight("writer")' : p.type # "SYN"
      BY <1>1, <1>5, <2>1, <2>2, AtMostOneSynWithout DEF InFlight
    <2>5. OneSyn'
      BY <2>4 DEF OneSyn
    <2>6. NoAckBeforeBurst'
      BY <1>6 DEF NoAckBeforeBurst
    <2>7. ({writer.finNr - N - 1} \cup BurstNrs)' = ack.seqNr .. ack.seqNr + N + 1
      BY <1>3, SocketAssumption DEF BurstNrs
    <2>8. OnlyBurstNrs'
      BY <1>2, <1>3, <1>5, <2>3, <2>7 DEF OnlyBurstNrs
    <2> QED  BY <2>5, <2>6, <2>8
  <1> QED  BY <1>1, <1>7, <1>8 DEF OneBurstInv

LEMMA OneBurstWriterState ==
  ASSUME TypeOK, EarlyFinInv, OneBurstInv, NEW i \in 1 .. Len(chan["writer"]),
         NEW keep \in BOOLEAN, WriterState(i, keep)
  PROVE  OneBurstInv'
  <1>1. /\ chan["writer"][i].type = "STATE"
        /\ writer'.finNr = writer.finNr
        /\ Range(writer'.ackNrs) \subseteq Range(writer.ackNrs) \cup {chan["writer"][i].ackNr}
        /\ <<>> \in Seq(Packet)
        /\ Deliver("writer", i, keep, <<>>)
        /\ UNCHANGED <<reader, delivered, thrown>>
    BY WriterStateEffect
  <1>2. /\ chan["writer"][i] \in InFlight("writer")
        /\ InFlight("writer")' \subseteq InFlight("writer")
        /\ InFlight("reader")' = InFlight("reader")
        /\ chan["writer"] \in Seq(Packet)
    <2>1. PICK out \in Seq(Packet) : out = <<>> /\ Deliver("writer", i, keep, out)
      BY <1>1
    <2>2. /\ chan["writer"][i] \in InFlight("writer")
          /\ InFlight("writer")' \subseteq InFlight("writer")
          /\ InFlight("reader")' = InFlight("reader") \cup Range(out)
          /\ chan["writer"] \in Seq(Packet)
      BY <2>1, WriterDelivery
    <2> QED  BY <2>1, <2>2, RangeEmpty
  <1>3. ASSUME dups' = 0 PROVE OneSyn' /\ NoAckBeforeBurst' /\ OnlyBurstNrs'
    <2>1. dups = 0 /\ chan'["writer"] = Without(chan["writer"], i)
      BY <1>1, <1>3, DeliverOnce DEF Roles
    <2>2. AtMostOneSyn(chan'["writer"])
      BY <1>2, <2>1, AtMostOneSynWithout DEF OneBurstInv, OneSyn
    <2>3. OneSyn'
      BY <1>1, <1>2, <2>1, <2>2 DEF OneBurstInv, OneSyn
    <2>4. writer.finNr # Undefined
      BY <1>1, <1>2, <2>1 DEF OneBurstInv, NoAckBeforeBurst
    <2>5. NoAckBeforeBurst'
      BY <1>1, <2>4 DEF NoAckBeforeBurst
    <2>6. OnlyBurstNrs
      BY <2>1 DEF OneBurstInv
    <2>7. BurstNrs' = BurstNrs
      BY <1>1 DEF BurstNrs
    <2>8. OnlyBurstNrs'
      BY <1>1, <1>2, <2>4, <2>6, <2>7 DEF OnlyBurstNrs
    <2> QED  BY <2>3, <2>5, <2>8
  <1>4. reader' = reader
    BY <1>1
  <1> QED  BY <1>1, <1>3, <1>4 DEF OneBurstInv

LEMMA OneBurstReader ==
  ASSUME TypeOK, EarlyFinInv, OneBurstInv, NEW i \in 1 .. Len(chan["reader"]),
         NEW keep \in BOOLEAN, ReaderHandles(i, keep)
  PROVE  OneBurstInv'
  <1>0. PICK out \in Seq(Packet) : ReaderTakes(chan["reader"][i], i, keep, out)
    BY ReaderEffect
  <1>1. /\ Deliver("reader", i, keep, out)
        /\ \A p \in Range(out) : p.type = "STATE" /\ p.ackNr = chan["reader"][i].seqNr
        /\ reader' \in Socket
        /\ reader'.state = IF chan["reader"][i].type = "STATE" THEN reader.state
                           ELSE IF chan["reader"][i].type = "DATA" THEN "Connected" ELSE "GotFin"
        /\ reader'.reading = IF chan["reader"][i].type = "FIN" THEN reader.reading ELSE TRUE
        /\ writer' = writer
        /\ chan["reader"][i].type \in {"STATE", "DATA", "FIN"}
        /\ delivered' \in Seq(Seq(0..N))
        /\ thrown' \subseteq {"sackLength", "noReader"}
        /\ "noReader" \in thrown' =>
             \/ "noReader" \in thrown
             \/ chan["reader"][i].type = "FIN" /\ ~ reader.reading
    BY <1>0 DEF ReaderTakes
  <1>2. /\ chan["reader"][i] \in InFlight("reader")
        /\ InFlight("reader")' \subseteq InFlight("reader")
        /\ InFlight("writer")' = InFlight("writer") \cup Range(out)
        /\ chan'["writer"] = chan["writer"] \o out
        /\ chan["writer"] \in Seq(Packet) /\ chan["reader"] # <<>>
    BY <1>1, Deliveries DEF Roles, Other
  <1>3. reader'.state # "null"
    <2>1. reader.state # "null"
      BY <1>2 DEF EarlyFinInv, NothingBeforeOpen, Roles
    <2> QED  BY <1>1, <2>1
  <1>4. ASSUME dups' = 0 PROVE OneSyn' /\ NoAckBeforeBurst' /\ OnlyBurstNrs'
    <2>1. dups = 0
      BY <1>1, <1>4, DeliverOnce DEF Roles
    <2>2. OneSyn /\ NoAckBeforeBurst /\ OnlyBurstNrs
      BY <2>1 DEF OneBurstInv
    <2>3. AtMostOneSyn(chan'["writer"])
      BY <1>1, <1>2, <2>2, AtMostOneSynConcatenation DEF OneSyn
    <2>4. OneSyn'
      BY <1>1, <1>2, <2>2, <2>3 DEF OneSyn
    <2>5. writer.finNr # Undefined
      BY <1>2, <2>2 DEF NoAckBeforeBurst
    <2>6. NoAckBeforeBurst'
      BY <1>1, <2>5 DEF NoAckBeforeBurst
    <2>7. BurstNrs' = BurstNrs
      BY <1>1 DEF BurstNrs
    <2>8. OnlyBurstNrs'
      BY <1>1, <1>2, <2>2, <2>5, <2>7 DEF OnlyBurstNrs
    <2> QED  BY <2>4, <2>6, <2>8
  <1> QED  BY <1>3, <1>4 DEF OneBurstInv

LEMMA OneBurstLose ==
  ASSUME TypeOK, OneBurstInv, LoseStep PROVE OneBurstInv'
  <1>1. PICK r \in Roles : Lose(r)
    BY DEF LoseStep
  <1>2. PICK i \in 1 .. Len(chan[r]) : chan' = [chan EXCEPT ![r] = Without(@, i)]
    BY <1>1 DEF Lose
  <1>3. \A q \in Roles : InFlight(q)' \subseteq InFlight(q)
    BY <1>1, LoseInFlight DEF TypeOK
  <1>4. dups' = dups /\ reader' = reader /\ writer' = writer
    BY <1>1 DEF Lose, LoseStep
  <1>5. BurstNrs' = BurstNrs
    BY <1>4 DEF BurstNrs
  <1>6. ASSUME dups = 0 PROVE OneSyn' /\ NoAckBeforeBurst' /\ OnlyBurstNrs'
    <2>1. OneSyn /\ NoAckBeforeBurst /\ OnlyBurstNrs
      BY <1>6 DEF OneBurstInv
    <2>2. AtMostOneSyn(chan'["writer"])
      <3>1. chan["writer"] \in Seq(Packet) /\ "writer" \in Roles
        BY DEF TypeOK, NetTypeOK, Roles
      <3>2. CASE r = "writer"
        <4>1. chan'["writer"] = Without(chan["writer"], i) /\ i \in 1 .. Len(chan["writer"])
          BY <1>2, <3>1, <3>2 DEF TypeOK, NetTypeOK
        <4> QED  BY <2>1, <3>1, <4>1, AtMostOneSynWithout DEF OneSyn
      <3>3. CASE r # "writer"
        <4>1. chan'["writer"] = chan["writer"]
          BY <1>2, <3>1, <3>3 DEF TypeOK, NetTypeOK
        <4> QED  BY <2>1, <4>1 DEF OneSyn
      <3> QED  BY <3>2, <3>3
    <2>3. OneSyn'
      BY <1>3, <1>4, <2>1, <2>2 DEF OneSyn, Roles
    <2>4. NoAckBeforeBurst'
      BY <1>3, <1>4, <2>1 DEF NoAckBeforeBurst, Roles
    <2>5. OnlyBurstNrs'
      BY <1>3, <1>4, <1>5, <2>1 DEF OnlyBurstNrs, Roles
    <2> QED  BY <2>3, <2>4, <2>5
  <1> QED  BY <1>4, <1>6 DEF OneBurstInv

\* Without a duplicate the writer answers one SYN with one burst, whose numbers
\* are all that is on its way.
THEOREM OneBurstInvariant == Spec => []OneBurstInv
  <1>1. Init => EarlyFinInv /\ OneBurstInv
    BY EarlyFinInit, OneBurstInit
  <1>2. TypeOK /\ EarlyFinInv /\ OneBurstInv /\ [Next]_vars => OneBurstInv'
    <2> SUFFICES ASSUME TypeOK, EarlyFinInv, OneBurstInv, [Next]_vars PROVE OneBurstInv'
      OBVIOUS
    <2>1. CASE OpenReader
      BY <2>1, OneBurstOpenReader
    <2>2. ASSUME NEW i \in 1 .. Len(chan["writer"]), NEW keep \in BOOLEAN,
                 WriterSyn(i, keep)
          PROVE  OneBurstInv'
      BY <2>2, OneBurstWriterSyn
    <2>3. ASSUME NEW i \in 1 .. Len(chan["writer"]), NEW keep \in BOOLEAN,
                 WriterState(i, keep)
          PROVE  OneBurstInv'
      BY <2>3, OneBurstWriterState
    <2>4. ASSUME NEW i \in 1 .. Len(chan["reader"]), NEW keep \in BOOLEAN,
                 ReaderHandles(i, keep)
          PROVE  OneBurstInv'
      BY <2>4, OneBurstReader
    <2>5. CASE LoseStep
      BY <2>5, OneBurstLose
    <2>6. CASE UNCHANGED vars
      BY <2>6 DEF vars, net, InFlight, OneBurstInv, OneSyn, NoAckBeforeBurst,
                  OnlyBurstNrs, BurstNrs
    <2> QED
      BY <2>1, <2>2, <2>3, <2>4, <2>5, <2>6
         DEF Next, ReaderStep, WriterStep, ReaderHandles
  <1> QED  BY <1>1, <1>2, TypeInvariant, EarlyFinInvariant, PTL DEF Spec

\* Unless a packet arrived twice, the numbers the writer takes for acknowledged
\* are those it sent its SYN-ACK, its chunks and its FIN under: its second
\* random number, and with it a second burst, never comes.
THEOREM AckedWasSentAlways == Spec => []AckedWasSent
  <1>1. OneBurstInv => AckedWasSent
    <2> SUFFICES ASSUME OneBurstInv, dups = 0, NEW nr \in Range(writer.ackNrs)
                 PROVE  nr \in {writer.finNr - N - 1} \cup BurstNrs
      BY DEF AckedWasSent
    <2>1. writer.finNr # Undefined
      BY DEF OneBurstInv, NoAckBeforeBurst
    <2> QED  BY <2>1 DEF OneBurstInv, OnlyBurstNrs
  <1> QED  BY <1>1, OneBurstInvariant, PTL
----------------------------------------------------------------------------
(* The content.  TransferInv is inductive on top of the other invariants.  *)

LEMMA ToReaderType == ASSUME TypeOK PROVE chan["reader"] \in Seq(Packet)
  BY DEF TypeOK, NetTypeOK, Roles

\* What a delivery counts.
LEMMA DeliverCounts ==
  ASSUME TypeOK, NEW r, NEW i \in Nat, NEW keep \in BOOLEAN, NEW out,
         Deliver(r, i, keep, out)
  PROVE  /\ lost' = lost /\ lost \in Nat
         /\ dups \in Nat /\ dups' = IF keep THEN dups + 1 ELSE dups
         /\ overtaken \in Nat /\ overtaken' = IF i > 1 THEN overtaken + 1 ELSE overtaken
  BY NetworkAssumption DEF Deliver, TypeOK, NetTypeOK

\* What each handler of the reader does to what it holds and has handed on.
LEMMA ReaderContent ==
  ASSUME TypeOK, NEW i \in 1 .. Len(chan["reader"]), NEW keep \in BOOLEAN,
         ReaderHandles(i, keep)
  PROVE  LET p   == chan["reader"][i]
             seg == [seqNr |-> p.seqNr, payload |-> p.payload] IN
         \/ p.type = "STATE" /\ reader'.packets = <<>> /\ delivered' = delivered
         \/ /\ p.type = "DATA" /\ reader'.packets = AddPacket(reader.packets, seg)
            /\ delivered' = delivered
         \/ /\ p.type = "FIN" /\ reader'.packets = reader.packets
            /\ delivered' \in {delivered, Append(delivered, Compile(reader))}
  <1> DEFINE p == chan["reader"][i]
  <1>1. p \in Packet /\ reader \in Socket
    BY DEF TypeOK, NetTypeOK, Roles
  <1>2. CASE ReaderSynAck(i, keep)
    <2> DEFINE up == [reader EXCEPT !.ackNr = p.seqNr, !.seqNr = 2, !.nextSeq = p.seqNr + 1]
    <2>1. up \in Socket
      <3>1. p.seqNr \in Int /\ p.seqNr + 1 \in Nat \cup {Undefined} /\ 2 \in Nat
        BY <1>1 DEF Packet
      <3> QED  BY <1>1, <3>1 DEF Socket
    <2>2. p.type = "STATE" /\ reader' = AttachReader(up) /\ delivered' = delivered
      BY <1>2 DEF ReaderSynAck
    <2> HIDE DEF up
    <2>3. AttachReader(up).packets = <<>>
      BY <2>1 DEF AttachReader, Socket
    <2> QED  BY <2>2, <2>3
  <1>3. CASE ReaderData(i, keep)
    <2>1. p.type = "DATA" /\ reader' = TakeData(reader, p) /\ delivered' = delivered
      BY <1>3 DEF ReaderData
    <2>2. TakeData(reader, p).packets
            = AddPacket(reader.packets, [seqNr |-> p.seqNr, payload |-> p.payload])
      BY <1>1 DEF TakeData, Socket
    <2> QED  BY <2>1, <2>2
  <1>4. CASE ReaderFin(i, keep)
    <2>1. /\ p.type = "FIN" /\ reader' = TakeFin(reader, p)
          /\ delivered' = Append(delivered, Compile(reader))
      BY <1>4 DEF ReaderFin
    <2>2. TakeFin(reader, p).packets = reader.packets
      BY <1>1 DEF TakeFin, Socket
    <2> QED  BY <2>1, <2>2
  <1>5. CASE ReaderFinThrows(i, keep)
    <2>1. /\ p.type = "FIN" /\ reader' = [reader EXCEPT !.state = "GotFin"]
          /\ delivered' = delivered
      BY <1>5 DEF ReaderFinThrows
    <2>2. reader'.packets = reader.packets
      BY <1>1, <2>1 DEF Socket
    <2> QED  BY <2>1, <2>2
  <1> QED  BY <1>2, <1>3, <1>4, <1>5 DEF ReaderHandles

\* The answer to a SYN, packet by packet.
LEMMA BurstInOrder ==
  ASSUME NEW ack \in Socket, NEW sk \in Socket, sk.seqNr = ack.seqNr + 1
  PROVE  LET out == <<State(ack)>> \o Burst(sk) IN
         /\ out \in Seq(Packet) /\ Len(out) = N + 2
         /\ \A j \in 1 .. N + 2 :
              /\ out[j].seqNr = ack.seqNr + j - 1
              /\ out[j].type = IF j = 1 THEN "STATE" ELSE IF j = N + 2 THEN "FIN" ELSE "DATA"
              /\ out[j].type = "DATA" => out[j].payload = j - 1
  <1> DEFINE b   == Burst(sk)
             h   == <<State(ack)>>
             out == h \o b
  <1> USE SocketAssumption
  <1>1. h \in Seq(Packet) /\ Len(h) = 1 /\ h[1] = State(ack)
    BY StateType
  <1>2. /\ b \in Seq(Packet) /\ Len(b) = N + 1
        /\ \A j \in 1..N : b[j] = MakePacket("DATA", sk.seqNr + j - 1, sk.ackNr, j)
        /\ b[N+1] = MakePacket("FIN", sk.seqNr + N, sk.ackNr, 0)
    BY BurstProperties
  <1>3. ack.seqNr \in Nat
    BY DEF Socket
  <1> HIDE DEF b, h
  <1>4. /\ out \in Seq(Packet) /\ Len(out) = N + 2
        /\ out[1] = h[1] /\ \A j \in 2 .. N + 2 : out[j] = b[j - 1]
    <2>1. /\ out \in Seq(Packet) /\ Len(out) = Len(h) + Len(b)
          /\ \A j \in 1 .. Len(h) + Len(b) :
               out[j] = IF j <= Len(h) THEN h[j] ELSE b[j - Len(h)]
      <3>1. h \in Seq(Packet) /\ b \in Seq(Packet)
        BY <1>1, <1>2
      <3> QED  BY <3>1, ConcatenationProperties
    <2> HIDE DEF out
    <2>2. Len(h) = 1 /\ Len(b) = N + 1 /\ N \in Nat
      BY <1>1, <1>2
    <2> QED  BY <2>1, <2>2
  <1> HIDE DEF out
  <1>5. /\ out[1].seqNr = ack.seqNr + 1 - 1 /\ out[1].type = "STATE"
    <2>1. out[1] = State(ack)
      BY <1>1, <1>2, <1>4
    <2> QED  BY <1>3, <2>1 DEF State, MakePacket
  <1>6. out[N+2].seqNr = ack.seqNr + (N + 2) - 1 /\ out[N+2].type = "FIN"
    <2>1. out[N+2] = b[N+1]
      BY <1>2, <1>4
    <2>2. out[N+2].seqNr = sk.seqNr + N /\ out[N+2].type = "FIN"
      BY <1>2, <2>1 DEF MakePacket
    <2> QED  BY <1>3, <2>2
  <1>7. ASSUME NEW j \in 2 .. N + 1
        PROVE  /\ out[j].seqNr = ack.seqNr + j - 1 /\ out[j].type = "DATA"
               /\ out[j].payload = j - 1
    <2>1. j - 1 \in 1..N /\ j \in 2 .. N + 2
      OBVIOUS
    <2>2. out[j] = MakePacket("DATA", sk.seqNr + (j - 1) - 1, sk.ackNr, j - 1)
      BY <1>2, <1>4, <2>1
    <2>3. out[j].seqNr = sk.seqNr + (j - 1) - 1 /\ out[j].type = "DATA" /\ out[j].payload = j - 1
      BY <2>2 DEF MakePacket
    <2> QED  BY <1>3, <2>3
  <1>8. \A j \in 1 .. N + 2 : j = 1 \/ j = N + 2 \/ j \in 2 .. N + 1
    OBVIOUS
  <1>9. \A j \in 1 .. N + 2 :
              /\ out[j].seqNr = ack.seqNr + j - 1
              /\ out[j].type = IF j = 1 THEN "STATE" ELSE IF j = N + 2 THEN "FIN" ELSE "DATA"
              /\ out[j].type = "DATA" => out[j].payload = j - 1
    <2> TAKE j \in 1 .. N + 2
    <2>1. CASE j = 1
      BY <1>5, <2>1
    <2>2. CASE j = N + 2
      BY <1>6, <2>2
    <2>3. CASE j \in 2 .. N + 1
      BY <1>7, <2>3
    <2> QED  BY <1>8, <2>1, <2>2, <2>3
  <1> QED  BY <1>2, <1>4, <1>9 DEF out, h, b

----------------------------------------------------------------------------
(* Only chunks are read, whatever the network does.                        *)

LEMMA OnlyChunksNext ==
  ASSUME TypeOK, OnlyChunks, [Next]_vars PROVE OnlyChunks'
  <1>1. CASE OpenReader
    <2>1. PICK p \in Packet : p.type = "SYN" /\ Send("reader", <<p>>)
      BY <1>1, OpenReaderEffect
    <2>2. InFlight("reader")' = InFlight("reader")
      <3>1. <<p>> \in Seq(Packet)
        OBVIOUS
      <3> QED  BY <2>1, <3>1, SendInFlight DEF TypeOK, Roles
    <2>3. reader'.packets = <<>>
      BY <1>1 DEF OpenReader, NewSocket
    <2> QED  BY <2>2, <2>3 DEF OnlyChunks
  <1>2. ASSUME NEW i \in 1 .. Len(chan["writer"]), NEW keep \in BOOLEAN,
               WriterSyn(i, keep)
        PROVE  OnlyChunks'
    <2>1. PICK ack \in Socket, sk \in Socket :
            /\ sk.seqNr = ack.seqNr + 1
            /\ Deliver("writer", i, keep, <<State(ack)>> \o Burst(sk))
            /\ UNCHANGED <<reader, delivered, thrown>>
      BY <1>2, WriterSynEffect
    <2> DEFINE out == <<State(ack)>> \o Burst(sk)
    <2>2. /\ out \in Seq(Packet) /\ Len(out) = N + 2
          /\ \A j \in 1 .. N + 2 :
               /\ out[j].type = IF j = 1 THEN "STATE" ELSE IF j = N + 2 THEN "FIN" ELSE "DATA"
               /\ out[j].type = "DATA" => out[j].payload = j - 1
      BY <2>1, BurstInOrder
    <2>3. Deliver("writer", i, keep, out)
      BY <2>1
    <2> HIDE DEF out
    <2>4. InFlight("reader")' = InFlight("reader") \cup Range(out)
      BY <2>2, <2>3, WriterDelivery
    <2>5. \A p \in Range(out) : p.type = "DATA" => p.payload \in Chunks
      <3> SUFFICES ASSUME NEW p \in Range(out), p.type = "DATA" PROVE p.payload \in Chunks
        OBVIOUS
      <3>1. PICK j \in 1 .. N + 2 : p = out[j]
        BY <2>2, InRange
      <3>2. j # 1 /\ j # N + 2 /\ p.payload = j - 1
        BY <2>2, <3>1
      <3> QED  BY <3>2, SocketAssumption DEF Chunks
    <2> QED  BY <2>1, <2>4, <2>5 DEF OnlyChunks
  <1>3. ASSUME NEW i \in 1 .. Len(chan["writer"]), NEW keep \in BOOLEAN,
               WriterState(i, keep)
        PROVE  OnlyChunks'
    <2>1. PICK out \in Seq(Packet) : out = <<>> /\ Deliver("writer", i, keep, out)
      BY <1>3, WriterStateEffect
    <2>2. InFlight("reader")' = InFlight("reader") /\ reader' = reader
      BY <1>3, <2>1, WriterDelivery, WriterStateEffect, RangeEmpty
    <2> QED  BY <2>2 DEF OnlyChunks
  <1>4. ASSUME NEW i \in 1 .. Len(chan["reader"]), NEW keep \in BOOLEAN,
               ReaderHandles(i, keep)
        PROVE  OnlyChunks'
    <2> DEFINE p   == chan["reader"][i]
               seg == [seqNr |-> p.seqNr, payload |-> p.payload]
               s   == reader.packets
               a   == AddPacket(s, seg)
    <2>0. PICK out \in Seq(Packet) : ReaderTakes(chan["reader"][i], i, keep, out)
      BY <1>4, ReaderEffect
    <2>1. Deliver("reader", i, keep, out)
      BY <2>0 DEF ReaderTakes
    <2>2. p \in InFlight("reader") /\ InFlight("reader")' \subseteq InFlight("reader")
          /\ p \in Packet
      BY <2>1, Deliveries DEF Roles
    <2>3. \/ reader'.packets = <<>>
          \/ p.type = "DATA" /\ reader'.packets = a
          \/ reader'.packets = s
      BY <1>4, ReaderContent
    <2>4. CASE p.type = "DATA" /\ reader'.packets = a
      <3>1. s \in Seq(Segment) /\ seg \in Segment /\ seg.payload = p.payload
        BY <2>2 DEF TypeOK, Socket, Packet, Segment
      <3>2. seg.payload \in Chunks /\ \A k \in 1 .. Len(s) : s[k].payload \in Chunks
        BY <2>2, <2>4, <3>1 DEF OnlyChunks
      <3>3. \A j \in 1 .. Len(a) : a[j] = seg \/ \E k \in 1 .. Len(s) : a[j] = s[k]
        <4> HIDE DEF s, seg
        <4> QED  BY <3>1, AddPacketOnly
      <3> HIDE DEF a, s, seg
      <3>4. \A j \in 1 .. Len(a) : a[j].payload \in Chunks
        BY <3>2, <3>3
      <3> QED  BY <2>2, <2>4, <3>4 DEF OnlyChunks
    <2> HIDE DEF p
    <2>5. CASE reader'.packets = <<>> \/ reader'.packets = s
      BY <2>2, <2>5 DEF OnlyChunks
    <2> QED  BY <2>3, <2>4, <2>5
  <1>5. CASE LoseStep
    <2>1. InFlight("reader")' \subseteq InFlight("reader") /\ reader' = reader
      BY <1>5, LoseInFlight DEF LoseStep, TypeOK, Roles
    <2> QED  BY <2>1 DEF OnlyChunks
  <1>6. CASE UNCHANGED vars
    BY <1>6 DEF vars, net, InFlight, OnlyChunks
  <1> QED
    BY <1>1, <1>2, <1>3, <1>4, <1>5, <1>6 DEF Next, ReaderStep, WriterStep, ReaderHandles

----------------------------------------------------------------------------
(* How many of a type are on their way.                                    *)

LEMMA PlacesFinite ==
  ASSUME NEW s \in Seq(Packet), NEW type
  PROVE  IsFiniteSet(Places(s, type)) /\ Cardinality(Places(s, type)) \in Nat
  <1>1. IsFiniteSet(1 .. Len(s))
    BY FS_Interval
  <1>2. Places(s, type) \in SUBSET (1 .. Len(s))
    BY DEF Places
  <1>3. IsFiniteSet(Places(s, type))
    BY <1>1, <1>2, FS_Subset
  <1> QED  BY <1>3, FS_CardinalityType

LEMMA PlacesWithout ==
  ASSUME NEW s \in Seq(Packet), NEW i \in 1 .. Len(s), NEW type
  PROVE  /\ Cardinality(Places(Without(s, i), type)) <= Cardinality(Places(s, type))
         /\ s[i].type = type => Cardinality(Places(Without(s, i), type))
                                  <= Cardinality(Places(s, type)) - 1
  <1> DEFINE w == Without(s, i)
             P == Places(s, type)
             Q == Places(w, type)
             at(m) == IF m < i THEN m ELSE m + 1
             f == [k \in Q |-> at(k)]
  <1>1. /\ w \in Seq(Packet) /\ Len(w) = Len(s) - 1 /\ Len(s) \in Nat
        /\ \A k \in 1 .. Len(s) - 1 : w[k] = s[at(k)]
    BY WithoutProperties
  <1>2. IsFiniteSet(P) /\ Cardinality(P) \in Nat /\ IsFiniteSet(Q) /\ Cardinality(Q) \in Nat
    BY <1>1, PlacesFinite
  <1>3. P = {k \in 1 .. Len(s) : s[k].type = type}
        /\ Q = {k \in 1 .. Len(s) - 1 : w[k].type = type}
    BY <1>1 DEF Places
  <1> HIDE DEF w, P, Q
  <1>4. \A k \in Q : at(k) \in P \ {i}
    <2> TAKE k \in Q
    <2>1. k \in 1 .. Len(s) - 1 /\ w[k].type = type
      BY <1>3
    <2>2. at(k) \in 1 .. Len(s) /\ at(k) # i
      BY <1>1, <2>1
    <2>3. w[k] = s[at(k)]
      BY <1>1, <2>1
    <2> HIDE DEF at
    <2> QED  BY <1>3, <2>1, <2>2, <2>3
  <1>5. \A j, k \in Q : at(j) = at(k) => j = k
    BY <1>1, <1>3
  <1>6. f \in Injection(Q, P \ {i})
    <2>1. f \in [Q -> P \ {i}] /\ \A j, k \in Q : f[j] = f[k] => j = k
      BY <1>4, <1>5
    <2> HIDE DEF f
    <2> QED  BY <2>1 DEF Injection, IsInjective
  <1>7. IsFiniteSet(P \ {i})
        /\ Cardinality(P \ {i}) = IF i \in P THEN Cardinality(P) - 1 ELSE Cardinality(P)
    BY <1>2, FS_RemoveElement
  <1>8. Cardinality(Q) <= Cardinality(P \ {i})
    <2> HIDE DEF f
    <2> QED  BY <1>6, <1>7, FS_Injection
  <1>9. s[i].type = type => i \in P
    BY <1>3
  <1>10. /\ Cardinality(Q) <= Cardinality(P)
         /\ s[i].type = type => Cardinality(Q) <= Cardinality(P) - 1
    BY <1>2, <1>7, <1>8, <1>9
  <1> QED  BY <1>10 DEF P, Q, w

LEMMA PlacesConcatenation ==
  ASSUME NEW s \in Seq(Packet), NEW u \in Seq(Packet), NEW type, NEW m \in Int,
         \A j \in 1 .. Len(u) : u[j].type = type => j = m
  PROVE  /\ Cardinality(Places(s \o u, type)) <= Cardinality(Places(s, type)) + 1
         /\ m = 0 => Cardinality(Places(s \o u, type)) <= Cardinality(Places(s, type))
  <1> DEFINE su == s \o u
             P  == Places(s, type)
             Q  == Places(su, type)
  <1>1. /\ su \in Seq(Packet) /\ Len(su) = Len(s) + Len(u)
        /\ \A j \in 1 .. Len(s) + Len(u) :
             su[j] = IF j <= Len(s) THEN s[j] ELSE u[j - Len(s)]
    BY ConcatenationProperties
  <1>2. IsFiniteSet(P) /\ Cardinality(P) \in Nat /\ IsFiniteSet(Q) /\ Cardinality(Q) \in Nat
    BY <1>1, PlacesFinite
  <1>3. P = {k \in 1 .. Len(s) : s[k].type = type}
        /\ Q = {k \in 1 .. Len(s) + Len(u) : su[k].type = type}
    BY <1>1 DEF Places
  <1>4. Len(s) \in Nat /\ Len(u) \in Nat
    OBVIOUS
  <1> HIDE DEF su, P, Q
  <1>5. \A k \in Q : k \in P \/ (k = Len(s) + m /\ m # 0)
    <2> TAKE k \in Q
    <2>1. CASE k <= Len(s)
      BY <1>1, <1>3, <1>4, <2>1
    <2>2. CASE ~ (k <= Len(s))
      <3>1. k - Len(s) \in 1 .. Len(u) /\ su[k] = u[k - Len(s)] /\ su[k].type = type
        BY <1>1, <1>3, <1>4, <2>2
      <3>2. k - Len(s) = m
        BY <3>1
      <3>3. k \in Int
        BY <1>3
      <3> QED  BY <1>4, <3>1, <3>2, <3>3
    <2> QED  BY <2>1, <2>2
  <1>6. Q \in SUBSET (P \cup {Len(s) + m}) /\ (m = 0 => Q \in SUBSET P)
    BY <1>5
  <1>7. IsFiniteSet(P \cup {Len(s) + m})
        /\ Cardinality(P \cup {Len(s) + m}) <= Cardinality(P) + 1
        /\ Cardinality(P \cup {Len(s) + m}) \in Nat
    <2>1. IsFiniteSet(P \cup {Len(s) + m})
          /\ Cardinality(P \cup {Len(s) + m})
               = IF Len(s) + m \in P THEN Cardinality(P) ELSE Cardinality(P) + 1
      BY <1>2, FS_AddElement
    <2> QED  BY <1>2, <2>1
  <1>8. Cardinality(Q) <= Cardinality(P \cup {Len(s) + m})
    BY <1>6, <1>7, FS_Subset
  <1>9. m = 0 => Cardinality(Q) <= Cardinality(P)
    BY <1>2, <1>6, FS_Subset
  <1> QED  BY <1>2, <1>7, <1>8, <1>9 DEF su, P, Q

\* What a delivery takes off the way.
LEMMA DeliverTakes ==
  ASSUME TypeOK, NEW r \in Roles, NEW i \in 1 .. Len(chan[r]),
         NEW keep \in BOOLEAN, NEW out \in Seq(Packet), Deliver(r, i, keep, out), NEW type
  PROVE  /\ Cardinality(Places(chan'[r], type)) <= Cardinality(Places(chan[r], type))
         /\ chan[r][i].type = type /\ ~ keep =>
              Cardinality(Places(chan'[r], type)) <= Cardinality(Places(chan[r], type)) - 1
  <1>1. /\ chan'[r] = IF keep THEN chan[r] ELSE Without(chan[r], i)
        /\ chan[r] \in Seq(Packet)
    BY Deliveries
  <1>2. Cardinality(Places(chan[r], type)) \in Nat
    BY <1>1, PlacesFinite
  <1>3. /\ Cardinality(Places(Without(chan[r], i), type)) <= Cardinality(Places(chan[r], type))
        /\ chan[r][i].type = type => Cardinality(Places(Without(chan[r], i), type))
                                       <= Cardinality(Places(chan[r], type)) - 1
    BY <1>1, PlacesWithout
  <1> QED  BY <1>1, <1>2, <1>3

LEMMA HandedOnPerFinNext ==
  ASSUME TypeOK, TypeOK', EarlyFinInv, HandedOnPerFin, [Next]_vars
  PROVE  HandedOnPerFin'
  <1> DEFINE fins == Cardinality(Places(chan["reader"], "FIN"))
             syns == Cardinality(Places(chan["writer"], "SYN"))
  <1>1. /\ chan["reader"] \in Seq(Packet) /\ chan["writer"] \in Seq(Packet)
        /\ Len(delivered) \in Nat /\ dups \in Nat
    BY NetworkAssumption DEF TypeOK, NetTypeOK, Roles
  <1>2. fins \in Nat /\ syns \in Nat
    BY <1>1, PlacesFinite
  <1>3. Len(delivered) + fins + syns <= dups + (IF reader.state = "null" THEN 0 ELSE 1)
    BY DEF HandedOnPerFin
  <1>4. SUFFICES Len(delivered') + fins' + syns'
                   <= dups' + (IF reader'.state = "null" THEN 0 ELSE 1)
    BY DEF HandedOnPerFin
  <1>5. Other("reader") = "writer" /\ Other("writer") = "reader"
        /\ "reader" \in Roles /\ "writer" \in Roles
    BY DEF Other, Roles
  <1>6. fins' \in Nat /\ syns' \in Nat /\ Len(delivered') \in Nat
    <2>1. /\ chan'["reader"] \in Seq(Packet) /\ chan'["writer"] \in Seq(Packet)
          /\ delivered' \in Seq(Seq(0..N))
      BY DEF TypeOK, NetTypeOK, Roles
    <2> QED  BY <2>1, PlacesFinite
  <1>7. CASE OpenReader
    <2>1. PICK p \in Packet : /\ reader.state = "null" /\ reader'.state = "SynSent"
                              /\ Send("reader", <<p>>) /\ delivered' = delivered
      BY <1>7, OpenReaderEffect
    <2>2. /\ chan'["reader"] = chan["reader"] /\ dups' = dups
          /\ chan'["writer"] = chan["writer"] \o <<p>>
      BY <1>5, <2>1 DEF Send, TypeOK, NetTypeOK
    <2>3. Cardinality(Places(chan["writer"] \o <<p>>, "SYN")) <= syns + 1
      <3> DEFINE u == <<p>>
                 m == 1
      <3>1. u \in Seq(Packet) /\ m \in Int /\ \A j \in 1 .. Len(u) : u[j].type = "SYN" => j = m
        OBVIOUS
      <3> HIDE DEF u, m
      <3>2. Cardinality(Places(chan["writer"] \o u, "SYN")) <= syns + 1
        BY <1>1, <3>1, PlacesConcatenation
      <3> QED  BY <3>2 DEF u
    <2>4. fins' = fins /\ syns' <= syns + 1
      BY <2>2, <2>3
    <2> HIDE DEF fins, syns
    <2> QED  BY <1>1, <1>2, <1>3, <1>6, <2>1, <2>2, <2>4
  <1>8. ASSUME NEW i \in 1 .. Len(chan["writer"]), NEW keep \in BOOLEAN, WriterSyn(i, keep)
        PROVE  Len(delivered') + fins' + syns'
                 <= dups' + (IF reader'.state = "null" THEN 0 ELSE 1)
    <2>1. PICK ack \in Socket, sk \in Socket :
            /\ chan["writer"][i].type = "SYN" /\ sk.seqNr = ack.seqNr + 1
            /\ Deliver("writer", i, keep, <<State(ack)>> \o Burst(sk))
            /\ UNCHANGED <<reader, delivered, thrown>>
      BY <1>8, WriterSynEffect
    <2> DEFINE out == <<State(ack)>> \o Burst(sk)
    <2>2. /\ out \in Seq(Packet) /\ Len(out) = N + 2
          /\ \A j \in 1 .. N + 2 :
               out[j].type = IF j = 1 THEN "STATE" ELSE IF j = N + 2 THEN "FIN" ELSE "DATA"
      BY <2>1, BurstInOrder
    <2>3. Deliver("writer", i, keep, out)
      BY <2>1
    <2> HIDE DEF out
    <2>4. fins' <= fins + 1
      <3> DEFINE m == N + 2
      <3>1. m \in Int /\ \A j \in 1 .. Len(out) : out[j].type = "FIN" => j = m
        BY <2>2, SocketAssumption
      <3> HIDE DEF m
      <3>2. chan'["reader"] = chan["reader"] \o out
        BY <2>2, <2>3, Deliveries DEF Roles, Other
      <3> QED  BY <1>1, <2>2, <3>1, <3>2, PlacesConcatenation
    <2>5. syns' <= syns /\ (~ keep => syns' <= syns - 1)
      BY <1>5, <2>1, <2>2, <2>3, DeliverTakes
    <2>6. dups' = IF keep THEN dups + 1 ELSE dups
      BY <2>3 DEF Deliver
    <2> HIDE DEF fins, syns
    <2> QED  BY <1>1, <1>2, <1>3, <1>6, <2>1, <2>4, <2>5, <2>6
  <1>9. ASSUME NEW i \in 1 .. Len(chan["writer"]), NEW keep \in BOOLEAN, WriterState(i, keep)
        PROVE  Len(delivered') + fins' + syns'
                 <= dups' + (IF reader'.state = "null" THEN 0 ELSE 1)
    <2>1. PICK out \in Seq(Packet) : out = <<>> /\ Deliver("writer", i, keep, out)
      BY <1>9, WriterStateEffect
    <2>2. chan'["reader"] = chan["reader"]
      <3>1. chan'["reader"] = chan["reader"] \o out
        BY <2>1, Deliveries DEF Roles, Other
      <3> QED  BY <1>1, <2>1, <3>1
    <2>3. fins' = fins /\ syns' <= syns
      BY <1>5, <2>1, <2>2, DeliverTakes
    <2>4. dups' >= dups /\ reader' = reader /\ delivered' = delivered /\ dups' \in Nat
      BY <1>1, <1>9, <2>1, WriterStateEffect DEF Deliver
    <2> HIDE DEF fins, syns
    <2> QED  BY <1>1, <1>2, <1>3, <1>6, <2>3, <2>4
  <1>10. ASSUME NEW i \in 1 .. Len(chan["reader"]), NEW keep \in BOOLEAN,
                ReaderHandles(i, keep)
         PROVE  Len(delivered') + fins' + syns'
                  <= dups' + (IF reader'.state = "null" THEN 0 ELSE 1)
    <2> DEFINE type == chan["reader"][i].type
    <2>0. PICK out \in Seq(Packet) : ReaderTakes(chan["reader"][i], i, keep, out)
      BY <1>10, ReaderEffect
    <2>1. /\ Deliver("reader", i, keep, out)
          /\ \A p \in Range(out) : p.type = "STATE" /\ p.ackNr = chan["reader"][i].seqNr
          /\ reader' \in Socket
          /\ reader'.state = IF chan["reader"][i].type = "STATE" THEN reader.state
                             ELSE IF chan["reader"][i].type = "DATA" THEN "Connected" ELSE "GotFin"
          /\ reader'.reading = IF chan["reader"][i].type = "FIN" THEN reader.reading ELSE TRUE
          /\ writer' = writer
          /\ chan["reader"][i].type \in {"STATE", "DATA", "FIN"}
          /\ delivered' \in Seq(Seq(0..N))
          /\ thrown' \subseteq {"sackLength", "noReader"}
          /\ "noReader" \in thrown' =>
               \/ "noReader" \in thrown
               \/ chan["reader"][i].type = "FIN" /\ ~ reader.reading
      BY <2>0 DEF ReaderTakes
    <2>2. \A j \in 1 .. Len(out) : out[j].type # "SYN" /\ out[j].type # "FIN"
      BY <2>1, InRange
    <2>3. /\ fins' <= fins /\ syns' <= syns
          /\ type = "FIN" /\ ~ keep => fins' <= fins - 1
      <3> DEFINE m == 0
      <3>1. m \in Int /\ m = 0 /\ \A j \in 1 .. Len(out) : out[j].type = "SYN" => j = m
        BY <2>2
      <3> HIDE DEF m
      <3>2. chan'["writer"] = chan["writer"] \o out
        BY <2>1, Deliveries DEF Roles, Other
      <3>3. syns' <= syns
        BY <1>1, <3>1, <3>2, PlacesConcatenation
      <3> QED  BY <1>5, <2>1, <3>3, DeliverTakes
    <2>4. reader.state # "null" /\ reader'.state # "null"
      <3>1. chan["reader"] # <<>>
        BY <1>1
      <3> QED  BY <1>5, <2>1, <3>1 DEF EarlyFinInv, NothingBeforeOpen
    <2>5. dups' = IF keep THEN dups + 1 ELSE dups
      BY <2>1 DEF Deliver
    <2>6. Len(delivered') <= IF type = "FIN" THEN Len(delivered) + 1 ELSE Len(delivered)
      <3>1. \/ delivered' = delivered
            \/ type = "FIN" /\ delivered' = Append(delivered, Compile(reader))
        BY <1>10, ReaderContent
      <3>2. delivered \in Seq(Seq(0..N)) /\ Compile(reader) \in Seq(0..N)
        BY CompileType DEF TypeOK
      <3> QED  BY <3>1, <3>2
    <2> HIDE DEF fins, syns, type
    <2> QED  BY <1>1, <1>2, <1>3, <1>6, <2>3, <2>4, <2>5, <2>6
  <1>11. CASE LoseStep
    <2>1. PICK r \in Roles : Lose(r)
      BY <1>11 DEF LoseStep
    <2>2. PICK i \in 1 .. Len(chan[r]) : chan' = [chan EXCEPT ![r] = Without(@, i)]
      BY <2>1 DEF Lose
    <2>3. fins' <= fins /\ syns' <= syns
      <3>1. \A q \in Roles : chan'[q] = IF q = r THEN Without(chan[q], i) ELSE chan[q]
        BY <2>2 DEF TypeOK, NetTypeOK
      <3>2. CASE r = "reader"
        BY <1>1, <1>2, <1>5, <2>2, <3>1, <3>2, PlacesWithout
      <3>3. CASE r = "writer"
        BY <1>1, <1>2, <1>5, <2>2, <3>1, <3>3, PlacesWithout
      <3> QED  BY <3>2, <3>3 DEF Roles
    <2>4. dups' = dups /\ reader' = reader /\ delivered' = delivered
      BY <1>11, <2>1 DEF Lose, LoseStep
    <2> HIDE DEF fins, syns
    <2> QED  BY <1>1, <1>2, <1>3, <1>6, <2>3, <2>4
  <1>12. CASE UNCHANGED vars
    BY <1>3, <1>12 DEF vars, net
  <1> QED
    BY <1>7, <1>8, <1>9, <1>10, <1>11, <1>12
       DEF Next, ReaderStep, WriterStep, ReaderHandles

----------------------------------------------------------------------------
(* Without a duplicate each chunk is in flight or held.  OnceInv is        *)
(* inductive on top of EarlyFinInv and OneBurstInv.                        *)

\* What the reader holds after it handled a packet.
LEMMA HeldAfter ==
  ASSUME TypeOK, EachChunkOnce, NEW i \in 1 .. Len(chan["reader"]),
         NEW keep \in BOOLEAN, ReaderHandles(i, keep)
  PROVE  LET p == chan["reader"][i]
             t == reader'.packets IN
         /\ p.type = "STATE" => t = <<>>
         /\ Held(reader') = IF p.type = "STATE" THEN {}
                            ELSE IF p.type = "DATA" THEN Held(reader) \cup {p.seqNr}
                            ELSE Held(reader)
         /\ \A k \in 1 .. Len(t) : t[k].payload = t[k].seqNr - First
         /\ \A j, k \in 1 .. Len(t) : j < k => t[j].seqNr < t[k].seqNr
  <1> DEFINE p   == chan["reader"][i]
             seg == [seqNr |-> p.seqNr, payload |-> p.payload]
             s   == reader.packets
             a   == AddPacket(s, seg)
             t   == reader'.packets
  <1>1. p \in Packet /\ p \in InFlight("reader") /\ s \in Seq(Segment) /\ seg \in Segment
    <2>1. p \in Packet /\ p \in InFlight("reader")
      BY ToReaderType, InRange DEF InFlight
    <2>2. s \in Seq(Segment)
      BY DEF TypeOK, Socket
    <2>3. p.seqNr \in Nat /\ p.payload \in 0..N
      BY <2>1 DEF Packet
    <2> QED  BY <2>1, <2>2, <2>3 DEF Segment
  <1>2. /\ \A k \in 1 .. Len(s) : s[k].payload = s[k].seqNr - First
        /\ \A j, k \in 1 .. Len(s) : j < k => s[j].seqNr < s[k].seqNr
        /\ p.type = "DATA" => p.payload = p.seqNr - First /\ p.seqNr \notin Held(reader)
    BY <1>1 DEF EachChunkOnce
  <1>3. Held(reader) = {s[k].seqNr : k \in 1 .. Len(s)}
        /\ (t \in Seq(Segment) => Held(reader') = {t[k].seqNr : k \in 1 .. Len(t)})
    BY <1>1 DEF Held
  <1>4. \/ p.type = "STATE" /\ t = <<>>
        \/ p.type = "DATA" /\ t = a
        \/ p.type = "FIN" /\ t = s
    BY ReaderContent
  <1>5. seg.seqNr = p.seqNr /\ seg.payload = p.payload
    OBVIOUS
  <1> HIDE DEF p, seg, s, t
  <1>6. CASE p.type = "STATE" /\ t = <<>>
    <2>1. t \in Seq(Segment) /\ Len(t) = 0
      BY <1>6
    <2> QED  BY <1>3, <1>6, <2>1 DEF p, t
  <1>7. CASE p.type = "DATA" /\ t = a
    <2>1. \A k \in 1 .. Len(s) : s[k].seqNr # seg.seqNr
      BY <1>2, <1>3, <1>5, <1>7
    <2>2. /\ \A j, k \in 1 .. Len(a) : j < k => a[j].seqNr < a[k].seqNr
          /\ \A k \in 1 .. Len(s) : \E j \in 1 .. Len(a) : a[j] = s[k]
          /\ \E j \in 1 .. Len(a) : a[j] = seg
      BY <1>1, <1>2, <2>1, AddPacketKeepsOrder
    <2>3. \A j \in 1 .. Len(a) : a[j] = seg \/ \E k \in 1 .. Len(s) : a[j] = s[k]
      BY <1>1, AddPacketOnly
    <2>4. a \in Seq(Segment)
      BY <1>1, AddPacketProperties
    <2> HIDE DEF a
    <2>5. {a[k].seqNr : k \in 1 .. Len(a)} = {s[k].seqNr : k \in 1 .. Len(s)} \cup {seg.seqNr}
      <3>1. \A j \in 1 .. Len(a) : \/ a[j].seqNr = seg.seqNr
                                   \/ \E k \in 1 .. Len(s) : a[j].seqNr = s[k].seqNr
        BY <2>3
      <3>2. \A k \in 1 .. Len(s) : \E j \in 1 .. Len(a) : a[j].seqNr = s[k].seqNr
        BY <2>2
      <3>3. \E j \in 1 .. Len(a) : a[j].seqNr = seg.seqNr
        BY <2>2
      <3>4. \A k \in 1 .. Len(s) : s[k].seqNr \in {a[j].seqNr : j \in 1 .. Len(a)}
        BY <3>2
      <3>5. seg.seqNr \in {a[j].seqNr : j \in 1 .. Len(a)}
        BY <3>3
      <3>6. \A j \in 1 .. Len(a) :
              a[j].seqNr \in {s[k].seqNr : k \in 1 .. Len(s)} \cup {seg.seqNr}
        BY <3>1
      <3> QED  BY <3>4, <3>5, <3>6
    <2>6. \A k \in 1 .. Len(a) : a[k].payload = a[k].seqNr - First
      BY <1>2, <1>5, <1>7, <2>3
    <2>7. Held(reader') = Held(reader) \cup {p.seqNr}
      BY <1>3, <1>5, <1>7, <2>4, <2>5
    <2> QED  BY <1>7, <2>2, <2>6, <2>7 DEF p, t
  <1>8. CASE p.type = "FIN" /\ t = s
    <2>1. Held(reader') = Held(reader)
      BY <1>1, <1>3, <1>8
    <2> QED  BY <1>2, <1>8, <2>1 DEF p, t, s
  <1> QED  BY <1>4, <1>6, <1>7, <1>8

\* The burst's numbers, once there is one.
LEMMA BurstFirst ==
  ASSUME TypeOK, writer.finNr # Undefined
  PROVE  /\ First \in Int /\ N \in Nat /\ writer.finNr = First + N + 1
         /\ (First + 1 .. First + N) = ((writer.finNr - N) .. (writer.finNr - 1))
  <1>1. writer.finNr \in Nat /\ N \in Nat
    BY SocketAssumption DEF TypeOK, Socket
  <1> QED  BY <1>1 DEF First

LEMMA OnceReader ==
  ASSUME TypeOK, EarlyFinInv, OneBurstInv, OnceInv, NEW i \in 1 .. Len(chan["reader"]),
         NEW keep \in BOOLEAN, ReaderHandles(i, keep), dups' = 0
  PROVE  /\ NoTwins' /\ EachChunkOnce'
         /\ overtaken' = 0 => SynAckFirst' /\ AcksAreHeld'
         /\ overtaken' = 0 /\ lost' = 0 => WholeBeforeFin'
  <1> DEFINE c == chan["reader"]
             w == Without(c, i)
             p == c[i]
             t == reader'.packets
  <1>0. PICK out \in Seq(Packet) : ReaderTakes(chan["reader"][i], i, keep, out)
    BY ReaderEffect
  <1>1. /\ Deliver("reader", i, keep, out)
        /\ \A q \in Range(out) : q.type = "STATE" /\ q.ackNr = chan["reader"][i].seqNr
        /\ reader' \in Socket
        /\ reader'.state = IF chan["reader"][i].type = "STATE" THEN reader.state
                           ELSE IF chan["reader"][i].type = "DATA" THEN "Connected" ELSE "GotFin"
        /\ reader'.reading = IF chan["reader"][i].type = "FIN" THEN reader.reading ELSE TRUE
        /\ writer' = writer
        /\ chan["reader"][i].type \in {"STATE", "DATA", "FIN"}
        /\ delivered' \in Seq(Seq(0..N))
        /\ thrown' \subseteq {"sackLength", "noReader"}
        /\ "noReader" \in thrown' =>
             \/ "noReader" \in thrown
             \/ chan["reader"][i].type = "FIN" /\ ~ reader.reading
    BY <1>0 DEF ReaderTakes
  <1>2. /\ c \in Seq(Packet) /\ p \in Packet /\ p \in InFlight("reader")
        /\ InFlight("reader")' \subseteq InFlight("reader")
        /\ InFlight("writer")' = InFlight("writer") \cup Range(out)
        /\ i \in 1 .. Len(c) /\ p.type \in {"STATE", "DATA", "FIN"}
        /\ \A q \in Range(out) : q.type = "STATE" /\ q.ackNr = p.seqNr
    BY <1>1, Deliveries DEF Roles, Other
  <1>3. dups = 0 /\ chan'["reader"] = w
    BY <1>1, DeliverOnce DEF Roles
  <1>4. /\ NoTwins /\ EachChunkOnce
        /\ overtaken = 0 => SynAckFirst /\ AcksAreHeld
        /\ overtaken = 0 /\ lost = 0 => WholeBeforeFin
    BY <1>3 DEF OnceInv
  <1>5. writer.finNr # Undefined
    BY <1>2, <1>3 DEF OneBurstInv, NoAckBeforeBurst
  <1>6. First' = First /\ First \in Int /\ N \in Nat /\ writer.finNr = First + N + 1
    BY <1>1, <1>5, BurstFirst DEF First
  <1>7. /\ w \in Seq(Packet) /\ Len(w) = Len(c) - 1 /\ Len(c) \in Nat
        /\ \A k \in 1 .. Len(c) - 1 : w[k] = c[IF k < i THEN k ELSE k + 1]
    <2> HIDE DEF c, p
    <2>1. /\ w \in Seq(Packet) /\ Len(w) = Len(c) - 1
          /\ \A k \in 1 .. Len(c) - 1 : w[k] = c[IF k < i THEN k ELSE k + 1]
      BY <1>2, WithoutProperties
    <2> QED  BY <1>2, <2>1
  <1>8. /\ \A j, k \in 1 .. Len(w) : w[j].seqNr = w[k].seqNr => j = k
        /\ \A q \in InFlight("reader")' : q.seqNr # p.seqNr
    <2>1. \A j, k \in 1 .. Len(c) : c[j].seqNr = c[k].seqNr => j = k
      BY <1>4 DEF NoTwins
    <2>2. /\ \A j, k \in 1 .. Len(w) : w[j].seqNr = w[k].seqNr => j = k
          /\ \A q \in Range(w) : q.seqNr # c[i].seqNr
      <3> HIDE DEF c
      <3> QED  BY <1>2, <2>1, WithoutDiffers
    <2> QED  BY <1>3, <2>2 DEF InFlight
  <1>9. /\ p.type = "STATE" => t = <<>>
        /\ Held(reader') = IF p.type = "STATE" THEN {}
                           ELSE IF p.type = "DATA" THEN Held(reader) \cup {p.seqNr}
                           ELSE Held(reader)
        /\ \A k \in 1 .. Len(t) : t[k].payload = t[k].seqNr - First
        /\ \A j, k \in 1 .. Len(t) : j < k => t[j].seqNr < t[k].seqNr
    BY <1>4, HeldAfter
  <1>10. /\ p.type = "STATE" => p.seqNr = First
         /\ p.type = "FIN" => p.seqNr = First + N + 1
    BY <1>2, <1>4, <1>6 DEF EachChunkOnce
  <1>11. i \in Nat \ {0}
         /\ lost' = lost /\ overtaken' = (IF i > 1 THEN overtaken + 1 ELSE overtaken)
         /\ overtaken \in Nat
    BY <1>1, <1>7, NetworkAssumption DEF Deliver, TypeOK, NetTypeOK
  <1> HIDE DEF w, p, t
  <1>12. NoTwins'
    BY <1>3, <1>8 DEF NoTwins
  <1>13. EachChunkOnce'
    <2>1. ASSUME NEW q \in InFlight("reader")'
          PROVE  /\ q.type = "STATE" => q.seqNr = First
                 /\ q.type = "DATA" => q.payload = q.seqNr - First /\ q.seqNr \notin Held(reader')
                 /\ q.type = "FIN" => q.seqNr = writer.finNr
      BY <1>2, <1>4, <1>8, <1>9 DEF EachChunkOnce
    <2> QED  BY <1>1, <1>5, <1>6, <1>9, <2>1 DEF EachChunkOnce, t
  <1>14. ASSUME overtaken' = 0 PROVE SynAckFirst' /\ AcksAreHeld'
    <2>1. overtaken = 0 /\ i = 1
      BY <1>11, <1>14
    <2>2. SynAckFirst /\ AcksAreHeld
      BY <1>4, <2>1
    <2>3. \A k \in 1 .. Len(w) : w[k].type # "STATE"
      <3> TAKE k \in 1 .. Len(w)
      <3>1. w[k] = c[k + 1] /\ k + 1 \in 1 .. Len(c) /\ k + 1 # 1
        BY <1>7, <2>1
      <3> HIDE DEF c
      <3> QED  BY <2>2, <3>1 DEF SynAckFirst, c
    <2>4. SynAckFirst'
      BY <1>3, <2>3 DEF SynAckFirst
    <2>5. CASE p.type = "STATE"
      <3>1. Range(writer.ackNrs) = {} /\ \A q \in InFlight("writer") : q.type # "STATE"
        BY <2>1, <2>2, <2>5 DEF SynAckFirst, p
      <3>2. \A q \in InFlight("writer")' :
              q.type = "STATE" => q.ackNr \notin First + 1 .. First + N
        BY <1>2, <1>6, <1>10, <2>5, <3>1
      <3> QED  BY <1>1, <1>6, <2>4, <3>1, <3>2 DEF AcksAreHeld
    <2>6. CASE p.type # "STATE"
      <3>1. Held(reader) \subseteq Held(reader')
        BY <1>9, <2>6
      <3>2. p.seqNr \in First + 1 .. First + N => p.seqNr \in Held(reader')
        BY <1>2, <1>6, <1>9, <1>10, <2>6
      <3>3. \A q \in InFlight("writer")' :
              q.type = "STATE" /\ q.ackNr \in First + 1 .. First + N => q.ackNr \in Held(reader')
        BY <1>2, <2>2, <3>1, <3>2 DEF AcksAreHeld
      <3>4. Range(writer.ackNrs) \cap (First + 1 .. First + N) \subseteq Held(reader')
        BY <2>2, <3>1 DEF AcksAreHeld
      <3> QED  BY <1>1, <1>6, <2>4, <3>3, <3>4 DEF AcksAreHeld
    <2> QED  BY <2>5, <2>6
  <1>15. ASSUME overtaken' = 0, lost' = 0 PROVE WholeBeforeFin'
    <2>1. overtaken = 0 /\ lost = 0 /\ i = 1
      BY <1>11, <1>15
    <2>2. SynAckFirst /\ WholeBeforeFin
      BY <1>4, <2>1
    <2>3. p = c[1] /\ 1 \in 1 .. Len(c)
      BY <2>1 DEF p
    <2>4. ASSUME NEW k \in 1 .. Len(w), w[k].type = "FIN", NEW nr \in First + 1 .. First + N
          PROVE  nr \in Held(reader') \/ \E j \in 1 .. k - 1 : w[j].seqNr = nr
      <3>1. w[k] = c[k + 1] /\ k + 1 \in 1 .. Len(c) /\ k \in Nat
        BY <1>7, <2>1
      <3> HIDE DEF c
      <3>2. nr \in Held(reader) \/ \E j \in 1 .. (k + 1) - 1 : c[j].seqNr = nr
        BY <2>2, <2>4, <3>1 DEF WholeBeforeFin, c
      <3>3. ASSUME NEW j \in 1 .. (k + 1) - 1, c[j].seqNr = nr, j # 1
            PROVE  \E l \in 1 .. k - 1 : w[l].seqNr = nr
        <4>1. j - 1 \in 1 .. k - 1 /\ j - 1 \in 1 .. Len(c) - 1 /\ ~ (j - 1 < i)
              /\ (j - 1) + 1 = j
          BY <1>7, <2>1, <3>1, <3>3
        <4>2. w[j - 1] = c[j]
          BY <1>7, <4>1
        <4> QED  BY <3>3, <4>1, <4>2
      <3>4. CASE p.type = "STATE"
        <4>1. reader.packets = <<>>
          BY <2>2, <2>3, <3>4 DEF SynAckFirst, c
        <4>2. Held(reader) = {}
          BY <4>1 DEF Held
        <4>3. c[1].seqNr # nr
          BY <1>6, <1>10, <2>3, <3>4
        <4> QED  BY <3>2, <3>3, <4>2, <4>3
      <3>5. CASE p.type = "DATA"
        <4>1. Held(reader') = Held(reader) \cup {c[1].seqNr}
          BY <1>9, <2>3, <3>5
        <4> QED  BY <3>2, <3>3, <4>1
      <3>6. CASE p.type = "FIN"
        <4>1. c[1].seqNr = First + N + 1
          BY <1>10, <2>3, <3>6
        <4>2. c[k + 1].seqNr = First + N + 1
          <5>1. c[k + 1] \in InFlight("reader")
            BY <1>2, <3>1, InRange DEF InFlight, c
          <5> QED  BY <1>4, <1>6, <2>4, <3>1, <5>1 DEF EachChunkOnce
        <4>3. k + 1 = 1
          BY <1>4, <2>3, <3>1, <4>1, <4>2 DEF NoTwins, c
        <4> QED  BY <3>1, <4>3
      <3> QED  BY <1>2, <3>4, <3>5, <3>6
    <2> QED  BY <1>3, <1>6, <2>4 DEF WholeBeforeFin
  <1> QED  BY <1>12, <1>13, <1>14, <1>15

LEMMA OnceWriterSyn ==
  ASSUME TypeOK, EarlyFinInv, OneBurstInv, OnceInv, NEW i \in 1 .. Len(chan["writer"]),
         NEW keep \in BOOLEAN, WriterSyn(i, keep), dups' = 0
  PROVE  NoTwins' /\ EachChunkOnce' /\ SynAckFirst' /\ AcksAreHeld' /\ WholeBeforeFin'
  <1>1. PICK ack \in Socket, sk \in Socket :
          /\ chan["writer"][i].type = "SYN"
          /\ ack.ackNr = chan["writer"][i].seqNr /\ sk.seqNr = ack.seqNr + 1
          /\ sk.ackNrs = writer.ackNrs
          /\ writer' = AfterBurst(sk)
          /\ Deliver("writer", i, keep, <<State(ack)>> \o Burst(sk))
          /\ UNCHANGED <<reader, delivered, thrown>>
    BY WriterSynEffect
  <1> DEFINE out == <<State(ack)>> \o Burst(sk)
             s   == reader.packets
  <1>2. /\ out \in Seq(Packet) /\ Len(out) = N + 2
        /\ \A j \in 1 .. N + 2 :
             /\ out[j].seqNr = ack.seqNr + j - 1
             /\ out[j].type = IF j = 1 THEN "STATE" ELSE IF j = N + 2 THEN "FIN" ELSE "DATA"
             /\ out[j].type = "DATA" => out[j].payload = j - 1
    BY <1>1, BurstInOrder
  <1>3. Deliver("writer", i, keep, out)
    BY <1>1
  <1> HIDE DEF out
  <1>4. /\ chan["writer"][i] \in InFlight("writer")
        /\ InFlight("writer")' \subseteq InFlight("writer")
        /\ chan'["reader"] = chan["reader"] \o out
        /\ chan["reader"] \in Seq(Packet)
    BY <1>2, <1>3, Deliveries DEF Roles, Other
  <1>5. dups = 0
    BY <1>2, <1>3, DeliverOnce DEF Roles
  <1>6. writer.finNr = Undefined
    BY <1>1, <1>4, <1>5 DEF OneBurstInv, OneSyn
  <1>7. /\ InFlight("reader") = {} /\ Range(writer.ackNrs) = {}
        /\ \A p \in InFlight("writer") : p.type # "STATE"
        /\ reader'.packets = <<>>
    BY <1>1, <1>5, <1>6 DEF OneBurstInv, NoAckBeforeBurst, OnceInv, EachChunkOnce
  <1>8. chan'["reader"] = out
    <2>1. chan["reader"] = <<>>
      <3>1. \A j \in 1 .. Len(chan["reader"]) : chan["reader"][j] \in InFlight("reader")
        BY <1>4, InRange DEF InFlight
      <3>2. Len(chan["reader"]) = 0
        BY <1>4, <1>7, <3>1
      <3> QED  BY <1>4, <3>2
    <2> QED  BY <1>2, <1>4, <2>1
  <1>9. /\ writer'.finNr = ack.seqNr + N + 1 /\ Range(writer'.ackNrs) = {}
        /\ First' = ack.seqNr /\ ack.seqNr \in Nat /\ N \in Nat
        /\ writer'.finNr # Undefined
    <2>1. writer'.finNr = sk.seqNr + N /\ writer'.ackNrs = sk.ackNrs
      BY <1>1, AfterBurstProperties
    <2>2. ack.seqNr \in Nat /\ N \in Nat
      BY SocketAssumption DEF Socket
    <2>3. writer'.finNr = ack.seqNr + N + 1 /\ writer'.ackNrs = writer.ackNrs
      BY <1>1, <2>1, <2>2
    <2>4. First' = writer'.finNr - N - 1
      BY DEF First
    <2>5. First' = ack.seqNr /\ writer'.finNr # Undefined
      BY <2>2, <2>3, <2>4 DEF Undefined
    <2> QED  BY <1>7, <2>2, <2>3, <2>5
  <1>10. Held(reader') = {}
    BY <1>7 DEF Held
  <1>11. NoTwins'
    BY <1>2, <1>8, <1>9 DEF NoTwins
  <1>12. EachChunkOnce'
    <2>1. ASSUME NEW q \in InFlight("reader")'
          PROVE  /\ q.type = "STATE" => q.seqNr = ack.seqNr
                 /\ q.type = "DATA" => q.payload = q.seqNr - ack.seqNr
                 /\ q.type = "FIN" => q.seqNr = ack.seqNr + N + 1
      <3>1. PICK j \in 1 .. N + 2 : q = out[j]
        BY <1>2, <1>8, InRange DEF InFlight
      <3>2. /\ out[j].seqNr = ack.seqNr + j - 1
            /\ out[j].type = IF j = 1 THEN "STATE" ELSE IF j = N + 2 THEN "FIN" ELSE "DATA"
            /\ out[j].type = "DATA" => out[j].payload = j - 1
        BY <1>2
      <3>3. CASE j = 1
        BY <1>9, <3>1, <3>2, <3>3
      <3>4. CASE j = N + 2
        BY <1>9, <3>1, <3>2, <3>4
      <3>5. CASE j # 1 /\ j # N + 2
        BY <1>9, <3>1, <3>2, <3>5
      <3> QED  BY <3>3, <3>4, <3>5
    <2>2. Len(reader'.packets) = 0
      BY <1>7
    <2> QED  BY <1>7, <1>9, <1>10, <2>1, <2>2 DEF EachChunkOnce
  <1>13. SynAckFirst'
    BY <1>2, <1>4, <1>7, <1>8, <1>9 DEF SynAckFirst
  <1>14. AcksAreHeld'
    BY <1>4, <1>7, <1>9 DEF AcksAreHeld
  <1>15. WholeBeforeFin'
    <2>1. ASSUME NEW k \in 1 .. Len(out), out[k].type = "FIN",
                 NEW nr \in ack.seqNr + 1 .. ack.seqNr + N
          PROVE  \E j \in 1 .. k - 1 : out[j].seqNr = nr
      <3>1. k = N + 2
        BY <1>2, <2>1
      <3>2. nr - ack.seqNr + 1 \in 1 .. k - 1 /\ nr - ack.seqNr + 1 \in 1 .. N + 2
        BY <1>9, <3>1
      <3>3. out[nr - ack.seqNr + 1].seqNr = ack.seqNr + (nr - ack.seqNr + 1) - 1
        BY <1>2, <3>2
      <3>4. ack.seqNr + (nr - ack.seqNr + 1) - 1 = nr
        BY <1>9
      <3> QED  BY <3>2, <3>3, <3>4
    <2> QED  BY <1>8, <1>9, <2>1 DEF WholeBeforeFin
  <1> QED  BY <1>11, <1>12, <1>13, <1>14, <1>15

LEMMA OnceWriterState ==
  ASSUME TypeOK, EarlyFinInv, OneBurstInv, OnceInv, NEW i \in 1 .. Len(chan["writer"]),
         NEW keep \in BOOLEAN, WriterState(i, keep), dups' = 0
  PROVE  /\ NoTwins' /\ EachChunkOnce'
         /\ overtaken' = 0 => SynAckFirst' /\ AcksAreHeld'
         /\ overtaken' = 0 /\ lost' = 0 => WholeBeforeFin'
  <1> DEFINE p == chan["writer"][i]
  <1>1. /\ p.type = "STATE"
        /\ writer'.finNr = writer.finNr
        /\ Range(writer'.ackNrs) \subseteq Range(writer.ackNrs) \cup {p.ackNr}
        /\ UNCHANGED <<reader, delivered, thrown>>
    BY WriterStateEffect
  <1>2. PICK out \in Seq(Packet) : out = <<>> /\ Deliver("writer", i, keep, out)
    BY WriterStateEffect
  <1>3. /\ p \in InFlight("writer") /\ InFlight("writer")' \subseteq InFlight("writer")
        /\ chan'["reader"] = chan["reader"] \o out
        /\ chan["reader"] \in Seq(Packet)
    BY <1>2, Deliveries DEF Roles, Other
  <1>4. chan'["reader"] = chan["reader"] /\ InFlight("reader")' = InFlight("reader")
    <2>1. chan'["reader"] = chan["reader"]
      BY <1>2, <1>3
    <2> QED  BY <2>1 DEF InFlight
  <1>5. dups = 0
    BY <1>2, DeliverOnce DEF Roles
  <1>6. /\ NoTwins /\ EachChunkOnce
        /\ overtaken = 0 => SynAckFirst /\ AcksAreHeld
        /\ overtaken = 0 /\ lost = 0 => WholeBeforeFin
    BY <1>5 DEF OnceInv
  <1>7. First' = First /\ Held(reader') = Held(reader)
    BY <1>1 DEF First
  <1>8. lost' = lost /\ (overtaken' = 0 => overtaken = 0)
    BY <1>2, NetworkAssumption DEF Deliver, TypeOK, NetTypeOK
  <1> HIDE DEF p
  <1>9. NoTwins'
    BY <1>4, <1>6 DEF NoTwins
  <1>10. EachChunkOnce'
    BY <1>1, <1>4, <1>6, <1>7 DEF EachChunkOnce
  <1>11. ASSUME overtaken' = 0 PROVE SynAckFirst' /\ AcksAreHeld'
    <2>1. SynAckFirst /\ AcksAreHeld
      BY <1>6, <1>8, <1>11
    <2>2. SynAckFirst'
      BY <1>1, <1>3, <1>4, <2>1 DEF SynAckFirst
    <2>3. AcksAreHeld'
      BY <1>1, <1>3, <1>7, <2>1 DEF AcksAreHeld
    <2> QED  BY <2>2, <2>3
  <1>12. ASSUME overtaken' = 0, lost' = 0 PROVE WholeBeforeFin'
    BY <1>4, <1>6, <1>7, <1>8, <1>12 DEF WholeBeforeFin
  <1> QED  BY <1>9, <1>10, <1>11, <1>12

LEMMA OnceOpenReader ==
  ASSUME TypeOK, EarlyFinInv, OneBurstInv, OpenReader
  PROVE  NoTwins' /\ EachChunkOnce' /\ SynAckFirst' /\ (dups' = 0 => AcksAreHeld') /\ WholeBeforeFin'
  <1>1. PICK p \in Packet :
           /\ p.type = "SYN" /\ p.seqNr = 1
           /\ reader.state = "null"
           /\ Send("reader", <<p>>)
           /\ UNCHANGED <<writer, delivered, thrown>>
    BY OpenReaderEffect
  <1>2. chan'["reader"] = <<>> /\ writer.finNr = Undefined /\ dups' = dups
    BY <1>1 DEF EarlyFinInv, NothingBeforeOpen, OneBurstInv, Roles, Send, Other, TypeOK, NetTypeOK
  <1>3. reader'.packets = <<>>
    BY DEF OpenReader, NewSocket
  <1>4. InFlight("reader")' = {} /\ Len(chan'["reader"]) = 0 /\ Len(reader'.packets) = 0
    BY <1>2, <1>3, RangeEmpty DEF InFlight
  <1>5. ASSUME dups' = 0 PROVE AcksAreHeld'
    <2>1. Range(writer.ackNrs) = {} /\ \A q \in InFlight("writer") : q.type # "STATE"
      BY <1>2, <1>5 DEF OneBurstInv, NoAckBeforeBurst
    <2>2. InFlight("writer")' = InFlight("writer") \cup {p}
      <3>1. <<p>> \in Seq(Packet) /\ Range(<<p>>) = {p}
        BY RangeSingle
      <3> QED  BY <1>1, <3>1, SendInFlight DEF TypeOK, Roles, Other
    <2> QED  BY <1>1, <2>1, <2>2 DEF AcksAreHeld
  <1> QED
    BY <1>3, <1>4, <1>5 DEF NoTwins, EachChunkOnce, SynAckFirst, WholeBeforeFin

LEMMA OnceLose ==
  ASSUME TypeOK, OnceInv, LoseStep PROVE OnceInv'
  <1>1. PICK r \in Roles : Lose(r)
    BY DEF LoseStep
  <1>2. PICK i \in 1 .. Len(chan[r]) : chan' = [chan EXCEPT ![r] = Without(@, i)]
    BY <1>1 DEF Lose
  <1>3. \A q \in Roles : InFlight(q)' \subseteq InFlight(q)
    BY <1>1, LoseInFlight DEF TypeOK
  <1>4. /\ dups' = dups /\ overtaken' = overtaken /\ lost' # 0
        /\ reader' = reader /\ writer' = writer
    BY <1>1, NetworkAssumption DEF Lose, LoseStep, TypeOK, NetTypeOK
  <1>5. First' = First /\ Held(reader') = Held(reader)
    BY <1>4 DEF First
  <1> DEFINE c == chan["reader"]
             d == chan'["reader"]
  <1>6. c \in Seq(Packet) /\ Len(c) \in Nat /\ "reader" \in Roles /\ "writer" \in Roles
    BY ToReaderType DEF Roles
  <1>7. d = c \/ (i \in 1 .. Len(c) /\ d = Without(c, i))
    BY <1>2, <1>6 DEF TypeOK, NetTypeOK
  <1>8. ASSUME dups = 0 PROVE NoTwins' /\ EachChunkOnce'
    <2>1. NoTwins /\ EachChunkOnce
      BY <1>8 DEF OnceInv
    <2>2. \A j, k \in 1 .. Len(c) : c[j].seqNr = c[k].seqNr => j = k
      BY <2>1 DEF NoTwins
    <2>3. \A j, k \in 1 .. Len(d) : d[j].seqNr = d[k].seqNr => j = k
      <3> HIDE DEF c, d
      <3> QED  BY <1>6, <1>7, <2>2, WithoutDiffers
    <2>4. NoTwins'
      BY <2>3 DEF NoTwins
    <2>5. EachChunkOnce'
      BY <1>3, <1>4, <1>5, <1>6, <2>1 DEF EachChunkOnce
    <2> QED  BY <2>4, <2>5
  <1>9. ASSUME dups = 0, overtaken = 0 PROVE SynAckFirst' /\ AcksAreHeld'
    <2>1. SynAckFirst /\ AcksAreHeld
      BY <1>9 DEF OnceInv
    <2>2. AcksAreHeld'
      BY <1>3, <1>4, <1>5, <1>6, <2>1 DEF AcksAreHeld
    <2>3. ASSUME NEW k \in 1 .. Len(d), d[k].type = "STATE"
          PROVE  k \in 1 .. Len(c) /\ c[k].type = "STATE" /\ k = 1
      <3>1. CASE d = c
        BY <2>1, <2>3, <3>1 DEF SynAckFirst
      <3>2. CASE i \in 1 .. Len(c) /\ d = Without(c, i)
        <4>1. /\ Len(d) = Len(c) - 1
              /\ \A j \in 1 .. Len(c) - 1 : d[j] = c[IF j < i THEN j ELSE j + 1]
          <5> HIDE DEF c, d
          <5> QED  BY <1>6, <3>2, WithoutProperties
        <4>2. CASE k < i
          BY <1>6, <2>1, <2>3, <3>2, <4>1, <4>2 DEF SynAckFirst
        <4>3. CASE ~ (k < i)
          <5>1. c[k + 1].type = "STATE" /\ k + 1 \in 1 .. Len(c) /\ k \in Nat
            BY <1>6, <2>3, <4>1, <4>3
          <5>2. k + 1 = 1
            BY <2>1, <5>1 DEF SynAckFirst
          <5> QED  BY <2>3, <5>1, <5>2
        <4> QED  BY <4>2, <4>3
      <3> QED  BY <1>7, <3>1, <3>2
    <2>4. SynAckFirst'
      BY <1>3, <1>4, <1>6, <2>1, <2>3 DEF SynAckFirst
    <2> QED  BY <2>2, <2>4
  <1> QED  BY <1>4, <1>8, <1>9 DEF OnceInv

LEMMA TransferInit == ASSUME Init PROVE TransferInv
  <1>1. /\ chan["reader"] = <<>> /\ chan["writer"] = <<>> /\ delivered = <<>> /\ dups = 0
        /\ reader.packets = <<>> /\ reader.state = "null"
    BY DEF Init, NetInit, Roles, NewSocket
  <1>2. writer.ackNrs = <<>> /\ writer.finNr = Undefined
    BY DEF Init, NewSocket
  <1>3. InFlight("reader") = {} /\ InFlight("writer") = {} /\ Range(writer.ackNrs) = {}
    BY <1>1, <1>2, RangeEmpty DEF InFlight
  <1>4. /\ Len(chan["reader"]) = 0 /\ Len(chan["writer"]) = 0
        /\ Len(delivered) = 0 /\ Len(reader.packets) = 0
    BY <1>1
  <1>5. \A type : Cardinality(Places(chan["reader"], type)) = 0
                  /\ Cardinality(Places(chan["writer"], type)) = 0
    BY <1>4, FS_EmptySet DEF Places
  <1>6. HandedOnPerFin
    BY <1>1, <1>4, <1>5 DEF HandedOnPerFin
  <1>7. OnlyChunks
    BY <1>3, <1>4 DEF OnlyChunks
  <1>8. OnceInv
    BY <1>1, <1>3, <1>4
       DEF OnceInv, NoTwins, EachChunkOnce, SynAckFirst, AcksAreHeld, WholeBeforeFin
  <1> QED  BY <1>6, <1>7, <1>8 DEF TransferInv

LEMMA OnceInvNext ==
  ASSUME TypeOK, EarlyFinInv, OneBurstInv, OnceInv, [Next]_vars PROVE OnceInv'
  <1>1. CASE OpenReader
    BY <1>1, OnceOpenReader DEF OnceInv
  <1>2. ASSUME NEW i \in 1 .. Len(chan["writer"]), NEW keep \in BOOLEAN, WriterSyn(i, keep)
        PROVE  OnceInv'
    BY <1>2, OnceWriterSyn DEF OnceInv
  <1>3. ASSUME NEW i \in 1 .. Len(chan["writer"]), NEW keep \in BOOLEAN, WriterState(i, keep)
        PROVE  OnceInv'
    BY <1>3, OnceWriterState DEF OnceInv
  <1>4. ASSUME NEW i \in 1 .. Len(chan["reader"]), NEW keep \in BOOLEAN,
               ReaderHandles(i, keep)
        PROVE  OnceInv'
    BY <1>4, OnceReader DEF OnceInv
  <1>5. CASE LoseStep
    BY <1>5, OnceLose
  <1>6. CASE UNCHANGED vars
    BY <1>6 DEF vars, net, InFlight, OnceInv, NoTwins, EachChunkOnce, SynAckFirst,
                AcksAreHeld, WholeBeforeFin, First, Held
  <1> QED
    BY <1>1, <1>2, <1>3, <1>4, <1>5, <1>6 DEF Next, ReaderStep, WriterStep, ReaderHandles

\* Three invariants in one: each SYN and each FIN on its way hands on at most one
\* more content; whatever is read is a chunk; and without a duplicate each chunk
\* of the burst is on its way or held, all of them if nothing was lost or overtaken.
THEOREM TransferInvariant == Spec => []TransferInv
  <1>1. Init => TransferInv
    BY TransferInit
  <1>2. /\ TypeOK /\ TypeOK' /\ EarlyFinInv /\ OneBurstInv /\ TransferInv /\ [Next]_vars
        => TransferInv'
    BY HandedOnPerFinNext, OnlyChunksNext, OnceInvNext DEF TransferInv
  <1> QED  BY <1>1, <1>2, TypeInvariant, EarlyFinInvariant, OneBurstInvariant, PTL DEF Spec

\* Unless a packet arrived twice, and unless one overtook the SYN-ACK, the reader
\* still holds every chunk the writer knows to be acknowledged.
THEOREM AckedIsHeldAlways == Spec => []AckedIsHeld
  <1>1. TypeOK /\ OneBurstInv /\ TransferInv => AckedIsHeld
    <2> SUFFICES ASSUME TypeOK, OneBurstInv, TransferInv, dups = 0, overtaken = 0
                 PROVE  Range(writer.ackNrs) \cap ((writer.finNr - N) .. (writer.finNr - 1))
                          \subseteq Held(reader)
      BY DEF AckedIsHeld
    <2>1. CASE writer.finNr = Undefined
      BY <2>1 DEF OneBurstInv, NoAckBeforeBurst
    <2>2. CASE writer.finNr # Undefined
      BY <2>2, BurstFirst DEF TransferInv, OnceInv, AcksAreHeld
    <2> QED  BY <2>1, <2>2
  <1> QED  BY <1>1, TypeInvariant, OneBurstInvariant, TransferInvariant, PTL

----------------------------------------------------------------------------
(* The stream implements ContentTransfer.                                  *)

\* A content handed on is one the promise allows.
LEMMA HandsOnAsPromised ==
  ASSUME TypeOK, EarlyFinInv, OneBurstInv, TransferInv, NEW i \in 1 .. Len(chan["reader"]),
         NEW keep \in BOOLEAN, ReaderFin(i, keep)
  PROVE  Transfer!HandOn(Compile(reader))
  <1> DEFINE p == chan["reader"][i]
             s == reader.packets
             d == Compile(reader)
  <1>1. /\ p \in Packet /\ p \in InFlight("reader") /\ chan["reader"] \in Seq(Packet)
        /\ s \in Seq(Segment) /\ Len(s) \in Nat
    BY ToReaderType, InRange DEF TypeOK, Socket, InFlight
  <1>2. p.type = "FIN" /\ delivered' = Append(delivered, d)
    BY DEF ReaderFin
  <1>3. /\ lost' = lost
        /\ dups \in Nat /\ dups' = IF keep THEN dups + 1 ELSE dups
        /\ overtaken \in Nat /\ overtaken' = IF i > 1 THEN overtaken + 1 ELSE overtaken
    BY DeliverCounts DEF ReaderFin
  <1>4. DOMAIN d = 1 .. Len(s) /\ \A k \in 1 .. Len(s) : d[k] = s[k].payload
    BY DEF Compile
  <1>5. \A k \in 1 .. Len(s) : s[k].payload \in 1..N
    BY DEF TransferInv, OnlyChunks, Chunks
  <1> HIDE DEF p, d
  <1>6. Len(delivered) <= dups'
    <2> DEFINE fins == Places(chan["reader"], "FIN")
               syns == Places(chan["writer"], "SYN")
    <2>1. IsFiniteSet(fins) /\ Cardinality(fins) \in Nat /\ Cardinality(syns) \in Nat
      BY PlacesFinite DEF TypeOK, NetTypeOK, Roles
    <2>2. i \in fins
      BY <1>2 DEF Places, p
    <2>3. Cardinality(fins) # 0
      BY <2>1, <2>2, FS_EmptySet
    <2>4. Len(delivered) + Cardinality(fins) + Cardinality(syns)
            <= dups + (IF reader.state = "null" THEN 0 ELSE 1)
      BY DEF TransferInv, HandedOnPerFin
    <2>5. Len(delivered) \in Nat
      BY DEF TypeOK
    <2> HIDE DEF fins, syns
    <2> QED  BY <1>3, <2>1, <2>3, <2>4, <2>5
  <1>7. \A k \in DOMAIN d : d[k] \in 1..N
    <2> HIDE DEF s
    <2> QED  BY <1>4, <1>5
  <1>8. ASSUME dups' = 0
        PROVE  /\ NoTwins /\ EachChunkOnce
               /\ overtaken' = 0 /\ lost' = 0 => WholeBeforeFin /\ i = 1
               /\ First \in Int /\ N \in Nat
               /\ \A k \in 1 .. Len(s) : d[k] = s[k].seqNr - First
    <2>1. dups = 0 /\ (overtaken' = 0 => overtaken = 0 /\ i = 1)
      BY <1>1, <1>3, <1>8
    <2>2. writer.finNr # Undefined
      BY <1>1, <2>1 DEF OneBurstInv, NoAckBeforeBurst
    <2>3. First \in Int /\ N \in Nat
      BY <2>2, BurstFirst
    <2>4. NoTwins /\ EachChunkOnce /\ (overtaken = 0 /\ lost = 0 => WholeBeforeFin)
      BY <2>1 DEF TransferInv, OnceInv
    <2>5. \A k \in 1 .. Len(s) : s[k].payload = s[k].seqNr - First
      BY <2>4 DEF EachChunkOnce
    <2> HIDE DEF s
    <2> QED  BY <1>3, <1>4, <2>1, <2>3, <2>4, <2>5
  <1>9. \A k \in 1 .. Len(s) : s[k].seqNr \in Nat
    <2> HIDE DEF s
    <2>1. \A k \in 1 .. Len(s) : s[k] \in Segment
      BY <1>1
    <2> QED  BY <2>1 DEF Segment
  <1>10. ASSUME dups' = 0 PROVE Transfer!Ordered(d)
    <2>1. \A j, k \in 1 .. Len(s) : j < k => s[j].seqNr < s[k].seqNr
      BY <1>8, <1>10 DEF EachChunkOnce
    <2>2. First \in Int /\ \A k \in 1 .. Len(s) : d[k] = s[k].seqNr - First
      BY <1>8, <1>10
    <2> HIDE DEF s
    <2>3. \A j, k \in 1 .. Len(s) : j < k => d[j] < d[k]
      BY <1>9, <2>1, <2>2
    <2> QED  BY <1>4, <2>3 DEF Transfer!Ordered
  <1>11. ASSUME lost' = 0, dups' = 0, overtaken' = 0 PROVE Transfer!Covers(d)
    <2>1. /\ WholeBeforeFin /\ i = 1 /\ First \in Int /\ N \in Nat
          /\ \A k \in 1 .. Len(s) : d[k] = s[k].seqNr - First
      BY <1>8, <1>11
    <2>2. \A nr \in First + 1 .. First + N : nr \in Held(reader)
      <3>1. chan["reader"][1].type = "FIN" /\ 1 \in 1 .. Len(chan["reader"]) /\ 1 .. 1 - 1 = {}
        BY <1>1, <1>2, <2>1 DEF p
      <3> QED  BY <2>1, <3>1 DEF WholeBeforeFin
    <2>3. Held(reader) = {s[k].seqNr : k \in 1 .. Len(s)}
      BY <1>1 DEF Held
    <2> HIDE DEF s
    <2>4. ASSUME NEW c \in 1 .. N PROVE \E k \in DOMAIN d : d[k] = c
      <3>1. First + c \in Held(reader) /\ (First + c) - First = c
        BY <2>1, <2>2
      <3>2. PICK k \in 1 .. Len(s) : s[k].seqNr = First + c
        BY <2>3, <3>1
      <3> QED  BY <1>4, <2>1, <3>1, <3>2
    <2> QED  BY <2>4 DEF Transfer!Covers
  <1> QED  BY <1>2, <1>6, <1>7, <1>10, <1>11 DEF Transfer!HandOn, d

\* The network disturbs the stream within the bounds of the promise.
LEMMA DisturbsAsPromised ==
  ASSUME TypeOK, Next
  PROVE  Transfer!Disturb
  <1>1. lost \in 0..MaxLost /\ dups \in 0..MaxDups /\ overtaken \in 0..MaxOvertaken
        /\ MaxLost \in Nat /\ MaxDups \in Nat /\ MaxOvertaken \in Nat
    BY NetworkAssumption DEF TypeOK, NetTypeOK
  <1>2. ASSUME NEW r, NEW out, NEW i \in Nat, NEW keep \in BOOLEAN, Deliver(r, i, keep, out)
        PROVE  Transfer!Disturb
    BY <1>1, <1>2 DEF Deliver, Transfer!Disturb
  <1>3. CASE OpenReader
    BY <1>1, <1>3 DEF OpenReader, Send, Transfer!Disturb
  <1>4. CASE ReaderStep
    <2>1. PICK i \in 1 .. Len(chan["reader"]), keep \in BOOLEAN :
            \/ ReaderSynAck(i, keep) \/ ReaderData(i, keep)
            \/ ReaderFin(i, keep) \/ ReaderFinThrows(i, keep)
      BY <1>4 DEF ReaderStep
    <2>2. \E out : Deliver("reader", i, keep, out)
      BY <2>1 DEF ReaderSynAck, ReaderData, ReaderFin, ReaderFinThrows
    <2> QED  BY <1>2, <2>2
  <1>5. CASE WriterStep
    <2>1. PICK i \in 1 .. Len(chan["writer"]), keep \in BOOLEAN :
            WriterSyn(i, keep) \/ WriterState(i, keep)
      BY <1>5 DEF WriterStep
    <2>2. \E out : Deliver("writer", i, keep, out)
      BY <2>1 DEF WriterSyn, WriterState
    <2> QED  BY <1>2, <2>2
  <1>6. CASE LoseStep
    <2>1. PICK r \in Roles : Lose(r)
      BY <1>6 DEF LoseStep
    <2> QED  BY <1>1, <2>1 DEF Lose, Transfer!Disturb
  <1> QED  BY <1>3, <1>4, <1>5, <1>6 DEF Next

\* The stream implements ContentTransfer: whatever the network does, and however
\* many SYNs, DATA and FINs it doubles, each content handed on is one the promise
\* allows.
THEOREM TransferImplemented == Spec => TransferSpec
  <1>1. Init => Transfer!Init
    BY DEF Init, NetInit, Transfer!Init
  <1>2. TypeOK /\ EarlyFinInv /\ OneBurstInv /\ TransferInv /\ [Next]_vars
        => [Transfer!Next]_(Transfer!vars)
    <2> SUFFICES ASSUME TypeOK, EarlyFinInv, OneBurstInv, TransferInv, Next
                 PROVE  Transfer!Next
      BY DEF vars, net, Transfer!vars
    <2>1. Transfer!Disturb
      BY DisturbsAsPromised
    <2>2. ASSUME NEW i \in 1 .. Len(chan["reader"]), NEW keep \in BOOLEAN,
                 ReaderFin(i, keep)
          PROVE  Transfer!Next
      <3>1. Transfer!HandOn(Compile(reader))
        BY <2>2, HandsOnAsPromised
      <3>2. delivered' = Append(delivered, Compile(reader))
        BY <2>2 DEF ReaderFin
      <3>3. delivered \in Seq(Seq(0..N)) /\ Compile(reader) \in Seq(0..N)
        BY CompileType DEF TypeOK
      <3>4. Len(delivered') = Len(delivered) + 1
            /\ delivered'[Len(delivered')] = Compile(reader)
        BY <3>2, <3>3
      <3> QED  BY <2>1, <3>1, <3>4 DEF Transfer!Next
    <2>3. ASSUME UNCHANGED delivered PROVE Transfer!Next
      BY <2>1, <2>3 DEF Transfer!Next
    <2>4. CASE OpenReader
      BY <2>3, <2>4 DEF OpenReader
    <2>5. CASE ReaderStep
      BY <2>2, <2>3, <2>5 DEF ReaderStep, ReaderSynAck, ReaderData, ReaderFinThrows
    <2>6. CASE WriterStep
      BY <2>3, <2>6 DEF WriterStep, WriterSyn, WriterState
    <2>7. CASE LoseStep
      BY <2>3, <2>7 DEF LoseStep
    <2> QED  BY <2>4, <2>5, <2>6, <2>7 DEF Next
  <1> QED  BY <1>1, <1>2, TypeInvariant, EarlyFinInvariant, OneBurstInvariant,
              TransferInvariant, PTL
           DEF Spec, TransferSpec, Transfer!Spec

=============================================================================
