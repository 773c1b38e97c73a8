--------------------------- MODULE UtpOfferProofs ---------------------------
(***************************************************************************)
(* Proofs about the OFFER stream, for every length of the content, every   *)
(* random number and every number of losses, duplicates and overtakings.   *)
(***************************************************************************)
EXTENDS UtpOffer, UtpNetworkProofs

----------------------------------------------------------------------------
(* Type correctness.                                                       *)

\* Every field of the two sockets and every packet in flight stays within
\* its type, whatever the handlers of the OFFER stream do.
THEOREM TypeInvariant == Spec => []TypeOK
  <1>1. Init => TypeOK
    <2> SUFFICES ASSUME Init PROVE TypeOK
      OBVIOUS
    <2>1. PICK nr \in RandNrs : reader = NewSocket("null", nr, 0, 1)
      BY DEF Init
    <2>2. nr \in Nat
      BY SocketAssumption
    <2>3. reader \in Socket /\ writer \in Socket
      <3>1. "null" \in States /\ 0 \in Int /\ 1 \in Nat
            /\ 1 \in Nat \cup {Undefined} /\ Undefined \in Nat \cup {Undefined}
        BY DEF States
      <3> QED  BY <2>1, <2>2, <3>1, NewSocketType DEF Init
    <2>4. NetTypeOK
      BY NetworkAssumption DEF Init, NetInit, NetTypeOK
    <2> QED  BY <2>3, <2>4 DEF Init, TypeOK
  <1>2. TypeOK /\ [Next]_vars => TypeOK'
    <2> SUFFICES ASSUME TypeOK, [Next]_vars PROVE TypeOK'
      OBVIOUS
    <2> USE DEF TypeOK
    <2>1. CASE OpenWriter
      <3>1. PICK nr \in RandNrs :
              LET sk == AttachWriter(NewSocket("SynSent", 1, nr, Undefined), 2) IN
              /\ writer' = sk
              /\ Send("writer", <<Syn(sk)>>)
        BY <2>1 DEF OpenWriter
      <3> DEFINE sk == AttachWriter(NewSocket("SynSent", 1, nr, Undefined), 2)
      <3>2. nr \in Nat
        BY SocketAssumption
      <3>3. NewSocket("SynSent", 1, nr, Undefined) \in Socket
        <4>1. "SynSent" \in States /\ nr \in Int /\ 1 \in Nat
              /\ Undefined \in Nat \cup {Undefined}
          BY <3>2 DEF States
        <4> QED  BY <4>1, NewSocketType
      <3>4. sk \in Socket
        BY <3>3, AttachWriterType
      <3>5. <<Syn(sk)>> \in Seq(Packet)
        <4> HIDE DEF sk
        <4>1. sk.ackNr \in Int /\ 1 \in Nat /\ 0 \in 0..N
          BY <3>4, SocketAssumption DEF Socket
        <4>2. Syn(sk) \in Packet
          BY <4>1, PacketType DEF Syn
        <4> QED  BY <4>2
      <3>6. NetTypeOK'
        BY <3>1, <3>5, SendType DEF Roles
      <3> QED  BY <2>1, <3>1, <3>4, <3>6 DEF OpenWriter
    <2>2. ASSUME NEW i \in 1 .. Len(chan["reader"]), NEW keep \in BOOLEAN,
                 ReaderSyn(i, keep)
          PROVE  TypeOK'
      <3> DEFINE p  == chan["reader"][i]
                 sk == AttachReader([reader EXCEPT !.ackNr = p.seqNr, !.nextSeq = 2])
      <3>1. p \in Packet
        BY DEF NetTypeOK, Roles
      <3>2. sk \in Socket
        <4>1. p.seqNr \in Int /\ 2 \in Nat \cup {Undefined}
          BY <3>1 DEF Packet
        <4>2. [reader EXCEPT !.ackNr = p.seqNr, !.nextSeq = 2] \in Socket
          BY <4>1 DEF Socket
        <4> QED  BY <4>2, AttachReaderType
      <3>3. reader' \in Socket
        <4> HIDE DEF sk
        <4>1. sk.ackNr + 1 \in Int
          BY <3>2 DEF Socket
        <4>2. [sk EXCEPT !.ackNr = @ + 1] \in Socket
          BY <3>2, <4>1 DEF Socket
        <4> QED  BY <2>2, <4>2 DEF ReaderSyn, sk
      <3>4. NetTypeOK'
        BY <2>2, <3>2, StateType, DeliverType DEF ReaderSyn, Roles
      <3> QED  BY <2>2, <3>3, <3>4 DEF ReaderSyn
    <2>3. ASSUME NEW i \in 1 .. Len(chan["reader"]), NEW keep \in BOOLEAN,
                 ReaderData(i, keep)
          PROVE  TypeOK'
      <3> DEFINE p == chan["reader"][i]
      <3>1. p \in Packet
        BY DEF NetTypeOK, Roles
      <3>2. TakeData(reader, p) \in Socket
        BY <3>1, TakeDataType
      <3>3. DataAck(reader, p) \in Seq(Packet)
        BY <3>2, StateType DEF DataAck
      <3>4. NetTypeOK'
        BY <2>3, <3>3, DeliverType DEF ReaderData, Roles
      <3>5. thrown' \subseteq {"sackLength", "ackNrRange"}
        BY <2>3 DEF ReaderData
      <3> QED  BY <2>3, <3>2, <3>4, <3>5 DEF ReaderData
    <2>4. ASSUME NEW i \in 1 .. Len(chan["reader"]), NEW keep \in BOOLEAN,
                 ReaderFin(i, keep)
          PROVE  TypeOK'
      <3> DEFINE p == chan["reader"][i]
      <3>1. p \in Packet
        BY DEF NetTypeOK, Roles
      <3>2. TakeFin(reader, p) \in Socket
        <4>1. p.seqNr \in Int /\ reader.seqNr + 1 \in Nat /\ "GotFin" \in States
          BY <3>1 DEF Packet, Socket, States
        <4> QED  BY <4>1 DEF TakeFin, Socket
      <3>3. NetTypeOK'
        BY <2>4, <3>2, StateType, DeliverType DEF ReaderFin, Roles
      <3>4. Compile(reader) \in Seq(0..N)
        BY CompileType
      <3>5. delivered' \in Seq(Seq(0..N))
        BY <2>4, <3>4 DEF ReaderFin
      <3> QED  BY <2>4, <3>2, <3>3, <3>5 DEF ReaderFin
    <2>5. ASSUME NEW i \in 1 .. Len(chan["writer"]), NEW keep \in BOOLEAN,
                 WriterSynAck(i, keep)
          PROVE  TypeOK'
      <3> DEFINE p  == chan["writer"][i]
                 sk == [writer EXCEPT !.state = "Connected", !.seqNr = 2,
                                      !.ackNr = p.seqNr - 1, !.nextSeq = p.seqNr + 1]
      <3>1. p \in Packet
        BY DEF NetTypeOK, Roles
      <3>2. sk \in Socket
        <4>1. p.seqNr - 1 \in Int /\ p.seqNr + 1 \in Nat \cup {Undefined}
              /\ 2 \in Nat /\ "Connected" \in States
          BY <3>1 DEF Packet, States
        <4> QED  BY <4>1, UpdateType
      <3>3. AfterBurst(sk) \in Socket
        <4> HIDE DEF sk
        <4>1. sk.seqNr \in Nat
          BY <3>2 DEF Socket
        <4>2. sk.seqNr + N \in Nat /\ sk.seqNr + N \in Nat \cup {Undefined}
          BY <4>1, SocketAssumption
        <4>3. "Connected" \in States
          BY DEF States
        <4> QED  BY <3>2, <4>2, <4>3 DEF AfterBurst, Socket
      <3>4. Burst(sk) \in Seq(Packet)
        BY <3>2, BurstProperties
      <3>5. writer' \in Socket
        BY <2>5, <3>2, <3>3 DEF WriterSynAck
      <3>6. NetTypeOK'
        <4> HIDE DEF sk
        <4> DEFINE out == IF sk.ackNr >= 0 THEN Burst(sk) ELSE <<>>
        <4>1. out \in Seq(Packet)
          BY <3>4, EmptyType
        <4>2. Deliver("writer", i, keep, out)
          BY <2>5 DEF WriterSynAck, sk
        <4> QED  BY <4>1, <4>2, DeliverType DEF Roles
      <3>7. thrown' \subseteq {"sackLength", "ackNrRange"}
        BY <2>5 DEF WriterSynAck
      <3> QED  BY <2>5, <3>5, <3>6, <3>7 DEF WriterSynAck
    <2>6. ASSUME NEW i \in 1 .. Len(chan["writer"]), NEW keep \in BOOLEAN,
                 WriterFinAck(i, keep)
          PROVE  TypeOK'
      <3>1. NetTypeOK'
        BY <2>6, EmptyType, DeliverType DEF WriterFinAck, Roles
      <3> QED  BY <2>6, <3>1 DEF WriterFinAck
    <2>7. ASSUME NEW i \in 1 .. Len(chan["writer"]), NEW keep \in BOOLEAN,
                 WriterDataAck(i, keep)
          PROVE  TypeOK'
      <3> DEFINE p  == chan["writer"][i]
                 sk == [writer EXCEPT !.state = "Connected", !.nextSeq = p.seqNr + 1]
      <3>1. p \in Packet
        BY DEF NetTypeOK, Roles
      <3>2. sk \in Socket
        <4>1. p.seqNr + 1 \in Nat \cup {Undefined} /\ "Connected" \in States
          BY <3>1 DEF Packet, States
        <4> QED  BY <4>1 DEF Socket
      <3>3. NoteAck(sk, p.ackNr) \in Socket
        <4> HIDE DEF sk
        <4>1. p.ackNr \in Int
          BY <3>1 DEF Packet
        <4> QED  BY <3>2, <4>1, NoteAckType
      <3>4. NetTypeOK'
        BY <2>7, EmptyType, DeliverType DEF WriterDataAck, Roles
      <3> QED  BY <2>7, <3>2, <3>3, <3>4 DEF WriterDataAck
    <2>8. CASE LoseStep
      BY <2>8, LoseType, Zenon DEF LoseStep
    <2>9. CASE UNCHANGED vars
      BY <2>9 DEF vars, net, NetTypeOK
    <2> QED
      BY <2>1, <2>2, <2>3, <2>4, <2>5, <2>6, <2>7, <2>8, <2>9
         DEF Next, ReaderStep, WriterStep
  <1> QED  BY <1>1, <1>2, PTL DEF Spec

----------------------------------------------------------------------------
(* The acknowledgements.  AckInv is inductive on top of TypeOK.            *)

LEMMA ReaderDelivery ==
  ASSUME TypeOK, NEW i \in 1 .. Len(chan["reader"]), NEW keep \in BOOLEAN,
         NEW out \in Seq(Packet), Deliver("reader", i, keep, out)
  PROVE  /\ chan["reader"][i] \in InFlight("reader")
         /\ InFlight("reader")' \subseteq InFlight("reader")
         /\ InFlight("writer")' = InFlight("writer") \cup Range(out)
  BY DeliverInFlight DEF TypeOK, Roles, Other

LEMMA WriterDelivery ==
  ASSUME TypeOK, NEW i \in 1 .. Len(chan["writer"]), NEW keep \in BOOLEAN,
         NEW out \in Seq(Packet), Deliver("writer", i, keep, out)
  PROVE  /\ chan["writer"][i] \in InFlight("writer")
         /\ InFlight("writer")' \subseteq InFlight("writer")
         /\ InFlight("reader")' = InFlight("reader") \cup Range(out)
  BY DeliverInFlight DEF TypeOK, Roles, Other

LEMMA AckInvInit == ASSUME Init PROVE AckInv
  <1>1. PICK nr \in RandNrs : reader = NewSocket("null", nr, 0, 1)
    BY DEF Init
  <1>2. reader.ackNrs = <<>> /\ writer.ackNrs = <<>>
    BY <1>1 DEF Init, NewSocket
  <1>3. writer.state = "null" /\ writer.seqNr = 1 /\ writer.dataNrs = {}
        /\ writer.finNr = Undefined
    BY DEF Init, NewSocket
  <1>4. InFlight("reader") = {} /\ InFlight("writer") = {}
    BY RangeEmpty DEF Init, NetInit, Roles, InFlight
  <1>5. 1 # N + 2
    BY SocketAssumption
  <1> QED
    BY <1>2, <1>3, <1>4, <1>5, RangeEmpty DEF AckInv, WriterPhase, ToReader, ToWriter, AckNrs

LEMMA AckInvOpenWriter ==
  ASSUME TypeOK, AckInv, OpenWriter PROVE AckInv'
  <1>1. PICK nr \in RandNrs :
          LET sk == AttachWriter(NewSocket("SynSent", 1, nr, Undefined), 2) IN
          /\ writer.state = "null"
          /\ writer' = sk
          /\ Send("writer", <<Syn(sk)>>)
          /\ UNCHANGED <<reader, delivered, thrown>>
    BY DEF OpenWriter
  <1> DEFINE sk == AttachWriter(NewSocket("SynSent", 1, nr, Undefined), 2)
  <1>2. /\ sk.state = "SynSent" /\ sk.seqNr = 1 /\ sk.ackNrs = <<>>
        /\ sk.dataNrs = 2 .. N + 1 /\ sk.finNr = Undefined /\ sk.ackNr = nr
    BY SocketAssumption DEF AttachWriter, NewSocket
  <1> HIDE DEF sk
  <1>3. Syn(sk) \in Packet /\ <<Syn(sk)>> \in Seq(Packet)
    <2>1. nr \in Int /\ 0 \in 0..N
      BY SocketAssumption
    <2>2. Syn(sk) \in Packet
      BY <1>2, <2>1, PacketType DEF Syn
    <2> QED  BY <2>2
  <1>4. InFlight("writer")' = InFlight("writer")
        /\ InFlight("reader")' = InFlight("reader") \cup {Syn(sk)}
    BY <1>1, <1>3, SendInFlight, RangeSingle DEF TypeOK, Roles, Other, sk
  <1>5. InFlight("writer") = {} /\ InFlight("reader") = {} /\ Range(reader.ackNrs) = {}
    BY <1>1, SocketAssumption DEF AckInv, WriterPhase, AckNrs
  <1>6. Syn(sk).type = "SYN" /\ Syn(sk).seqNr = 1
    BY DEF Syn, MakePacket
  <1>7. writer' = sk /\ reader' = reader
    BY <1>1 DEF sk
  <1> QED
    BY <1>2, <1>4, <1>5, <1>6, <1>7, RangeEmpty, SocketAssumption
       DEF AckInv, WriterPhase, ToReader, ToWriter, AckNrs

LEMMA AckInvReaderSyn ==
  ASSUME TypeOK, AckInv, NEW i \in 1 .. Len(chan["reader"]), NEW keep \in BOOLEAN,
         ReaderSyn(i, keep)
  PROVE  AckInv'
  <1> DEFINE p  == chan["reader"][i]
             sk == AttachReader([reader EXCEPT !.ackNr = p.seqNr, !.nextSeq = 2])
  <1>1. p \in Packet /\ reader \in Socket
    BY DEF TypeOK, NetTypeOK, Roles
  <1>2. sk \in Socket
    <2>1. [reader EXCEPT !.ackNr = p.seqNr, !.nextSeq = 2] \in Socket
      <3>1. p.seqNr \in Int /\ 2 \in Nat \cup {Undefined}
        BY <1>1 DEF Packet
      <3> QED  BY <1>1, <3>1 DEF Socket
    <2> QED  BY <2>1, AttachReaderType
  <1>3. sk.ackNr = p.seqNr /\ sk.reading = TRUE /\ sk.ackNrs = reader.ackNrs
    BY <1>1 DEF AttachReader, Socket
  <1>4. reader'.reading = TRUE /\ reader'.ackNrs = reader.ackNrs
    <2> HIDE DEF sk
    <2>1. reader' = [sk EXCEPT !.ackNr = @ + 1]
      BY DEF ReaderSyn, sk
    <2> QED  BY <1>2, <1>3, <2>1 DEF Socket
  <1>5. /\ p \in InFlight("reader")
        /\ InFlight("reader")' \subseteq InFlight("reader")
        /\ InFlight("writer")' = InFlight("writer") \cup {State(sk)}
    BY <1>2, StateType, ReaderDelivery, RangeSingle DEF ReaderSyn
  <1>6. p.seqNr = 1
    BY <1>5 DEF ReaderSyn, AckInv, ToReader
  <1>7. State(sk).type = "STATE" /\ State(sk).ackNr = 1
    BY <1>3, <1>6 DEF State, MakePacket
  <1>8. writer' = writer /\ delivered' = delivered
    BY DEF ReaderSyn
  <1> HIDE DEF p, sk
  <1> QED
    BY <1>4, <1>5, <1>7, <1>8 DEF AckInv, WriterPhase, ToReader, ToWriter, AckNrs

LEMMA AckInvReaderData ==
  ASSUME TypeOK, AckInv, NEW i \in 1 .. Len(chan["reader"]), NEW keep \in BOOLEAN,
         ReaderData(i, keep)
  PROVE  AckInv'
  <1> DEFINE p   == chan["reader"][i]
             out == DataAck(reader, p)
  <1>1. p \in Packet /\ reader \in Socket
    BY DEF TypeOK, NetTypeOK, Roles
  <1>2. reader' = TakeData(reader, p) /\ reader' \in Socket
    BY <1>1, TakeDataType DEF ReaderData
  <1>3. reader'.reading = TRUE /\ reader'.ackNr = p.seqNr
        /\ reader'.ackNrs = Append(reader.ackNrs, p.seqNr)
    BY <1>1, <1>2 DEF TakeData, Socket
  <1>4. Range(reader'.ackNrs) = Range(reader.ackNrs) \cup {p.seqNr}
    <2>1. reader.ackNrs \in Seq(Int) /\ p.seqNr \in Int
      BY <1>1 DEF Socket, Packet
    <2> QED  BY <1>3, <2>1, RangeAppend
  <1>5. out \in Seq(Packet) /\ Range(out) \subseteq {State(reader')}
    BY <1>2, StateType, RangeSingle, RangeEmpty DEF DataAck
  <1>6. /\ p \in InFlight("reader")
        /\ InFlight("reader")' \subseteq InFlight("reader")
        /\ InFlight("writer")' \subseteq InFlight("writer") \cup {State(reader')}
    BY <1>5, ReaderDelivery DEF ReaderData
  <1>7. p.seqNr \in 2 .. N + 1 /\ writer.seqNr = N + 2
    BY <1>6 DEF ReaderData, AckInv, ToReader
  <1>8. State(reader').type = "STATE" /\ State(reader').ackNr = p.seqNr
    BY <1>3 DEF State, MakePacket
  <1>9. writer' = writer /\ delivered' = delivered
    BY DEF ReaderData
  <1> HIDE DEF p, out
  <1>10. WriterPhase' /\ ToReader'
    BY <1>6, <1>9 DEF AckInv, WriterPhase, ToReader
  <1>11. ToWriter'
    BY <1>3, <1>4, <1>6, <1>8, <1>9 DEF AckInv, ToWriter
  <1>12. AckNrs'
    BY <1>3, <1>4, <1>7, <1>9 DEF AckInv, AckNrs
  <1> QED  BY <1>10, <1>11, <1>12 DEF AckInv

LEMMA AckInvReaderFin ==
  ASSUME TypeOK, AckInv, NEW i \in 1 .. Len(chan["reader"]), NEW keep \in BOOLEAN,
         ReaderFin(i, keep)
  PROVE  AckInv'
  <1> DEFINE p == chan["reader"][i]
  <1>1. p \in Packet /\ reader \in Socket
    BY DEF TypeOK, NetTypeOK, Roles
  <1>2. reader' = TakeFin(reader, p) /\ reader' \in Socket
    <2>1. p.seqNr \in Int /\ reader.seqNr + 1 \in Nat /\ "GotFin" \in States
      BY <1>1 DEF Packet, Socket, States
    <2>2. TakeFin(reader, p) \in Socket
      BY <1>1, <2>1 DEF TakeFin, Socket
    <2> QED  BY <2>2 DEF ReaderFin
  <1>3. reader'.reading = reader.reading /\ reader'.ackNr = p.seqNr
        /\ reader'.ackNrs = reader.ackNrs
    BY <1>1, <1>2 DEF TakeFin, Socket
  <1>4. /\ p \in InFlight("reader")
        /\ InFlight("reader")' \subseteq InFlight("reader")
        /\ InFlight("writer")' = InFlight("writer") \cup {State(reader')}
    BY <1>2, StateType, ReaderDelivery, RangeSingle DEF ReaderFin
  <1>5. p.seqNr = N + 2 /\ writer.seqNr = N + 2
    BY <1>4 DEF ReaderFin, AckInv, ToReader
  <1>6. reader.reading
    <2>1. N + 2 # 1
      BY SocketAssumption
    <2> QED  BY <1>5, <2>1 DEF AckInv, AckNrs
  <1>7. State(reader').type = "STATE" /\ State(reader').ackNr = p.seqNr
    BY <1>3 DEF State, MakePacket
  <1>8. writer' = writer /\ delivered' # <<>>
    <2>1. delivered' = Append(delivered, Compile(reader)) /\ writer' = writer
      BY DEF ReaderFin
    <2>2. delivered \in Seq(Seq(0..N)) /\ Compile(reader) \in Seq(0..N)
      BY <1>1, CompileType DEF TypeOK
    <2> QED  BY <2>1, <2>2
  <1> HIDE DEF p
  <1>9. WriterPhase' /\ ToReader'
    BY <1>4, <1>8 DEF AckInv, WriterPhase, ToReader
  <1>10. ToWriter'
    BY <1>3, <1>4, <1>5, <1>6, <1>7, <1>8 DEF AckInv, ToWriter
  <1>11. AckNrs'
    BY <1>3, <1>8 DEF AckInv, AckNrs
  <1> QED  BY <1>9, <1>10, <1>11 DEF AckInv

LEMMA AckInvWriterSynAck ==
  ASSUME TypeOK, AckInv, NEW i \in 1 .. Len(chan["writer"]), NEW keep \in BOOLEAN,
         WriterSynAck(i, keep)
  PROVE  AckInv'
  <1> DEFINE p   == chan["writer"][i]
             sk  == [writer EXCEPT !.state = "Connected", !.seqNr = 2,
                                   !.ackNr = p.seqNr - 1, !.nextSeq = p.seqNr + 1]
             out == IF sk.ackNr >= 0 THEN Burst(sk) ELSE <<>>
  <1>1. p \in Packet /\ writer \in Socket
    BY DEF TypeOK, NetTypeOK, Roles
  <1>2. sk \in Socket
    <2>1. p.seqNr - 1 \in Int /\ p.seqNr + 1 \in Nat \cup {Undefined}
          /\ 2 \in Nat /\ "Connected" \in States
      BY <1>1 DEF Packet, States
    <2> QED  BY <1>1, <2>1, UpdateType
  <1>3. /\ sk.state = "Connected" /\ sk.seqNr = 2
        /\ sk.finNr = writer.finNr /\ sk.dataNrs = writer.dataNrs
        /\ sk.ackNrs = writer.ackNrs
    BY <1>1 DEF Socket
  <1>4. /\ writer.seqNr = 1
        /\ writer' = IF sk.ackNr >= 0 THEN AfterBurst(sk) ELSE sk
        /\ Deliver("writer", i, keep, out)
        /\ reader' = reader /\ delivered' = delivered
    BY DEF WriterSynAck
  <1> HIDE DEF sk
  <1>5. /\ writer'.state = "Connected"
        /\ writer'.dataNrs = writer.dataNrs /\ writer'.ackNrs = writer.ackNrs
        /\ \/ sk.ackNr >= 0 /\ writer'.seqNr = N + 2 /\ writer'.finNr = N + 2
           \/ ~ (sk.ackNr >= 0) /\ writer'.seqNr = 2 /\ writer'.finNr = writer.finNr
    <2>1. 2 + N = N + 2
      BY SocketAssumption
    <2> QED  BY <1>2, <1>3, <1>4, <2>1 DEF AfterBurst, Socket
  <1>6. out \in Seq(Packet)
    BY <1>2, BurstProperties, EmptyType
  <1>7. /\ p \in InFlight("writer")
        /\ InFlight("writer")' \subseteq InFlight("writer")
        /\ InFlight("reader")' = InFlight("reader") \cup Range(out)
    BY <1>4, <1>6, WriterDelivery
  <1>8. /\ reader.reading
        /\ writer.state # "null"
        /\ writer.finNr = Undefined
        /\ Range(reader.ackNrs) = {}
    <2>1. 1 # N + 2
      BY SocketAssumption
    <2> QED  BY <1>4, <1>7, <2>1 DEF AckInv, WriterPhase, ToWriter, AckNrs
  <1>9. ASSUME NEW q \in Range(out)
        PROVE  /\ sk.ackNr >= 0
               /\ \/ q.type = "DATA" /\ q.seqNr \in 2 .. N + 1
                  \/ q.type = "FIN" /\ q.seqNr = N + 2
    <2>1. sk.ackNr >= 0 /\ q \in Range(Burst(sk))
      BY <1>9, RangeEmpty
    <2>2. PICK j \in 1 .. N + 1 : q = Burst(sk)[j]
      BY <1>2, <2>1, BurstProperties, InRange
    <2>3. CASE j \in 1..N
      <3>1. q = MakePacket("DATA", 2 + j - 1, sk.ackNr, j)
        BY <1>2, <1>3, <2>2, <2>3, BurstProperties
      <3>2. 2 + j - 1 \in 2 .. N + 1
        BY <2>3, SocketAssumption
      <3> QED  BY <2>1, <3>1, <3>2 DEF MakePacket
    <2>4. CASE j = N + 1
      <3>1. q = MakePacket("FIN", 2 + N, sk.ackNr, 0) /\ 2 + N = N + 2
        BY <1>2, <1>3, <2>2, <2>4, BurstProperties, SocketAssumption
      <3> QED  BY <2>1, <3>1 DEF MakePacket
    <2> QED  BY <2>2, <2>3, <2>4, SocketAssumption
  <1> HIDE DEF p, out
  <1>10. WriterPhase'
    <2>1. 2 # N + 2
      BY SocketAssumption
    <2> QED  BY <1>5, <1>8, <2>1 DEF AckInv, WriterPhase
  <1>11. ToReader'
    <2>1. 1 # N + 2
      BY SocketAssumption
    <2> QED  BY <1>4, <1>5, <1>7, <1>9, <2>1 DEF AckInv, ToReader
  <1>12. ToWriter'
    BY <1>4, <1>7 DEF AckInv, ToWriter
  <1>13. AckNrs'
    BY <1>4, <1>5, <1>8 DEF AckInv, AckNrs
  <1> QED  BY <1>10, <1>11, <1>12, <1>13 DEF AckInv

LEMMA AckInvWriterDataAck ==
  ASSUME TypeOK, AckInv, NEW i \in 1 .. Len(chan["writer"]), NEW keep \in BOOLEAN,
         WriterDataAck(i, keep)
  PROVE  AckInv'
  <1> DEFINE p  == chan["writer"][i]
             sk == [writer EXCEPT !.state = "Connected", !.nextSeq = p.seqNr + 1]
  <1>1. p \in Packet /\ writer \in Socket
    BY DEF TypeOK, NetTypeOK, Roles
  <1>2. /\ sk.state = "Connected" /\ sk.seqNr = writer.seqNr /\ sk.finNr = writer.finNr
        /\ sk.dataNrs = writer.dataNrs /\ sk.ackNrs = writer.ackNrs
        /\ DOMAIN sk = DOMAIN writer
    BY <1>1 DEF Socket
  <1>3. /\ writer.seqNr # 1
        /\ p.ackNr # writer.finNr
        /\ writer' = IF p.ackNr > 1 THEN NoteAck(sk, p.ackNr) ELSE sk
        /\ Deliver("writer", i, keep, <<>>)
        /\ reader' = reader /\ delivered' = delivered
    BY DEF WriterDataAck
  <1>4. /\ p \in InFlight("writer")
        /\ InFlight("writer")' \subseteq InFlight("writer")
        /\ InFlight("reader")' = InFlight("reader")
    BY <1>3, EmptyType, WriterDelivery, RangeEmpty
  <1>5. p.ackNr > 1 => p.ackNr \in Range(reader.ackNrs)
    BY <1>3, <1>4 DEF AckInv, WriterPhase, ToWriter
  <1>6. /\ writer'.state = "Connected" /\ writer'.seqNr = writer.seqNr
        /\ writer'.finNr = writer.finNr /\ writer'.dataNrs = writer.dataNrs
        /\ Range(writer'.ackNrs) \subseteq Range(reader.ackNrs)
    <2>1. Range(writer.ackNrs) \subseteq Range(reader.ackNrs)
      BY DEF AckInv, AckNrs
    <2>2. sk \in Socket
      <3>1. p.seqNr + 1 \in Nat \cup {Undefined} /\ "Connected" \in States
        BY <1>1 DEF Packet, States
      <3> QED  BY <1>1, <3>1 DEF Socket
    <2> HIDE DEF sk
    <2>3. CASE p.ackNr > 1 /\ p.ackNr \notin Range(sk.ackNrs)
      <3>1. writer' = [sk EXCEPT !.ackNrs = Append(@, p.ackNr)]
        BY <1>3, <2>3 DEF NoteAck
      <3>2. Range(Append(sk.ackNrs, p.ackNr)) = Range(sk.ackNrs) \cup {p.ackNr}
        BY <1>1, <2>2, RangeAppend DEF Socket, Packet
      <3> QED  BY <1>2, <1>5, <2>1, <2>2, <2>3, <3>1, <3>2 DEF Socket
    <2>4. CASE ~ (p.ackNr > 1 /\ p.ackNr \notin Range(sk.ackNrs))
      <3>1. writer' = IF p.ackNr > 1 THEN [sk EXCEPT !.ackNrs = @] ELSE sk
        BY <1>3, <2>4 DEF NoteAck
      <3> QED  BY <1>2, <2>1, <2>2, <3>1 DEF Socket
    <2> QED  BY <2>3, <2>4
  <1>7. writer.state # "null"
    BY <1>3 DEF AckInv, WriterPhase
  <1> HIDE DEF p, sk
  <1>8. WriterPhase'
    BY <1>6, <1>7 DEF AckInv, WriterPhase
  <1>9. ToReader' /\ ToWriter'
    BY <1>3, <1>4, <1>6 DEF AckInv, ToReader, ToWriter
  <1>10. AckNrs'
    BY <1>3, <1>6 DEF AckInv, AckNrs
  <1> QED  BY <1>8, <1>9, <1>10 DEF AckInv

LEMMA AckInvWriterFinAck ==
  ASSUME TypeOK, AckInv, NEW i \in 1 .. Len(chan["writer"]), NEW keep \in BOOLEAN,
         WriterFinAck(i, keep)
  PROVE  AckInv'
  <1>1. /\ InFlight("writer")' \subseteq InFlight("writer")
        /\ InFlight("reader")' = InFlight("reader")
    BY EmptyType, WriterDelivery, RangeEmpty DEF WriterFinAck
  <1>2. writer' = writer /\ reader' = reader /\ delivered' = delivered
    BY DEF WriterFinAck
  <1> QED
    BY <1>1, <1>2 DEF AckInv, WriterPhase, ToReader, ToWriter, AckNrs

LEMMA AckInvLoseStep ==
  ASSUME TypeOK, AckInv, LoseStep PROVE AckInv'
  <1>1. \A q \in Roles : InFlight(q)' \subseteq InFlight(q)
    BY LoseInFlight DEF LoseStep, TypeOK
  <1>2. /\ InFlight("writer")' \subseteq InFlight("writer")
        /\ InFlight("reader")' \subseteq InFlight("reader")
    BY <1>1 DEF Roles
  <1>3. writer' = writer /\ reader' = reader /\ delivered' = delivered
    BY DEF LoseStep
  <1> QED
    BY <1>2, <1>3 DEF AckInv, WriterPhase, ToReader, ToWriter, AckNrs

\* The inductive invariant of the acknowledgements holds throughout.
THEOREM AckInvariant == Spec => []AckInv
  <1>1. Init => AckInv
    BY AckInvInit
  <1>2. TypeOK /\ AckInv /\ [Next]_vars => AckInv'
    <2> SUFFICES ASSUME TypeOK, AckInv, [Next]_vars PROVE AckInv'
      OBVIOUS
    <2>1. CASE OpenWriter
      BY <2>1, AckInvOpenWriter
    <2>2. CASE ReaderStep
      BY <2>2, AckInvReaderSyn, AckInvReaderData, AckInvReaderFin DEF ReaderStep
    <2>3. CASE WriterStep
      BY <2>3, AckInvWriterSynAck, AckInvWriterFinAck, AckInvWriterDataAck DEF WriterStep
    <2>4. CASE LoseStep
      BY <2>4, AckInvLoseStep
    <2>5. CASE UNCHANGED vars
      BY <2>5 DEF vars, net, AckInv, WriterPhase, ToReader, ToWriter, AckNrs, InFlight
    <2> QED  BY <2>1, <2>2, <2>3, <2>4, <2>5 DEF Next
  <1> QED  BY <1>1, <1>2, TypeInvariant, PTL DEF Spec

\* No packet is ever in flight that its receiver throws at for what it is.
THEOREM HandlersAcceptAlways == Spec => []HandlersAccept
  <1>1. AckInv => HandlersAccept
    <2>1. N + 2 # 1
      BY SocketAssumption
    <2> QED  BY <2>1 DEF AckInv, ToReader, ToWriter, AckNrs, HandlersAccept
  <1> QED  BY <1>1, AckInvariant, PTL

\* What the writer counts as acknowledged is DATA that the reader received.
THEOREM AckedIsReceivedAlways == Spec => []AckedIsReceived
  <1>1. AckInv => AckedIsReceived
    <2> SUFFICES ASSUME AckInv PROVE AckedIsReceived
      OBVIOUS
    <2>1. CASE writer.state = "null"
      <3>1. 1 # N + 2
        BY SocketAssumption
      <3> QED  BY <2>1, <3>1 DEF AckInv, WriterPhase, AckNrs, AckedIsReceived
    <2>2. CASE writer.state # "null"
      BY <2>2 DEF AckInv, WriterPhase, AckNrs, AckedIsReceived
    <2> QED  BY <2>1, <2>2
  <1> QED  BY <1>1, AckInvariant, PTL

\* An acknowledgement of the FIN means that a content was handed on.
THEOREM FinAckMeansDeliveredAlways == Spec => []FinAckMeansDelivered
  <1>1. AckInv => FinAckMeansDelivered
    <2> SUFFICES ASSUME AckInv, NEW p \in InFlight("writer"), p.ackNr = writer.finNr
                 PROVE  delivered # <<>>
      BY DEF FinAckMeansDelivered
    <2>1. p.ackNr = 1 \/ p.ackNr \in 2 .. N + 1 \/ delivered # <<>>
      BY DEF AckInv, ToWriter, AckNrs
    <2>2. writer.finNr \notin 1 .. N + 1
      BY SocketAssumption DEF AckInv, WriterPhase, Undefined
    <2>3. 1 \in 1 .. N + 1 /\ 2 .. N + 1 \subseteq 1 .. N + 1
      BY SocketAssumption
    <2> QED  BY <2>1, <2>2, <2>3
  <1> QED  BY <1>1, AckInvariant, PTL
----------------------------------------------------------------------------
(* The content.  TransferInv is inductive on top of TypeOK and AckInv.     *)

LEMMA ToReaderType == ASSUME TypeOK PROVE chan["reader"] \in Seq(Packet)
  BY DEF TypeOK, NetTypeOK, Roles

\* What is left of the packets to the reader when the i-th was taken.
LEMMA TakenOut ==
  ASSUME TypeOK, NoTwins, NEW i \in 1 .. Len(chan["reader"]), NEW keep \in BOOLEAN,
         chan'["reader"] = IF keep THEN chan["reader"] ELSE Without(chan["reader"], i)
  PROVE  /\ NoTwins'
         /\ keep => chan'["reader"] = chan["reader"]
         /\ ~ keep =>
              /\ Len(chan'["reader"]) = Len(chan["reader"]) - 1
              /\ \A k \in 1 .. Len(chan["reader"]) - 1 :
                   chan'["reader"][k] = chan["reader"][IF k < i THEN k ELSE k + 1]
              /\ \A q \in InFlight("reader")' : q.seqNr # chan["reader"][i].seqNr
  <1> DEFINE s == chan["reader"]
             t == chan'["reader"]
             n == Len(s)
  <1>1. s \in Seq(Packet)
    BY ToReaderType
  <1>2. n \in Nat /\ i \in 1 .. n
    BY <1>1
  <1>3. \A j, k \in 1 .. n : s[j].seqNr = s[k].seqNr => j = k
    BY DEF NoTwins
  <1>4. CASE keep
    BY <1>4 DEF NoTwins
  <1>5. CASE ~ keep
    <2>1. /\ t \in Seq(Packet) /\ Len(t) = n - 1
          /\ \A k \in 1 .. n - 1 : t[k] = s[IF k < i THEN k ELSE k + 1]
      <3>1. t = Without(s, i)
        BY <1>5
      <3> QED  BY <1>1, <3>1, WithoutProperties
    <2> HIDE DEF s, t, n
    <2>2. \A k \in 1 .. n - 1 : t[k].seqNr # s[i].seqNr
      <3> TAKE k \in 1 .. n - 1
      <3>1. (IF k < i THEN k ELSE k + 1) \in 1 .. n /\ (IF k < i THEN k ELSE k + 1) # i
        BY <1>2
      <3> QED  BY <1>2, <1>3, <2>1, <3>1
    <2>3. \A q \in Range(t) : q.seqNr # s[i].seqNr
      BY <2>1, <2>2, InRange
    <2>4. \A j, k \in 1 .. n - 1 : t[j].seqNr = t[k].seqNr => j = k
      <3> TAKE j, k \in 1 .. n - 1
      <3> DEFINE g(m) == IF m < i THEN m ELSE m + 1
      <3>1. g(j) \in 1 .. n /\ g(k) \in 1 .. n /\ (g(j) = g(k) => j = k)
        BY <1>2
      <3>2. t[j] = s[g(j)] /\ t[k] = s[g(k)]
        BY <2>1
      <3> HIDE DEF g
      <3> QED  BY <1>3, <3>1, <3>2
    <2> QED  BY <1>5, <2>1, <2>3, <2>4 DEF NoTwins, InFlight, s, t, n
  <1> QED  BY <1>4, <1>5

\* The same of a delivery, with what it counts.
LEMMA ReaderTakes ==
  ASSUME TypeOK, NoTwins, NEW i \in 1 .. Len(chan["reader"]), NEW keep \in BOOLEAN,
         NEW out \in Seq(Packet), Deliver("reader", i, keep, out)
  PROVE  /\ chan'["reader"] = IF keep THEN chan["reader"] ELSE Without(chan["reader"], i)
         /\ lost' = lost
         /\ dups \in Nat /\ dups' = IF keep THEN dups + 1 ELSE dups
         /\ overtaken \in Nat /\ overtaken' = IF i > 1 THEN overtaken + 1 ELSE overtaken
  BY NetworkAssumption DEF Deliver, TypeOK, NetTypeOK, Roles, Other

LEMMA WriterTakes ==
  ASSUME TypeOK, NEW i \in 1 .. Len(chan["writer"]), NEW keep \in BOOLEAN,
         NEW out \in Seq(Packet), Deliver("writer", i, keep, out)
  PROVE  /\ chan'["reader"] = chan["reader"] \o out
         /\ lost' = lost
         /\ dups \in Nat /\ dups' = IF keep THEN dups + 1 ELSE dups
         /\ overtaken \in Nat /\ overtaken' = IF i > 1 THEN overtaken + 1 ELSE overtaken
  BY NetworkAssumption DEF Deliver, TypeOK, NetTypeOK, Roles, Other

LEMMA TransferInvInit == ASSUME Init PROVE TransferInv
  <1>1. PICK nr \in RandNrs : reader = NewSocket("null", nr, 0, 1)
    BY DEF Init
  <1>2. reader.packets = <<>> /\ delivered = <<>> /\ dups = 0
    BY <1>1 DEF Init, NetInit, NewSocket
  <1>3. chan["reader"] = <<>> /\ InFlight("reader") = {}
    BY RangeEmpty DEF Init, NetInit, Roles, InFlight
  <1> QED
    BY <1>2, <1>3
       DEF TransferInv, NoTwins, ChunksMatch, HandedOnPerFin, EachChunkOnce, WholeBeforeFin

LEMMA TransferInvOpenWriter ==
  ASSUME TypeOK, AckInv, TransferInv, OpenWriter PROVE TransferInv'
  <1>1. PICK nr \in RandNrs :
          LET sk == AttachWriter(NewSocket("SynSent", 1, nr, Undefined), 2) IN
          /\ writer.state = "null"
          /\ writer' = sk
          /\ Send("writer", <<Syn(sk)>>)
          /\ UNCHANGED <<reader, delivered, thrown>>
    BY DEF OpenWriter
  <1> DEFINE sk == AttachWriter(NewSocket("SynSent", 1, nr, Undefined), 2)
  <1>2. writer'.seqNr = 1 /\ writer.seqNr = 1 /\ 1 # N + 2
    BY <1>1, SocketAssumption DEF AttachWriter, NewSocket, AckInv, WriterPhase
  <1> HIDE DEF sk
  <1>3. reader.packets = <<>> /\ delivered = <<>> /\ Held(reader) = {}
    BY <1>2 DEF TransferInv, ChunksMatch, Held
  <1>4. chan["reader"] = <<>> /\ InFlight("writer") = {}
    <2>1. InFlight("reader") = {} /\ InFlight("writer") = {}
      BY <1>1 DEF AckInv, WriterPhase
    <2>2. CASE Len(chan["reader"]) > 0
      <3>1. chan["reader"][1] \in Range(chan["reader"])
        BY <2>2, ToReaderType, InRange
      <3> QED  BY <2>1, <3>1 DEF InFlight
    <2>3. CASE Len(chan["reader"]) = 0
      BY <2>1, <2>3, ToReaderType
    <2> QED  BY <2>2, <2>3, ToReaderType
  <1>5. /\ chan'["reader"] = <<Syn(sk)>> /\ InFlight("writer")' = {}
        /\ dups' = dups /\ dups \in Nat
    <2>1. chan' = [chan EXCEPT !["reader"] = <<>> \o <<Syn(sk)>>] /\ dups' = dups
      BY <1>1, <1>4 DEF Send, Other, sk
    <2>2. chan \in [Roles -> Seq(Packet)] /\ dups \in Nat
      BY NetworkAssumption DEF TypeOK, NetTypeOK
    <2>3. chan'["reader"] = <<Syn(sk)>> /\ chan'["writer"] = chan["writer"]
      BY <2>1, <2>2 DEF Roles
    <2> QED  BY <1>4, <2>1, <2>2, <2>3 DEF InFlight
  <1>6. Syn(sk).type = "SYN" /\ InFlight("reader")' = {Syn(sk)} /\ Len(chan'["reader"]) = 1
    BY <1>5, RangeSingle DEF Syn, MakePacket, InFlight
  <1>7. reader' = reader /\ delivered' = delivered /\ chan'["reader"][1] = Syn(sk)
    BY <1>1, <1>5
  <1>8. NoTwins'
    BY <1>6 DEF NoTwins
  <1>9. ChunksMatch' /\ HandedOnPerFin'
    BY <1>3, <1>5, <1>6, <1>7 DEF ChunksMatch, HandedOnPerFin
  <1>10. EachChunkOnce'
    BY <1>2, <1>3, <1>5, <1>6, <1>7 DEF EachChunkOnce
  <1>11. WholeBeforeFin'
    BY <1>6, <1>7 DEF WholeBeforeFin
  <1> QED  BY <1>8, <1>9, <1>10, <1>11 DEF TransferInv

LEMMA TransferInvReaderSyn ==
  ASSUME TypeOK, AckInv, TransferInv, NEW i \in 1 .. Len(chan["reader"]),
         NEW keep \in BOOLEAN, ReaderSyn(i, keep)
  PROVE  TransferInv'
  <1> DEFINE p  == chan["reader"][i]
             sk == AttachReader([reader EXCEPT !.ackNr = p.seqNr, !.nextSeq = 2])
  <1>1. p \in Packet /\ reader \in Socket
    BY DEF TypeOK, NetTypeOK, Roles
  <1>2. sk \in Socket
    <2>1. [reader EXCEPT !.ackNr = p.seqNr, !.nextSeq = 2] \in Socket
      <3>1. p.seqNr \in Int /\ 2 \in Nat \cup {Undefined}
        BY <1>1 DEF Packet
      <3> QED  BY <1>1, <3>1 DEF Socket
    <2> QED  BY <2>1, AttachReaderType
  <1>3. reader'.packets = <<>>
    <2>1. sk.packets = <<>>
      BY <1>1 DEF AttachReader, Socket
    <2> HIDE DEF sk
    <2>2. reader' = [sk EXCEPT !.ackNr = @ + 1]
      BY DEF ReaderSyn, sk
    <2> QED  BY <1>2, <2>1, <2>2 DEF Socket
  <1>4. Deliver("reader", i, keep, <<State(sk)>>) /\ <<State(sk)>> \in Seq(Packet)
    BY <1>2, StateType DEF ReaderSyn
  <1>5. p \in InFlight("reader") /\ InFlight("reader")' \subseteq InFlight("reader")
    BY <1>4, ReaderDelivery
  <1>6. p.type = "SYN" /\ p.seqNr = 1 /\ 1 # N + 2
    BY <1>5, SocketAssumption DEF ReaderSyn, AckInv, ToReader
  <1>7. writer' = writer /\ delivered' = delivered
    BY DEF ReaderSyn
  <1>8. NoTwins
    BY DEF TransferInv
  <1>9. /\ chan'["reader"] = IF keep THEN chan["reader"] ELSE Without(chan["reader"], i)
        /\ lost' = lost
        /\ dups \in Nat /\ dups' = IF keep THEN dups + 1 ELSE dups
        /\ overtaken \in Nat /\ overtaken' = IF i > 1 THEN overtaken + 1 ELSE overtaken
    BY <1>4, <1>8, ReaderTakes
  <1>10. NoTwins' /\ (~ keep => \A q \in InFlight("reader")' : q.seqNr # p.seqNr)
    BY <1>8, <1>9, TakenOut
  <1>11. Held(reader') = {}
    BY <1>3 DEF Held
  <1> HIDE DEF p, sk
  <1>12. ChunksMatch'
    BY <1>3, <1>5, <1>7 DEF TransferInv, ChunksMatch
  <1>13. HandedOnPerFin'
    <2>1. Len(delivered) \in Nat
      BY DEF TypeOK
    <2> QED  BY <1>5, <1>7, <1>9, <2>1 DEF TransferInv, HandedOnPerFin
  <1>14. EachChunkOnce'
    <2>1. ASSUME dups' = 0, NEW q \in InFlight("reader")' PROVE q.type # "SYN"
      <3>1. q.seqNr # 1 /\ q \in InFlight("reader")
        BY <1>5, <1>6, <1>9, <1>10, <2>1
      <3> QED  BY <3>1 DEF AckInv, ToReader
    <2> QED  BY <1>3, <1>11, <2>1 DEF EachChunkOnce
  <1>15. WholeBeforeFin'
    <2>1. ASSUME dups' = 0 PROVE \A q \in InFlight("reader")' : q.type # "FIN"
      <3>1. writer.seqNr = 1
        BY <1>5, <1>6, <1>9, <2>1 DEF TransferInv, EachChunkOnce
      <3> QED  BY <1>5, <1>6, <3>1 DEF AckInv, ToReader
    <2>2. \A k \in 1 .. Len(chan'["reader"]) : chan'["reader"][k] \in InFlight("reader")'
      <3>1. chan'["reader"] \in Seq(Packet)
        BY <1>9, ToReaderType, WithoutProperties
      <3> QED  BY <3>1, InRange DEF InFlight
    <2> QED  BY <2>1, <2>2 DEF WholeBeforeFin
  <1> QED  BY <1>10, <1>12, <1>13, <1>14, <1>15 DEF TransferInv

LEMMA TransferInvReaderData ==
  ASSUME TypeOK, AckInv, TransferInv, NEW i \in 1 .. Len(chan["reader"]),
         NEW keep \in BOOLEAN, ReaderData(i, keep)
  PROVE  TransferInv'
  <1> DEFINE p   == chan["reader"][i]
             out == DataAck(reader, p)
             seg == [seqNr |-> p.seqNr, payload |-> p.payload]
             s   == reader.packets
             a   == AddPacket(s, seg)
  <1>1. p \in Packet /\ reader \in Socket /\ seg \in Segment /\ s \in Seq(Segment)
    <2>1. p \in Packet /\ reader \in Socket
      BY DEF TypeOK, NetTypeOK, Roles
    <2> QED  BY <2>1 DEF Packet, Segment, Socket
  <1>2. reader' = TakeData(reader, p) /\ reader' \in Socket
    BY <1>1, TakeDataType DEF ReaderData
  <1>3. reader'.packets = a
    BY <1>1, <1>2 DEF TakeData, Socket
  <1>4. Deliver("reader", i, keep, out) /\ out \in Seq(Packet)
    BY <1>2, StateType, EmptyType DEF ReaderData, DataAck
  <1>5. p \in InFlight("reader") /\ InFlight("reader")' \subseteq InFlight("reader")
    BY <1>4, ReaderDelivery
  <1>6. /\ p.type = "DATA" /\ p.seqNr \in 2 .. N + 1 /\ p.payload = p.seqNr - 1
        /\ writer.seqNr = N + 2 /\ 1 # N + 2
    BY <1>5, SocketAssumption DEF ReaderData, AckInv, ToReader, TransferInv, ChunksMatch
  <1>7. writer' = writer /\ delivered' = delivered
    BY DEF ReaderData
  <1>8. NoTwins
    BY DEF TransferInv
  <1>9. /\ chan'["reader"] = IF keep THEN chan["reader"] ELSE Without(chan["reader"], i)
        /\ lost' = lost
        /\ dups \in Nat /\ dups' = IF keep THEN dups + 1 ELSE dups
        /\ overtaken \in Nat /\ overtaken' = IF i > 1 THEN overtaken + 1 ELSE overtaken
    BY <1>4, <1>8, ReaderTakes
  <1>10. /\ NoTwins'
         /\ ~ keep =>
              /\ Len(chan'["reader"]) = Len(chan["reader"]) - 1
              /\ \A k \in 1 .. Len(chan["reader"]) - 1 :
                   chan'["reader"][k] = chan["reader"][IF k < i THEN k ELSE k + 1]
              /\ \A q \in InFlight("reader")' : q.seqNr # p.seqNr
    BY <1>8, <1>9, TakenOut
  <1>11. /\ a \in Seq(Segment) /\ Len(a) = Len(s) + 1 /\ Len(s) \in Nat
         /\ \A j \in 1 .. Len(s) + 1 :
              a[j] = seg \/ \E k \in 1 .. Len(s) : a[j] = s[k]
    <2>1. /\ a \in Seq(Segment) /\ Len(a) = Len(s) + 1 /\ Len(s) \in Nat
          /\ \A j \in 1 .. Len(s) + 1 :
               a[j] = IF j <= Len(s) /\ s[j].seqNr <= seg.seqNr THEN s[j]
                      ELSE IF j = 1 \/ s[j-1].seqNr <= seg.seqNr THEN seg ELSE s[j-1]
      <3>1. Len(s) \in Nat
        BY <1>1
      <3> HIDE DEF seg, s
      <3> QED  BY <1>1, <3>1, AddPacketProperties, Zenon
    <2> HIDE DEF a, s, seg
    <2>2. \A j \in 1 .. Len(s) + 1 :
            a[j] = seg \/ \E k \in 1 .. Len(s) : a[j] = s[k]
      <3> TAKE j \in 1 .. Len(s) + 1
      <3>1. CASE j <= Len(s) /\ s[j].seqNr <= seg.seqNr
        BY <2>1, <3>1
      <3>2. CASE ~ (j <= Len(s) /\ s[j].seqNr <= seg.seqNr) /\ (j = 1 \/ s[j-1].seqNr <= seg.seqNr)
        BY <2>1, <3>2
      <3>3. CASE ~ (j <= Len(s) /\ s[j].seqNr <= seg.seqNr) /\ ~ (j = 1 \/ s[j-1].seqNr <= seg.seqNr)
        <4>1. a[j] = s[j-1] /\ j - 1 \in 1 .. Len(s)
          BY <2>1, <3>3
        <4> QED  BY <4>1
      <3> QED  BY <3>1, <3>2, <3>3
    <2> QED  BY <2>1, <2>2
  <1>12. seg.seqNr = p.seqNr /\ seg.payload = p.payload
    OBVIOUS
  <1>13. Held(reader) = {s[k].seqNr : k \in 1 .. Len(s)}
         /\ Held(reader') = {a[k].seqNr : k \in 1 .. Len(a)}
    <2>1. s = reader.packets /\ s \in Seq(Segment) /\ a \in Seq(Segment) /\ reader'.packets = a
      BY <1>1, <1>3, <1>11
    <2> HIDE DEF p, out, seg, s, a
    <2>2. DOMAIN s = 1 .. Len(s) /\ DOMAIN a = 1 .. Len(a)
      BY <2>1
    <2> QED  BY <2>1, <2>2 DEF Held
  <1> HIDE DEF p, out, seg, a
  <1>14. ChunksMatch'
    <2>1. \A k \in 1 .. Len(s) : s[k].seqNr \in 2 .. N + 1 /\ s[k].payload = s[k].seqNr - 1
      BY DEF TransferInv, ChunksMatch
    <2> HIDE DEF s
    <2>2. \A k \in 1 .. Len(a) : a[k].seqNr \in 2 .. N + 1 /\ a[k].payload = a[k].seqNr - 1
      BY <1>6, <1>11, <1>12, <2>1
    <2> QED  BY <1>3, <1>5, <1>6, <1>7, <2>2 DEF TransferInv, ChunksMatch
  <1>15. HandedOnPerFin'
    <2>1. Len(delivered) \in Nat
      BY DEF TypeOK
    <2> QED  BY <1>5, <1>7, <1>9, <2>1 DEF TransferInv, HandedOnPerFin
  <1>16. ASSUME dups' = 0
         PROVE  /\ ~ keep /\ dups = 0
                /\ \A q \in InFlight("reader") : q.type # "SYN"
                /\ \A j, k \in 1 .. Len(a) : j < k => a[j].seqNr < a[k].seqNr
                /\ \A k \in 1 .. Len(s) : \E j \in 1 .. Len(a) : a[j] = s[k]
                /\ \E j \in 1 .. Len(a) : a[j] = seg
    <2>1. ~ keep /\ dups = 0
      BY <1>9, <1>16
    <2>2. /\ p.seqNr \notin Held(reader)
          /\ \A j, k \in 1 .. Len(s) : j < k => s[j].seqNr < s[k].seqNr
          /\ \A q \in InFlight("reader") : q.type # "SYN"
      BY <1>5, <1>6, <2>1 DEF TransferInv, EachChunkOnce
    <2> HIDE DEF s
    <2>3. \A k \in 1 .. Len(s) : s[k].seqNr # seg.seqNr
      BY <1>12, <1>13, <2>2
    <2>4. /\ \A j, k \in 1 .. Len(a) : j < k => a[j].seqNr < a[k].seqNr
          /\ \A k \in 1 .. Len(s) : \E j \in 1 .. Len(a) : a[j] = s[k]
          /\ \E j \in 1 .. Len(a) : a[j] = seg
      BY <1>1, <2>2, <2>3, AddPacketKeepsOrder DEF a
    <2> QED  BY <2>1, <2>2, <2>4
  <1>17. EachChunkOnce'
    <2> SUFFICES ASSUME dups' = 0
                 PROVE  /\ \A q \in InFlight("reader")' :
                             /\ q.type # "SYN"
                             /\ q.type = "DATA" => q.seqNr \notin Held(reader')
                        /\ \A j, k \in 1 .. Len(a) : j < k => a[j].seqNr < a[k].seqNr
      BY <1>3 DEF EachChunkOnce
    <2>1. ASSUME NEW q \in InFlight("reader")', q.type = "DATA"
          PROVE  q.seqNr \notin Held(reader')
      <3>1. q.seqNr # seg.seqNr /\ q \in InFlight("reader")
        BY <1>5, <1>10, <1>12, <1>16
      <3>2. q.seqNr \notin Held(reader)
        BY <1>16, <2>1, <3>1 DEF TransferInv, EachChunkOnce
      <3> HIDE DEF s
      <3> QED  BY <1>11, <1>13, <3>1, <3>2
    <2> QED  BY <1>5, <1>16, <2>1
  <1>18. WholeBeforeFin'
    <2> SUFFICES ASSUME lost' = 0, dups' = 0, overtaken' = 0,
                        NEW k \in 1 .. Len(chan'["reader"]), chan'["reader"][k].type = "FIN",
                        NEW nr \in 2 .. N + 1
                 PROVE  \/ nr \in Held(reader')
                        \/ \E j \in 1 .. k - 1 : chan'["reader"][j].seqNr = nr
      BY DEF WholeBeforeFin
    <2> DEFINE c == chan["reader"]
               d == chan'["reader"]
    <2>1. ~ keep /\ dups = 0 /\ lost = 0 /\ overtaken = 0 /\ i = 1
      BY <1>9, <1>16, ToReaderType
    <2>2. /\ Len(d) = Len(c) - 1 /\ Len(c) \in Nat
          /\ \A j \in 1 .. Len(c) - 1 : d[j] = c[j+1]
      <3>1. \A j \in 1 .. Len(c) - 1 : (IF j < i THEN j ELSE j + 1) = j + 1
        BY <2>1
      <3>2. Len(c) \in Nat
        BY ToReaderType
      <3> QED  BY <1>10, <2>1, <3>1, <3>2
    <2>3. /\ \A m \in 1 .. Len(c) : c[m].type = "FIN" =>
               \/ nr \in Held(reader)
               \/ \E j \in 1 .. m - 1 : c[j].seqNr = nr
          /\ c[1] = p /\ k \in 1 .. Len(d) /\ d[k].type = "FIN"
      BY <2>1 DEF TransferInv, WholeBeforeFin, p
    <2>4. Held(reader) \subseteq Held(reader') /\ p.seqNr \in Held(reader')
      <3> HIDE DEF s
      <3>1. \A k1 \in 1 .. Len(s) : \E j \in 1 .. Len(a) : a[j].seqNr = s[k1].seqNr
        BY <1>16
      <3>2. \E j \in 1 .. Len(a) : a[j].seqNr = p.seqNr
        BY <1>12, <1>16
      <3> QED  BY <1>13, <3>1, <3>2
    <2> HIDE DEF c, d
    <2>5. k + 1 \in 1 .. Len(c) /\ c[k+1].type = "FIN" /\ (k + 1) - 1 = k
      BY <2>2, <2>3
    <2>6. CASE nr \in Held(reader)
      BY <2>4, <2>6
    <2>7. CASE \E j \in 1 .. k : c[j].seqNr = nr
      <3>1. PICK j \in 1 .. k : c[j].seqNr = nr
        BY <2>7
      <3>2. CASE j = 1
        BY <2>3, <2>4, <3>1, <3>2
      <3>3. CASE j # 1
        <4>1. j - 1 \in 1 .. k - 1 /\ d[j-1].seqNr = nr
          <5>1. j - 1 \in 1 .. k - 1 /\ j - 1 \in 1 .. Len(c) - 1 /\ (j - 1) + 1 = j
            BY <2>2, <2>3, <3>1, <3>3
          <5>2. d[j-1] = c[j]
            BY <2>2, <5>1
          <5> QED  BY <3>1, <5>1, <5>2
        <4> QED  BY <4>1 DEF d
      <3> QED  BY <3>2, <3>3
    <2> QED  BY <2>3, <2>5, <2>6, <2>7
  <1> QED  BY <1>10, <1>14, <1>15, <1>17, <1>18 DEF TransferInv

LEMMA TransferInvReaderFin ==
  ASSUME TypeOK, AckInv, TransferInv, NEW i \in 1 .. Len(chan["reader"]),
         NEW keep \in BOOLEAN, ReaderFin(i, keep)
  PROVE  TransferInv'
  <1> DEFINE p == chan["reader"][i]
  <1>1. p \in Packet /\ reader \in Socket
    BY DEF TypeOK, NetTypeOK, Roles
  <1>2. reader' = TakeFin(reader, p) /\ reader' \in Socket
    <2>1. p.seqNr \in Int /\ reader.seqNr + 1 \in Nat /\ "GotFin" \in States
      BY <1>1 DEF Packet, Socket, States
    <2>2. TakeFin(reader, p) \in Socket
      BY <1>1, <2>1 DEF TakeFin, Socket
    <2> QED  BY <2>2 DEF ReaderFin
  <1>3. reader'.packets = reader.packets /\ Held(reader') = Held(reader)
    BY <1>1, <1>2 DEF TakeFin, Socket, Held
  <1>4. Deliver("reader", i, keep, <<State(reader')>>) /\ <<State(reader')>> \in Seq(Packet)
    BY <1>2, StateType DEF ReaderFin
  <1>5. p \in InFlight("reader") /\ InFlight("reader")' \subseteq InFlight("reader")
    BY <1>4, ReaderDelivery
  <1>6. p.type = "FIN" /\ p.seqNr = N + 2 /\ writer.seqNr = N + 2 /\ 1 # N + 2
    BY <1>5, SocketAssumption DEF ReaderFin, AckInv, ToReader
  <1>7. /\ writer' = writer /\ Len(delivered) \in Nat
        /\ Len(delivered') = Len(delivered) + 1
    <2>1. delivered \in Seq(Seq(0..N)) /\ Compile(reader) \in Seq(0..N)
      BY <1>1, CompileType DEF TypeOK
    <2> QED  BY <2>1 DEF ReaderFin
  <1>8. NoTwins
    BY DEF TransferInv
  <1>9. /\ chan'["reader"] = IF keep THEN chan["reader"] ELSE Without(chan["reader"], i)
        /\ lost' = lost
        /\ dups \in Nat /\ dups' = IF keep THEN dups + 1 ELSE dups
        /\ overtaken \in Nat /\ overtaken' = IF i > 1 THEN overtaken + 1 ELSE overtaken
    BY <1>4, <1>8, ReaderTakes
  <1>10. NoTwins' /\ (~ keep => \A q \in InFlight("reader")' : q.seqNr # p.seqNr)
    BY <1>8, <1>9, TakenOut
  <1> HIDE DEF p
  <1>11. ChunksMatch'
    BY <1>3, <1>5, <1>6, <1>7 DEF TransferInv, ChunksMatch
  <1>12. ~ keep => \A q \in InFlight("reader")' : q.type # "FIN"
    BY <1>5, <1>6, <1>10 DEF AckInv, ToReader
  <1>13. HandedOnPerFin'
    <2>1. Len(delivered) <= dups
      BY <1>5, <1>6 DEF TransferInv, HandedOnPerFin
    <2> QED  BY <1>7, <1>9, <1>12, <2>1 DEF HandedOnPerFin
  <1>14. EachChunkOnce'
    <2>1. ASSUME dups' = 0
          PROVE  /\ dups = 0
                 /\ \A q \in InFlight("reader") : q.type # "SYN"
      BY <1>6, <1>9, <2>1 DEF TransferInv, EachChunkOnce
    <2> QED  BY <1>3, <1>5, <2>1 DEF TransferInv, EachChunkOnce
  <1>15. WholeBeforeFin'
    <2>1. \A k \in 1 .. Len(chan'["reader"]) : chan'["reader"][k] \in InFlight("reader")'
      <3>1. chan'["reader"] \in Seq(Packet)
        BY <1>9, ToReaderType, WithoutProperties
      <3> QED  BY <3>1, InRange DEF InFlight
    <2> QED  BY <1>9, <1>12, <2>1 DEF WholeBeforeFin
  <1> QED  BY <1>10, <1>11, <1>13, <1>14, <1>15 DEF TransferInv

LEMMA TransferInvWriterSynAck ==
  ASSUME TypeOK, AckInv, TransferInv, NEW i \in 1 .. Len(chan["writer"]),
         NEW keep \in BOOLEAN, WriterSynAck(i, keep)
  PROVE  TransferInv'
  <1> DEFINE p   == chan["writer"][i]
             sk  == [writer EXCEPT !.state = "Connected", !.seqNr = 2,
                                   !.ackNr = p.seqNr - 1, !.nextSeq = p.seqNr + 1]
             out == IF sk.ackNr >= 0 THEN Burst(sk) ELSE <<>>
             c   == chan["reader"]
             d   == chan'["reader"]
  <1>1. p \in Packet /\ writer \in Socket
    BY DEF TypeOK, NetTypeOK, Roles
  <1>2. sk \in Socket /\ sk.seqNr = 2
    <2>1. p.seqNr - 1 \in Int /\ p.seqNr + 1 \in Nat \cup {Undefined}
          /\ 2 \in Nat /\ "Connected" \in States
      BY <1>1 DEF Packet, States
    <2>2. sk \in Socket
      BY <1>1, <2>1, UpdateType
    <2> QED  BY <1>1, <2>2 DEF Socket
  <1>3. /\ writer.seqNr = 1
        /\ Deliver("writer", i, keep, out)
        /\ reader' = reader /\ delivered' = delivered
    BY DEF WriterSynAck
  <1> HIDE DEF sk
  <1>4. out \in Seq(Packet)
    BY <1>2, BurstProperties, EmptyType
  <1>5. /\ p \in InFlight("writer")
        /\ InFlight("reader")' = InFlight("reader") \cup Range(out)
    BY <1>3, <1>4, WriterDelivery
  <1>6. /\ d = c \o out
        /\ lost' = lost
        /\ dups \in Nat /\ dups' = IF keep THEN dups + 1 ELSE dups
        /\ overtaken \in Nat /\ overtaken' = IF i > 1 THEN overtaken + 1 ELSE overtaken
    BY <1>3, <1>4, WriterTakes
  <1>7. /\ Len(out) \in Nat /\ Len(out) <= N + 1
        /\ \A j \in 1 .. Len(out) :
             /\ Len(out) = N + 1
             /\ out[j].seqNr = j + 1
             /\ out[j].type = (IF j <= N THEN "DATA" ELSE "FIN")
             /\ j <= N => out[j].payload = j
    <2>1. CASE sk.ackNr >= 0
      <3>1. out = Burst(sk) /\ Len(out) = N + 1
        BY <1>2, <2>1, BurstProperties
      <3>2. ASSUME NEW j \in 1 .. N
            PROVE  out[j].seqNr = j + 1 /\ out[j].type = "DATA" /\ out[j].payload = j
        <4>1. out[j] = MakePacket("DATA", 2 + j - 1, sk.ackNr, j) /\ 2 + j - 1 = j + 1
          BY <1>2, <3>1, BurstProperties
        <4> HIDE DEF out
        <4> QED  BY <4>1 DEF MakePacket
      <3>3. out[N+1].seqNr = N + 2 /\ out[N+1].type = "FIN"
        <4>1. out[N+1] = MakePacket("FIN", 2 + N, sk.ackNr, 0) /\ 2 + N = N + 2
          BY <1>2, <3>1, BurstProperties, SocketAssumption
        <4> HIDE DEF out
        <4> QED  BY <4>1 DEF MakePacket
      <3> HIDE DEF out
      <3> QED  BY <3>1, <3>2, <3>3, SocketAssumption
    <2>2. CASE ~ (sk.ackNr >= 0)
      <3>1. out = <<>>
        BY <2>2
      <3> HIDE DEF out
      <3> QED  BY <3>1, SocketAssumption
    <2> QED  BY <2>1, <2>2
  <1>8. c \in Seq(Packet) /\ Len(c) \in Nat
    BY ToReaderType
  <1>9. /\ Len(d) = Len(c) + Len(out)
        /\ \A j \in 1 .. Len(c) + Len(out) :
             d[j] = IF j <= Len(c) THEN c[j] ELSE out[j - Len(c)]
    <2> HIDE DEF c, d, out
    <2> QED  BY <1>4, <1>6, <1>8, ConcatenationProperties
  <1>10. \A j \in 1 .. Len(c) : c[j].seqNr = 1 /\ c[j].type = "SYN"
    <2>1. \A j \in 1 .. Len(c) : c[j] \in InFlight("reader")
      BY <1>8, InRange DEF InFlight
    <2>2. 1 # N + 2
      BY SocketAssumption
    <2> HIDE DEF c
    <2> QED  BY <1>3, <2>1, <2>2 DEF AckInv, ToReader
  <1>11. reader.packets = <<>> /\ delivered = <<>> /\ Held(reader) = {}
    <2>1. 1 # N + 2
      BY SocketAssumption
    <2> QED  BY <1>3, <2>1 DEF TransferInv, ChunksMatch, Held
  <1>12. NoTwins'
    <2>1. NoTwins
      BY DEF TransferInv
    <2>2. \A j, k \in 1 .. Len(c) : c[j].seqNr = c[k].seqNr => j = k
      BY <2>1 DEF NoTwins
    <2>3. Len(out) \in Nat
      BY <1>7
    <2> HIDE DEF p, c, d, out
    <2>5. \A j \in 1 .. Len(out) : out[j].seqNr = j + 1 /\ out[j].seqNr # 1
      <3> TAKE j \in 1 .. Len(out)
      <3>1. out[j].seqNr = j + 1
        BY <1>7
      <3> QED  BY <2>3, <3>1
    <2>4. \A j, k \in 1 .. Len(d) : d[j].seqNr = d[k].seqNr => j = k
      <3> TAKE j, k \in 1 .. Len(d)
      <3>1. CASE j <= Len(c) /\ k <= Len(c)
        BY <1>8, <1>9, <2>2, <2>3, <3>1
      <3>2. CASE j <= Len(c) /\ ~ (k <= Len(c))
        <4>1. k - Len(c) \in 1 .. Len(out) /\ d[k] = out[k - Len(c)] /\ j \in 1 .. Len(c) /\ d[j] = c[j]
          BY <1>8, <1>9, <2>3, <3>2
        <4>2. d[k].seqNr # 1 /\ d[j].seqNr = 1
          BY <1>10, <2>5, <4>1
        <4> QED  BY <4>2
      <3>3. CASE ~ (j <= Len(c)) /\ k <= Len(c)
        <4>1. j - Len(c) \in 1 .. Len(out) /\ d[j] = out[j - Len(c)] /\ k \in 1 .. Len(c) /\ d[k] = c[k]
          BY <1>8, <1>9, <2>3, <3>3
        <4>2. d[j].seqNr # 1 /\ d[k].seqNr = 1
          BY <1>10, <2>5, <4>1
        <4> QED  BY <4>2
      <3>4. CASE ~ (j <= Len(c)) /\ ~ (k <= Len(c))
        <4>1. /\ j - Len(c) \in 1 .. Len(out) /\ d[j] = out[j - Len(c)]
              /\ k - Len(c) \in 1 .. Len(out) /\ d[k] = out[k - Len(c)]
          BY <1>8, <1>9, <2>3, <3>4
        <4>2. d[j].seqNr = (j - Len(c)) + 1 /\ d[k].seqNr = (k - Len(c)) + 1
          BY <2>5, <4>1
        <4>3. j \in Int /\ k \in Int
          OBVIOUS
        <4> QED  BY <1>8, <4>2, <4>3
      <3> QED  BY <3>1, <3>2, <3>3, <3>4
    <2> QED  BY <2>4 DEF NoTwins, d
  <1>13. \A q \in Range(out) : q.type = "DATA" => q.payload = q.seqNr - 1
    <2> HIDE DEF out
    <2> TAKE q \in Range(out)
    <2>1. PICK j \in 1 .. Len(out) : q = out[j]
      BY <1>4, InRange
    <2>2. CASE j <= N
      BY <1>7, <2>1, <2>2
    <2>3. CASE ~ (j <= N)
      BY <1>7, <2>1, <2>3
    <2> QED  BY <2>2, <2>3
  <1>14. ChunksMatch'
    <2> HIDE DEF out
    <2>1. \A q \in InFlight("reader")' : q.type = "DATA" => q.payload = q.seqNr - 1
      BY <1>5, <1>13 DEF TransferInv, ChunksMatch
    <2> QED  BY <1>3, <1>11, <2>1 DEF ChunksMatch
  <1>15. HandedOnPerFin'
    <2> HIDE DEF p, c, d, out
    <2>1. Len(delivered') = 0
      <3>1. delivered' = <<>>
        BY <1>3, <1>11
      <3> QED  BY <3>1
    <2>2. 0 <= dups' + 1 /\ 0 <= dups'
      BY <1>6
    <2>3. Len(delivered') <= dups' + 1 /\ Len(delivered') <= dups'
      BY <2>1, <2>2, Zenon
    <2> QED  BY <2>3, Zenon DEF HandedOnPerFin
  <1>16. ASSUME dups' = 0 PROVE Len(c) = 0
    <2>1. dups = 0
      BY <1>6, <1>16
    <2>2. \A q \in InFlight("reader") : q.type # "SYN"
      BY <1>5, <2>1 DEF TransferInv, EachChunkOnce
    <2>3. CASE Len(c) # 0
      <3>1. 1 \in 1 .. Len(c)
        BY <1>8, <2>3
      <3>2. c[1] \in InFlight("reader") /\ c[1].type = "SYN"
        BY <1>8, <1>10, <3>1, InRange DEF InFlight
      <3> QED  BY <2>2, <3>2
    <2> QED  BY <2>3
  <1>17. EachChunkOnce'
    <2>1. ASSUME dups' = 0, NEW q \in InFlight("reader")' PROVE q.type # "SYN"
      <3>1. dups = 0
        BY <1>6, <2>1
      <3>2. CASE q \in InFlight("reader")
        BY <1>5, <3>1, <3>2 DEF TransferInv, EachChunkOnce
      <3>3. CASE q \in Range(out)
        <4> HIDE DEF out
        <4>1. PICK j \in 1 .. Len(out) : q = out[j]
          BY <1>4, <3>3, InRange
        <4> QED  BY <1>7, <4>1
      <3> HIDE DEF out
      <3> QED  BY <1>5, <2>1, <3>2, <3>3
    <2> QED  BY <1>3, <1>11, <2>1 DEF EachChunkOnce
  <1>18. WholeBeforeFin'
    <2> SUFFICES ASSUME dups' = 0, NEW k \in 1 .. Len(d), d[k].type = "FIN",
                        NEW nr \in 2 .. N + 1
                 PROVE  \E j \in 1 .. k - 1 : d[j].seqNr = nr
      BY DEF WholeBeforeFin
    <2>1. Len(c) = 0 /\ Len(out) \in Nat
      BY <1>7, <1>16
    <2> HIDE DEF p, c, d, out
    <2>2. \A j \in 1 .. Len(out) : d[j] = out[j]
      BY <1>9, <2>1
    <2>3. k = N + 1 /\ Len(out) = N + 1
      <3>1. k \in 1 .. Len(out) /\ d[k] = out[k]
        BY <1>9, <2>1, <2>2
      <3> QED  BY <1>7, <3>1, SocketAssumption
    <2>4. nr - 1 \in 1 .. k - 1 /\ nr - 1 \in 1 .. Len(out)
      BY <2>3, SocketAssumption
    <2>5. d[nr-1].seqNr = nr
      <3>1. d[nr-1] = out[nr-1] /\ out[nr-1].seqNr = (nr - 1) + 1
        BY <1>7, <2>2, <2>4
      <3>2. (nr - 1) + 1 = nr
        BY SocketAssumption
      <3> QED  BY <3>1, <3>2
    <2> QED  BY <2>4, <2>5
  <1> QED  BY <1>12, <1>14, <1>15, <1>17, <1>18 DEF TransferInv

\* The other STATE packets change nothing the reader sees.
LEMMA TransferInvWriterAck ==
  ASSUME TypeOK, AckInv, TransferInv, NEW i \in 1 .. Len(chan["writer"]),
         NEW keep \in BOOLEAN, WriterFinAck(i, keep) \/ WriterDataAck(i, keep)
  PROVE  TransferInv'
  <1> DEFINE p  == chan["writer"][i]
             sk == [writer EXCEPT !.state = "Connected", !.nextSeq = p.seqNr + 1]
  <1>1. /\ writer.seqNr # 1
        /\ Deliver("writer", i, keep, <<>>)
        /\ reader' = reader /\ delivered' = delivered
    BY DEF WriterFinAck, WriterDataAck
  <1>2. writer'.seqNr = writer.seqNr
    <2>1. writer \in Socket
      BY DEF TypeOK
    <2>2. CASE WriterFinAck(i, keep)
      BY <2>2 DEF WriterFinAck
    <2>3. CASE WriterDataAck(i, keep)
      <3>1. p \in Packet
        BY DEF TypeOK, NetTypeOK, Roles
      <3>2. sk \in Socket /\ sk.seqNr = writer.seqNr
        <4>1. p.seqNr + 1 \in Nat \cup {Undefined} /\ "Connected" \in States
          BY <3>1 DEF Packet, States
        <4> QED  BY <2>1, <4>1 DEF Socket
      <3>3. writer' = IF p.ackNr > 1 THEN NoteAck(sk, p.ackNr) ELSE sk
        BY <2>3 DEF WriterDataAck
      <3> HIDE DEF sk, p
      <3>4. NoteAck(sk, p.ackNr).seqNr = sk.seqNr
        BY <3>2 DEF NoteAck, Socket
      <3> QED  BY <3>2, <3>3, <3>4
    <2> QED  BY <2>2, <2>3
  <1>3. /\ InFlight("reader")' = InFlight("reader")
        /\ chan'["reader"] = chan["reader"]
    <2>1. InFlight("reader")' = InFlight("reader") \cup Range(<<>>)
          /\ chan'["reader"] = chan["reader"] \o <<>>
      BY <1>1, EmptyType, WriterDelivery, WriterTakes
    <2> QED  BY <2>1, ToReaderType, RangeEmpty
  <1>4. /\ lost' = lost
        /\ dups \in Nat /\ dups' = IF keep THEN dups + 1 ELSE dups
        /\ overtaken \in Nat /\ overtaken' = IF i > 1 THEN overtaken + 1 ELSE overtaken
    BY <1>1, EmptyType, WriterTakes
  <1>5. Len(delivered) \in Nat
    BY DEF TypeOK
  <1> HIDE DEF p, sk
  <1>6. NoTwins' /\ ChunksMatch'
    BY <1>1, <1>2, <1>3 DEF TransferInv, NoTwins, ChunksMatch
  <1>7. HandedOnPerFin'
    BY <1>1, <1>3, <1>4, <1>5 DEF TransferInv, HandedOnPerFin
  <1>8. EachChunkOnce'
    BY <1>1, <1>2, <1>3, <1>4 DEF TransferInv, EachChunkOnce
  <1>9. WholeBeforeFin'
    <2>1. lost' = 0 /\ dups' = 0 /\ overtaken' = 0 => lost = 0 /\ dups = 0 /\ overtaken = 0
      BY <1>4
    <2>2. WholeBeforeFin /\ chan'["reader"] = chan["reader"] /\ Held(reader') = Held(reader)
      BY <1>1, <1>3 DEF TransferInv
    <2> QED  BY <2>1, <2>2 DEF WholeBeforeFin
  <1> QED  BY <1>6, <1>7, <1>8, <1>9 DEF TransferInv

LEMMA TransferInvLoseStep ==
  ASSUME TypeOK, AckInv, TransferInv, LoseStep PROVE TransferInv'
  <1>1. PICK r \in Roles : Lose(r)
    BY DEF LoseStep
  <1>2. PICK i \in 1 .. Len(chan[r]) :
          /\ lost' = lost + 1
          /\ chan' = [chan EXCEPT ![r] = Without(@, i)]
          /\ UNCHANGED <<dups, overtaken>>
    BY <1>1 DEF Lose
  <1>3. /\ InFlight("writer")' \subseteq InFlight("writer")
        /\ InFlight("reader")' \subseteq InFlight("reader")
    <2>1. \A q \in Roles : InFlight(q)' \subseteq InFlight(q)
      BY <1>1, LoseInFlight DEF TypeOK
    <2> QED  BY <2>1 DEF Roles
  <1>4. writer' = writer /\ reader' = reader /\ delivered' = delivered
    BY DEF LoseStep
  <1>5. NoTwins
    BY DEF TransferInv
  <1>6. NoTwins'
    <2>1. CASE r = "reader"
      <3>1. chan'["reader"] = Without(chan["reader"], i)
        BY <1>2, <2>1 DEF TypeOK, NetTypeOK
      <3>2. i \in 1 .. Len(chan["reader"]) /\ FALSE \in BOOLEAN
        BY <2>1
      <3>3. chan'["reader"] = IF FALSE THEN chan["reader"] ELSE Without(chan["reader"], i)
        BY <3>1
      <3> QED  BY <1>5, <3>2, <3>3, TakenOut
    <2>2. CASE r = "writer"
      <3>1. chan'["reader"] = chan["reader"]
        BY <1>2, <2>2 DEF TypeOK, NetTypeOK, Roles
      <3> QED  BY <1>5, <3>1 DEF NoTwins
    <2> QED  BY <2>1, <2>2 DEF Roles
  <1>7. lost' # 0
    BY <1>2, NetworkAssumption DEF TypeOK, NetTypeOK
  <1>8. ChunksMatch' /\ HandedOnPerFin' /\ EachChunkOnce'
    BY <1>2, <1>3, <1>4 DEF TransferInv, ChunksMatch, HandedOnPerFin, EachChunkOnce
  <1>9. WholeBeforeFin'
    BY <1>7 DEF WholeBeforeFin
  <1> QED  BY <1>6, <1>8, <1>9 DEF TransferInv

\* What is in flight to the reader and what it holds agree throughout.
THEOREM TransferInvariant == Spec => []TransferInv
  <1>1. Init => TransferInv
    BY TransferInvInit
  <1>2. TypeOK /\ AckInv /\ TransferInv /\ [Next]_vars => TransferInv'
    <2> SUFFICES ASSUME TypeOK, AckInv, TransferInv, [Next]_vars PROVE TransferInv'
      OBVIOUS
    <2>1. CASE OpenWriter
      BY <2>1, TransferInvOpenWriter
    <2>2. CASE ReaderStep
      BY <2>2, TransferInvReaderSyn, TransferInvReaderData, TransferInvReaderFin
         DEF ReaderStep
    <2>3. CASE WriterStep
      BY <2>3, TransferInvWriterSynAck, TransferInvWriterAck DEF WriterStep
    <2>4. CASE LoseStep
      BY <2>4, TransferInvLoseStep
    <2>5. CASE UNCHANGED vars
      BY <2>5 DEF vars, net, InFlight, TransferInv, NoTwins, ChunksMatch,
                  HandedOnPerFin, EachChunkOnce, WholeBeforeFin
    <2> QED  BY <2>1, <2>2, <2>3, <2>4, <2>5 DEF Next
  <1> QED  BY <1>1, <1>2, TypeInvariant, AckInvariant, PTL DEF Spec

\* What the reader hands on when a FIN comes is what the promise allows.
LEMMA HandsOnAsPromised ==
  ASSUME TypeOK, AckInv, TransferInv, NEW i \in 1 .. Len(chan["reader"]),
         NEW keep \in BOOLEAN, ReaderFin(i, keep)
  PROVE  Transfer!HandOn(Compile(reader))
  <1> DEFINE p == chan["reader"][i]
             s == reader.packets
             d == Compile(reader)
  <1>1. p \in Packet /\ reader \in Socket /\ s \in Seq(Segment)
    BY DEF TypeOK, NetTypeOK, Roles, Socket
  <1>2. Deliver("reader", i, keep, <<State(reader')>>) /\ <<State(reader')>> \in Seq(Packet)
    <2>1. p.seqNr \in Int /\ reader.seqNr + 1 \in Nat /\ "GotFin" \in States
      BY <1>1 DEF Packet, Socket, States
    <2>2. TakeFin(reader, p) \in Socket
      BY <1>1, <2>1 DEF TakeFin, Socket
    <2> QED  BY <2>2, StateType DEF ReaderFin
  <1>3. p \in InFlight("reader") /\ p.type = "FIN" /\ delivered' = Append(delivered, d)
    BY <1>2, ReaderDelivery DEF ReaderFin
  <1>4. /\ lost' = lost
        /\ dups \in Nat /\ dups' = IF keep THEN dups + 1 ELSE dups
        /\ overtaken \in Nat /\ overtaken' = IF i > 1 THEN overtaken + 1 ELSE overtaken
    <2>1. NoTwins
      BY DEF TransferInv
    <2> QED  BY <1>2, <2>1, ReaderTakes
  <1>5. /\ DOMAIN d = 1 .. Len(s) /\ Len(s) \in Nat
        /\ \A k \in 1 .. Len(s) : d[k] = s[k].seqNr - 1 /\ s[k].seqNr \in 2 .. N + 1
    <2>1. \A k \in 1 .. Len(s) : s[k].payload = s[k].seqNr - 1 /\ s[k].seqNr \in 2 .. N + 1
      BY DEF TransferInv, ChunksMatch
    <2> QED  BY <1>1, <2>1 DEF Compile
  <1> HIDE DEF p, d
  <1>6. Len(delivered) <= dups'
    <2>1. Len(delivered) <= dups /\ Len(delivered) \in Nat
      BY <1>3 DEF TransferInv, HandedOnPerFin, TypeOK
    <2> QED  BY <1>4, <2>1
  <1>7. \A k \in DOMAIN d : d[k] \in 1..N
    <2> HIDE DEF s
    <2> QED  BY <1>5, SocketAssumption
  <1>8. ASSUME dups' = 0 PROVE Transfer!Ordered(d)
    <2>1. dups = 0
      BY <1>4, <1>8
    <2>2. \A j, k \in 1 .. Len(s) : j < k => s[j].seqNr < s[k].seqNr
      BY <2>1 DEF TransferInv, EachChunkOnce
    <2> HIDE DEF s
    <2> QED  BY <1>5, <2>2 DEF Transfer!Ordered
  <1>9. ASSUME lost' = 0, dups' = 0, overtaken' = 0 PROVE Transfer!Covers(d)
    <2>1. lost = 0 /\ dups = 0 /\ overtaken = 0 /\ i = 1
      BY <1>4, <1>9, ToReaderType
    <2>2. \A nr \in 2 .. N + 1 : nr \in Held(reader)
      <3>1. chan["reader"][1].type = "FIN" /\ 1 \in 1 .. Len(chan["reader"]) /\ 1 .. 1 - 1 = {}
        BY <1>3, <2>1 DEF p
      <3> QED  BY <2>1, <3>1 DEF TransferInv, WholeBeforeFin
    <2>3. Held(reader) = {s[k].seqNr : k \in 1 .. Len(s)}
      BY <1>1 DEF Held
    <2> HIDE DEF s
    <2>4. ASSUME NEW c \in 1 .. N PROVE \E k \in DOMAIN d : d[k] = c
      <3>1. c + 1 \in Held(reader) /\ (c + 1) - 1 = c
        BY <2>2, SocketAssumption
      <3>2. PICK k \in 1 .. Len(s) : s[k].seqNr = c + 1
        BY <2>3, <3>1
      <3> QED  BY <1>5, <3>1, <3>2
    <2> QED  BY <2>4 DEF Transfer!Covers
  <1> QED  BY <1>3, <1>6, <1>7, <1>8, <1>9 DEF Transfer!HandOn, d

\* The network disturbs the stream within the bounds of the promise.
LEMMA DisturbsAsPromised ==
  ASSUME TypeOK, Next
  PROVE  Transfer!Disturb
  <1>1. lost \in 0..MaxLost /\ dups \in 0..MaxDups /\ overtaken \in 0..MaxOvertaken
        /\ MaxLost \in Nat /\ MaxDups \in Nat /\ MaxOvertaken \in Nat
    BY NetworkAssumption DEF TypeOK, NetTypeOK
  <1>2. ASSUME NEW r, NEW out, NEW i \in Nat, NEW keep \in BOOLEAN, Deliver(r, i, keep, out)
        PROVE  Transfer!Disturb
    BY <1>1, <1>2 DEF Deliver, Transfer!Disturb
  <1>3. CASE OpenWriter
    BY <1>1, <1>3 DEF OpenWriter, Send, Transfer!Disturb
  <1>4. CASE ReaderStep
    <2>1. PICK i \in 1 .. Len(chan["reader"]), keep \in BOOLEAN :
            ReaderSyn(i, keep) \/ ReaderData(i, keep) \/ ReaderFin(i, keep)
      BY <1>4 DEF ReaderStep
    <2> QED  BY <1>2, <2>1 DEF ReaderSyn, ReaderData, ReaderFin
  <1>5. CASE WriterStep
    <2>1. PICK i \in 1 .. Len(chan["writer"]), keep \in BOOLEAN :
            WriterSynAck(i, keep) \/ WriterFinAck(i, keep) \/ WriterDataAck(i, keep)
      BY <1>5 DEF WriterStep
    <2> QED  BY <1>2, <2>1 DEF WriterSynAck, WriterFinAck, WriterDataAck
  <1>6. CASE LoseStep
    BY <1>1, <1>6 DEF LoseStep, Lose, Transfer!Disturb
  <1> QED  BY <1>3, <1>4, <1>5, <1>6 DEF Next

\* The stream implements ContentTransfer: whatever the network does, each
\* content handed on is one the promise allows.
THEOREM TransferImplemented == Spec => TransferSpec
  <1>1. Init => Transfer!Init
    BY DEF Init, NetInit, Transfer!Init
  <1>2. TypeOK /\ AckInv /\ TransferInv /\ [Next]_vars => [Transfer!Next]_(Transfer!vars)
    <2> SUFFICES ASSUME TypeOK, AckInv, TransferInv, Next PROVE Transfer!Next
      BY DEF vars, net, Transfer!vars
    <2>1. Transfer!Disturb
      BY DisturbsAsPromised
    <2>2. ASSUME NEW i \in 1 .. Len(chan["reader"]), NEW keep \in BOOLEAN,
                 ReaderFin(i, keep)
          PROVE  Transfer!Next
      <3>1. Transfer!HandOn(Compile(reader))
        BY <2>2, HandsOnAsPromised
      <3>2. delivered' = Append(delivered, Compile(reader))
        BY <2>2 DEF ReaderFin
      <3>3. delivered \in Seq(Seq(0..N)) /\ Compile(reader) \in Seq(0..N)
        BY CompileType DEF TypeOK
      <3>4. Len(delivered') = Len(delivered) + 1
            /\ delivered'[Len(delivered')] = Compile(reader)
        BY <3>2, <3>3
      <3> QED  BY <2>1, <3>1, <3>4 DEF Transfer!Next
    <2>3. ASSUME UNCHANGED delivered PROVE Transfer!Next
      BY <2>1, <2>3 DEF Transfer!Next
    <2>4. CASE OpenWriter
      BY <2>3, <2>4 DEF OpenWriter
    <2>5. CASE ReaderStep
      BY <2>2, <2>3, <2>5 DEF ReaderStep, ReaderSyn, ReaderData
    <2>6. CASE WriterStep
      BY <2>3, <2>6 DEF WriterStep, WriterSynAck, WriterFinAck, WriterDataAck
    <2>7. CASE LoseStep
      BY <2>3, <2>7 DEF LoseStep
    <2> QED  BY <2>4, <2>5, <2>6, <2>7 DEF Next
  <1> QED  BY <1>1, <1>2, TypeInvariant, AckInvariant, TransferInvariant, PTL
           DEF Spec, TransferSpec, Transfer!Spec
=============================================================================
