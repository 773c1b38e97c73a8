----------------------------- MODULE UtpSocket -----------------------------
(***************************************************************************)
(* One end of a uTP stream: the UtpSocket with its ContentWriter or        *)
(* ContentReader, and the packets it makes.  The operators take a socket   *)
(* record to the socket a method of the code leaves behind; the modules    *)
(* UtpOffer and UtpFind wire them into the two streams of the protocol.    *)
(*                                                                         *)
(* Content is N chunks of at most BUFFER_SIZE bytes.  A chunk is           *)
(* represented by its position 1..N in the content, so that content put    *)
(* together wrongly is a sequence other than <<1, ..., N>>.                *)
(***************************************************************************)
EXTENDS Integers, Sequences, Functions

CONSTANTS
  N,          \* chunks of the content of the stream
  RandNrs,    \* what randUint16 may return
  MaxSack     \* acknowledgements a SELECTIVE ACK header has room for (255)

ASSUME SocketAssumption ==
  /\ N \in Nat \ {0}
  /\ RandNrs \in (SUBSET Nat) \ {{}}
  /\ MaxSack \in Nat

Chunks  == 1..N
Content == [i \in Chunks |-> i]

States == {"null", "SynSent", "Connected", "GotFin", "Closed"}

Undefined == -1   \* a number field the code leaves undefined

Segment == [seqNr : Nat, payload : 0..N]

Packet == [type : {"SYN", "STATE", "DATA", "FIN"},
           seqNr : Nat, ackNr : Int, payload : 0..N]

Socket == [state   : States,
           seqNr   : Nat,
           ackNr   : Int,              \* -1 when computed from a zero
           finNr   : Nat \cup {Undefined},
           nextSeq : Nat \cup {Undefined},
           dataNrs : SUBSET Nat,
           ackNrs  : Seq(Int),
           reading : BOOLEAN,          \* is there a ContentReader?
           packets : Seq(Segment)]     \* what the ContentReader holds

NewSocket(state, seqNr, ackNr, nextSeq) ==
  [state |-> state, seqNr |-> seqNr, ackNr |-> ackNr, finNr |-> Undefined,
   nextSeq |-> nextSeq, dataNrs |-> {}, ackNrs |-> <<>>,
   reading |-> FALSE, packets |-> <<>>]

Held(sk) == {sk.packets[i].seqNr : i \in DOMAIN sk.packets}

----------------------------------------------------------------------------
(* Packets.  All but DATA have an empty payload, written 0.                *)

MakePacket(type, seqNr, ackNr, payload) ==
  [type |-> type, seqNr |-> seqNr, ackNr |-> ackNr, payload |-> payload]

Syn(sk)   == MakePacket("SYN", 1, sk.ackNr, 0)
State(sk) == MakePacket("STATE", sk.seqNr, sk.ackNr, 0)

----------------------------------------------------------------------------
(* Writing.                                                                *)

\* new ContentWriter: chunk() numbers the chunks from `start' in dataNrs.
AttachWriter(sk, start) ==
  [sk EXCEPT !.dataNrs = @ \cup start .. (start + N - 1)]

\* Slips of Burst: the FIN goes out first, or is forgotten, or the chunks are
\* read one position off.
BurstFinFirst(sk) ==
  [i \in 1 .. N + 1 |->
     IF i > 1 THEN MakePacket("DATA", sk.seqNr + i - 2, sk.ackNr, i - 1)
              ELSE MakePacket("FIN", sk.seqNr + N, sk.ackNr, 0)]
BurstWithoutFin(sk) ==
  [i \in 1..N |-> MakePacket("DATA", sk.seqNr + i - 1, sk.ackNr, i)]
BurstOffByOne(sk) ==
  [i \in 1 .. N + 1 |->
     IF i <= N THEN MakePacket("DATA", sk.seqNr + i - 1, sk.ackNr, i + 1)
               ELSE MakePacket("FIN", sk.seqNr + N, sk.ackNr, 0)]

\* ContentWriter.start() and the FIN sent right behind it: every chunk goes
\* out under the socket's running seqNr, none waits for an acknowledgement.
Burst(sk) ==
  [i \in 1 .. N + 1 |->
     IF i <= N THEN MakePacket("DATA", sk.seqNr + i - 1, sk.ackNr, i)
               ELSE MakePacket("FIN", sk.seqNr + N, sk.ackNr, 0)]

AfterBurst(sk) ==
  [sk EXCEPT !.state = "Connected", !.seqNr = @ + N, !.finNr = sk.seqNr + N]

\* A slip of NoteAck: an acknowledgement below the last one is taken for old.
NoteAckAscending(sk, nr) ==
  [sk EXCEPT !.ackNrs = IF @ # <<>> /\ nr <= @[Len(@)] THEN @ ELSE Append(@, nr)]

\* The writer notes an acknowledged number once.
NoteAck(sk, nr) ==
  [sk EXCEPT !.ackNrs = IF nr \in Range(@) THEN @ ELSE Append(@, nr)]

\* compare(): every number in dataNrs was acknowledged, and no other.
AllAcked(sk) == sk.dataNrs = Range(sk.ackNrs)

----------------------------------------------------------------------------
(* Reading.                                                                *)

\* A slip of AttachReader: it is left to the first DATA to make the reader.
AttachReaderLater(sk) == [sk EXCEPT !.packets = <<>>]

\* new ContentReader: whatever an earlier reader held is dropped.
AttachReader(sk) == [sk EXCEPT !.reading = TRUE, !.packets = <<>>]

\* The packets are only ever read through run(), which sorts them by seqNr
\* (stably: equal numbers stay in the order of arrival); the model keeps them
\* in that order.  A packet received twice is held twice.
AddPacket(s, seg) ==
  [i \in 1 .. Len(s) + 1 |->
     IF i <= Len(s) /\ s[i].seqNr <= seg.seqNr THEN s[i]
     ELSE IF i = 1 \/ s[i-1].seqNr <= seg.seqNr THEN seg
     ELSE s[i-1]]

\* run(): the payloads in order of seqNr, whether or not all are there.
Compile(sk) == [i \in 1 .. Len(sk.packets) |-> sk.packets[i].payload]

\* A slip of TakeData: only the packet that is next in order is kept.
TakeDataIfNext(sk, p) ==
  [sk EXCEPT !.state   = "Connected",
             !.nextSeq = p.seqNr + 1,
             !.seqNr   = @ + 1,
             !.ackNr   = p.seqNr,
             !.reading = TRUE,
             !.packets = IF sk.nextSeq # p.seqNr THEN @ ELSE
                         AddPacket(@, [seqNr |-> p.seqNr, payload |-> p.payload]),
             !.ackNrs  = Append(@, p.seqNr)]

\* handleDataPacket, up to the acknowledgement.
TakeData(sk, p) ==
  [sk EXCEPT !.state   = "Connected",
             !.nextSeq = p.seqNr + 1,
             !.seqNr   = @ + 1,
             !.ackNr   = p.seqNr,
             !.reading = TRUE,
             !.packets = AddPacket(@, [seqNr |-> p.seqNr, payload |-> p.payload]),
             !.ackNrs  = Append(@, p.seqNr)]

\* A DATA packet out of order is answered with a SELECTIVE ACK listing every
\* number acknowledged so far.  Its length is one byte: the handler throws
\* when there are more, after the socket has changed and before it answers.
SackOverflows(sk, p) ==
  sk.nextSeq # p.seqNr /\ Len(sk.ackNrs) + 1 > MaxSack

\* The answer to a DATA packet.  The writer never looks at the list, so both
\* kinds of acknowledgement are the same STATE packet here.
DataAck(sk, p) ==
  IF SackOverflows(sk, p) THEN <<>> ELSE <<State(TakeData(sk, p))>>

\* A slip of TakeFin: the number after the FIN's is acknowledged.
TakeFinAcksNext(sk, p) ==
  [sk EXCEPT !.state = "GotFin", !.seqNr = @ + 1, !.ackNr = p.seqNr + 1]

\* handleFinPacket of a socket that has a reader.
TakeFin(sk, p) ==
  [sk EXCEPT !.state = "GotFin", !.seqNr = @ + 1, !.ackNr = p.seqNr]
=============================================================================
