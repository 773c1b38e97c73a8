------------------------------- MODULE UtpFind -------------------------------
(***************************************************************************)
(* The uTP stream behind a CONTENT response with a connection id: the node *)
(* that asked for the content (FINDCONTENT_READ) opens the connection and  *)
(* reads, the node that has it (FOUNDCONTENT_WRITE) waits for the SYN and  *)
(* writes.  The answer to the SYN is the SYN-ACK with all DATA and the FIN *)
(* right behind it, so that all of them are in flight together.            *)
(***************************************************************************)
EXTENDS UtpNetwork, FiniteSets

VARIABLES
  writer, reader,   \* the two sockets
  delivered,        \* the contents the reader handed on with 'Stream', in order
  thrown            \* why a packet handler has thrown

vars == <<net, writer, reader, delivered, thrown>>

TypeOK ==
  /\ NetTypeOK
  /\ writer \in Socket
  /\ reader \in Socket
  /\ delivered \in Seq(Seq(0..N))
  /\ thrown \subseteq {"sackLength", "noReader"}

\* The writer's request was opened before its id was sent.  The reader's is
\* there from OpenReader on; until then its record is a placeholder.
Init ==
  /\ NetInit
  /\ \E nr \in RandNrs : writer = NewSocket("null", nr, 0, 1)
  /\ reader = NewSocket("null", 0, 0, Undefined)
  /\ delivered = <<>>
  /\ thrown = {}

\* handleNewRequest(FINDCONTENT_READ), once the connection id is there.
OpenReader ==
  \E nr \in RandNrs :
    LET sk == NewSocket("SynSent", 0, nr, Undefined) IN
    /\ reader.state = "null"
    /\ reader' = sk
    /\ Send("reader", <<Syn(sk)>>)
    /\ UNCHANGED <<writer, delivered, thrown>>

----------------------------------------------------------------------------
(* The writing end.                                                        *)

\* A slip of WriterSyn: the socket is advanced before the SYN-ACK is made.
WriterSynAcksNext(i, keep) ==
  \E nr \in RandNrs :
    LET p    == chan["writer"][i]
        ack  == [writer EXCEPT !.ackNr = p.seqNr, !.seqNr = nr]
        sk   == [AttachWriter(ack, nr) EXCEPT !.ackNr = @ + 1, !.seqNr = nr + 1,
                                              !.nextSeq = nr + 2] IN
    /\ p.type = "SYN"
    /\ writer' = AfterBurst(sk)
    /\ Deliver("writer", i, keep, <<State(sk)>> \o Burst(sk))
    /\ UNCHANGED <<reader, delivered, thrown>>

\* Every SYN picks a new random number nr and sends everything from there.
\* The ContentWriter is given nr to number its chunks from, the socket goes
\* on with nr + 1.
WriterSyn(i, keep) ==
  \E nr \in RandNrs :
    LET p    == chan["writer"][i]
        ack  == [writer EXCEPT !.ackNr = p.seqNr, !.seqNr = nr]
        sk   == [AttachWriter(ack, nr) EXCEPT !.ackNr = @ + 1, !.seqNr = nr + 1,
                                              !.nextSeq = nr + 2] IN
    /\ p.type = "SYN"
    /\ writer' = AfterBurst(sk)
    /\ Deliver("writer", i, keep, <<State(ack)>> \o Burst(sk))
    /\ UNCHANGED <<reader, delivered, thrown>>

\* Any acknowledgement is noted: the SYN-ACK-ACK's, a chunk's, the FIN's.
WriterState(i, keep) ==
  LET p == chan["writer"][i] IN
  /\ p.type = "STATE"
  /\ writer' = NoteAck(writer, p.ackNr)
  /\ Deliver("writer", i, keep, <<>>)
  /\ UNCHANGED <<reader, delivered, thrown>>

----------------------------------------------------------------------------
(* The reading end.                                                        *)

\* The SYN-ACK.  It starts a new reader, also when DATA overtook it and is
\* held by the one there is.
ReaderSynAck(i, keep) ==
  LET p  == chan["reader"][i]
      sk == AttachReader([reader EXCEPT !.ackNr = p.seqNr, !.seqNr = 2,
                                        !.nextSeq = p.seqNr + 1]) IN
  /\ p.type = "STATE"
  /\ p.ackNr = 1
  /\ reader' = sk
  /\ Deliver("reader", i, keep, <<State(sk)>>)
  /\ UNCHANGED <<writer, delivered, thrown>>

ReaderData(i, keep) ==
  LET p == chan["reader"][i] IN
  /\ p.type = "DATA"
  /\ reader' = TakeData(reader, p)
  /\ Deliver("reader", i, keep, DataAck(reader, p))
  /\ thrown' = IF SackOverflows(reader, p)
               THEN thrown \cup {"sackLength"} ELSE thrown
  /\ UNCHANGED <<writer, delivered>>

\* Whatever the reader holds is handed on, and the FIN acknowledged.
ReaderFin(i, keep) ==
  LET p == chan["reader"][i] IN
  /\ p.type = "FIN"
  /\ reader.reading
  /\ reader' = TakeFin(reader, p)
  /\ Deliver("reader", i, keep, <<State(TakeFin(reader, p))>>)
  /\ delivered' = Append(delivered, Compile(reader))
  /\ UNCHANGED <<writer, thrown>>

\* A FIN that is the first packet of all to arrive finds no reader to run.
ReaderFinThrows(i, keep) ==
  LET p == chan["reader"][i] IN
  /\ p.type = "FIN"
  /\ ~ reader.reading
  /\ reader' = [reader EXCEPT !.state = "GotFin"]
  /\ Deliver("reader", i, keep, <<>>)
  /\ thrown' = thrown \cup {"noReader"}
  /\ UNCHANGED <<writer, delivered>>

----------------------------------------------------------------------------
WriterStep ==
  \E i \in 1 .. Len(chan["writer"]), keep \in BOOLEAN :
    WriterSyn(i, keep) \/ WriterState(i, keep)

ReaderStep ==
  \E i \in 1 .. Len(chan["reader"]), keep \in BOOLEAN :
    \/ ReaderSynAck(i, keep) \/ ReaderData(i, keep)
    \/ ReaderFin(i, keep) \/ ReaderFinThrows(i, keep)

LoseStep ==
  /\ \E r \in Roles : Lose(r)
  /\ UNCHANGED <<writer, reader, delivered, thrown>>

Next == OpenReader \/ WriterStep \/ ReaderStep \/ LoseStep

Spec == Init /\ [][Next]_vars

\* A packet in flight is eventually delivered, unless it is lost.
FairSpec ==
  Spec /\ WF_vars(OpenReader) /\ WF_vars(ReaderStep) /\ WF_vars(WriterStep)

----------------------------------------------------------------------------
(* Properties.                                                             *)

\* The numbers under which a burst was sent lie one above the numbers the
\* ContentWriter gave its chunks; the FIN's is the highest.
BurstNrs == (writer.finNr - N) .. writer.finNr

\* The reader throws at a packet for what it is only when a FIN comes before
\* everything else, which takes a loss or an overtaking; it never gets a
\* STATE packet other than the SYN-ACK.
ThrowsOnlyAtEarlyFin ==
  /\ \A p \in InFlight("reader") : p.type = "STATE" => p.ackNr = 1
  /\ "noReader" \in thrown => lost + overtaken > 0

\* Unless a packet arrived twice, what the writer notes as acknowledged is
\* the number of its SYN-ACK, of a DATA packet or of the FIN of its one burst.
AckedWasSent ==
  dups = 0 /\ writer.ackNrs # <<>> =>
    Range(writer.ackNrs) \subseteq {writer.finNr - N - 1} \cup BurstNrs

\* Unless a packet arrived twice, a chunk the writer knows to be acknowledged
\* is still held - provided no packet overtook the SYN-ACK.
AckedIsHeld ==
  dups = 0 /\ overtaken = 0 =>
    Range(writer.ackNrs) \cap ((writer.finNr - N) .. (writer.finNr - 1))
      \subseteq Held(reader)

\* As long as packets stay in order, none is lost and no handler throws, the
\* content is handed on.
EventuallyDelivered ==
  <>(delivered # <<>> \/ lost > 0 \/ overtaken > 0 \/ thrown # {})

\* The stream implements what is promised about the content: how often it is
\* handed on, in which order its chunks are, and when some may be missing.
Transfer == INSTANCE ContentTransfer WITH
  N <- N, MaxLost <- MaxLost, MaxDups <- MaxDups, MaxOvertaken <- MaxOvertaken,
  delivered <- delivered, lost <- lost, dups <- dups, overtaken <- overtaken
TransferSpec == Transfer!Spec

----------------------------------------------------------------------------
(* Why ThrowsOnlyAtEarlyFin and AckedWasSent hold.                          *)

\* Until the reader has opened the connection nothing is on its way.
NothingBeforeOpen ==
  reader.state = "null" => \A r \in Roles : chan[r] = <<>>

\* The SYN is numbered 1, and the SYN-ACK acknowledges it.
SynNumbers ==
  /\ \A p \in InFlight("writer") : p.type = "SYN" => p.seqNr = 1
  /\ \A p \in InFlight("reader") : p.type = "STATE" => p.ackNr = 1

\* As long as all arrives in order the SYN-ACK is the first to come.
SynAckComesFirst ==
  lost = 0 /\ overtaken = 0 =>
    \/ reader.reading \/ chan["reader"] = <<>> \/ chan["reader"][1].type = "STATE"

EarlyFinInv ==
  NothingBeforeOpen /\ SynNumbers /\ SynAckComesFirst /\ ThrowsOnlyAtEarlyFin

\* Without duplicates one SYN is on its way until the burst, and none after.
AtMostOneSyn(s) ==
  \A i, j \in 1 .. Len(s) : s[i].type = "SYN" /\ s[j].type = "SYN" => i = j

OneSyn ==
  /\ AtMostOneSyn(chan["writer"])
  /\ writer.finNr # Undefined => \A p \in InFlight("writer") : p.type # "SYN"

\* Before the burst there is nothing to acknowledge.
NoAckBeforeBurst ==
  writer.finNr = Undefined =>
    /\ InFlight("reader") = {} /\ Range(writer.ackNrs) = {}
    /\ \A p \in InFlight("writer") : p.type # "STATE"

\* After it all numbers on their way, both ways, are those of the burst.
OnlyBurstNrs ==
  writer.finNr # Undefined =>
    LET sent == {writer.finNr - N - 1} \cup BurstNrs IN
    /\ \A p \in InFlight("reader") : p.seqNr \in sent
    /\ \A p \in InFlight("writer") : p.type = "STATE" => p.ackNr \in sent
    /\ Range(writer.ackNrs) \subseteq sent

OneBurstInv ==
  /\ reader.state = "null" => writer.finNr = Undefined
  /\ dups = 0 => OneSyn /\ NoAckBeforeBurst /\ OnlyBurstNrs
----------------------------------------------------------------------------
(* Why the stream implements ContentTransfer and AckedIsHeld holds.         *)

\* Every SYN may start a burst, and every burst may get its content handed on;
\* only a packet that arrives twice makes more of them.
Places(s, type) == {k \in 1 .. Len(s) : s[k].type = type}

HandedOnPerFin ==
  Len(delivered) + Cardinality(Places(chan["reader"], "FIN"))
                 + Cardinality(Places(chan["writer"], "SYN"))
    <= dups + (IF reader.state = "null" THEN 0 ELSE 1)

\* Whatever is read is a chunk.
OnlyChunks ==
  /\ \A p \in InFlight("reader") : p.type = "DATA" => p.payload \in Chunks
  /\ \A k \in 1 .. Len(reader.packets) : reader.packets[k].payload \in Chunks

\* Without a duplicate no number is on its way to the reader twice, each tells
\* the type and the chunk, and each chunk is either in flight or held.
First == writer.finNr - N - 1

NoTwins ==
  \A j, k \in 1 .. Len(chan["reader"]) :
    chan["reader"][j].seqNr = chan["reader"][k].seqNr => j = k

EachChunkOnce ==
  /\ writer.finNr = Undefined => reader.packets = <<>>
  /\ \A p \in InFlight("reader") :
       /\ p.type = "STATE" => p.seqNr = First
       /\ p.type = "DATA" => p.payload = p.seqNr - First /\ p.seqNr \notin Held(reader)
       /\ p.type = "FIN" => p.seqNr = writer.finNr
  /\ \A k \in 1 .. Len(reader.packets) :
       reader.packets[k].payload = reader.packets[k].seqNr - First
  /\ \A j, k \in 1 .. Len(reader.packets) :
       j < k => reader.packets[j].seqNr < reader.packets[k].seqNr

\* Without an overtaking either the SYN-ACK comes before all else, and what is
\* acknowledged since is held.
SynAckFirst ==
  \A k \in 1 .. Len(chan["reader"]) : chan["reader"][k].type = "STATE" =>
    /\ k = 1 /\ reader.packets = <<>> /\ Range(writer.ackNrs) = {}
    /\ \A p \in InFlight("writer") : p.type # "STATE"

AcksAreHeld ==
  /\ \A p \in InFlight("writer") :
       p.type = "STATE" /\ p.ackNr \in First + 1 .. First + N => p.ackNr \in Held(reader)
  /\ Range(writer.ackNrs) \cap (First + 1 .. First + N) \subseteq Held(reader)

\* Without a loss either every chunk is held or in front of the FIN.
WholeBeforeFin ==
  \A k \in 1 .. Len(chan["reader"]) : chan["reader"][k].type = "FIN" =>
    \A nr \in First + 1 .. First + N :
      \/ nr \in Held(reader)
      \/ \E j \in 1 .. k - 1 : chan["reader"][j].seqNr = nr

OnceInv ==
  dups = 0 =>
    /\ NoTwins /\ EachChunkOnce
    /\ overtaken = 0 => SynAckFirst /\ AcksAreHeld
    /\ overtaken = 0 /\ lost = 0 => WholeBeforeFin

TransferInv == HandedOnPerFin /\ OnlyChunks /\ OnceInv
=============================================================================
