------------------------------ MODULE UtpOffer ------------------------------
(***************************************************************************)
(* The uTP stream that follows an OFFER and its ACCEPT: the node that      *)
(* offered the content (OFFER_WRITE) opens the connection and writes, the  *)
(* node that accepted it (ACCEPT_READ) waits for the SYN and reads.        *)
(*                                                                         *)
(* A handler runs to its end before the next packet is looked at: all it   *)
(* awaits are promises that are already settled.  A handler that throws    *)
(* leaves the rejection of handleUtpPacket to nobody; `thrown' records why.*)
(***************************************************************************)
EXTENDS UtpNetwork

VARIABLES
  writer, reader,   \* the two sockets
  delivered,        \* the contents the reader handed on with 'Stream', in order
  thrown            \* why a packet handler has thrown

vars == <<net, writer, reader, delivered, thrown>>

TypeOK ==
  /\ NetTypeOK
  /\ writer \in Socket
  /\ reader \in Socket
  /\ delivered \in Seq(Seq(0..N))
  /\ thrown \subseteq {"sackLength", "ackNrRange"}

\* The reader's request was opened before the ACCEPT was sent.  The writer's
\* is there from OpenWriter on; until then its record is a placeholder.
Init ==
  /\ NetInit
  /\ writer = NewSocket("null", 1, 0, Undefined)
  /\ \E nr \in RandNrs : reader = NewSocket("null", nr, 0, 1)
  /\ delivered = <<>>
  /\ thrown = {}

\* handleNewRequest(OFFER_WRITE), once the ACCEPT is there.
OpenWriter ==
  \E nr \in RandNrs :
    LET sk == AttachWriter(NewSocket("SynSent", 1, nr, Undefined), 2) IN
    /\ writer.state = "null"
    /\ writer' = sk
    /\ Send("writer", <<Syn(sk)>>)
    /\ UNCHANGED <<reader, delivered, thrown>>

----------------------------------------------------------------------------
(* The reading end.                                                        *)

\* Any SYN starts the reader anew, also one that arrives for the second time.
ReaderSyn(i, keep) ==
  LET p  == chan["reader"][i]
      sk == AttachReader([reader EXCEPT !.ackNr = p.seqNr, !.nextSeq = 2]) IN
  /\ p.type = "SYN"
  /\ reader' = [sk EXCEPT !.ackNr = @ + 1]
  /\ Deliver("reader", i, keep, <<State(sk)>>)
  /\ UNCHANGED <<writer, delivered, thrown>>

ReaderData(i, keep) ==
  LET p == chan["reader"][i] IN
  /\ p.type = "DATA"
  /\ reader' = TakeData(reader, p)
  /\ Deliver("reader", i, keep, DataAck(reader, p))
  /\ thrown' = IF SackOverflows(reader, p)
               THEN thrown \cup {"sackLength"} ELSE thrown
  /\ UNCHANGED <<writer, delivered>>

\* A slip of ReaderFin: the FIN is acknowledged also when chunks are missing
\* and nothing is handed on.
ReaderFinIfWhole(i, keep) ==
  LET p == chan["reader"][i] IN
  /\ p.type = "FIN"
  /\ reader' = TakeFin(reader, p)
  /\ Deliver("reader", i, keep, <<State(TakeFin(reader, p))>>)
  /\ delivered' = IF Compile(reader) = Content
                  THEN Append(delivered, Content) ELSE delivered
  /\ UNCHANGED <<writer, thrown>>

\* Whatever the reader holds is handed on, and the FIN acknowledged.
ReaderFin(i, keep) ==
  LET p == chan["reader"][i] IN
  /\ p.type = "FIN"
  /\ reader' = TakeFin(reader, p)
  /\ Deliver("reader", i, keep, <<State(TakeFin(reader, p))>>)
  /\ delivered' = Append(delivered, Compile(reader))
  /\ UNCHANGED <<writer, thrown>>

----------------------------------------------------------------------------
(* The writing end.  Every packet it is sent is a STATE packet.            *)

\* A slip of WriterSynAck: every STATE packet is taken for the SYN-ACK.
WriterSynAckAlways(i, keep) ==
  LET p  == chan["writer"][i]
      sk == [writer EXCEPT !.state = "Connected", !.seqNr = 2,
                           !.ackNr = p.seqNr - 1, !.nextSeq = p.seqNr + 1]
      ok == sk.ackNr >= 0 IN
  /\ writer' = IF ok THEN AfterBurst(sk) ELSE sk
  /\ Deliver("writer", i, keep, IF ok THEN Burst(sk) ELSE <<>>)
  /\ thrown' = IF ok THEN thrown ELSE thrown \cup {"ackNrRange"}
  /\ UNCHANGED <<reader, delivered>>

\* The first STATE is taken for the SYN-ACK: all DATA and the FIN go out.
\* The ackNr they carry is the reader's number less one; if that is -1, the
\* first of them cannot be encoded, and the handler throws halfway.
WriterSynAck(i, keep) ==
  LET p  == chan["writer"][i]
      sk == [writer EXCEPT !.state = "Connected", !.seqNr = 2,
                           !.ackNr = p.seqNr - 1, !.nextSeq = p.seqNr + 1]
      ok == sk.ackNr >= 0 IN
  /\ writer.seqNr = 1
  /\ writer' = IF ok THEN AfterBurst(sk) ELSE sk
  /\ Deliver("writer", i, keep, IF ok THEN Burst(sk) ELSE <<>>)
  /\ thrown' = IF ok THEN thrown ELSE thrown \cup {"ackNrRange"}
  /\ UNCHANGED <<reader, delivered>>

\* The acknowledgement of the FIN is noticed, and changes nothing: the branch
\* of the socket's own handleStatePacket that would close it is not reached.
WriterFinAck(i, keep) ==
  /\ writer.seqNr # 1
  /\ chan["writer"][i].ackNr = writer.finNr
  /\ Deliver("writer", i, keep, <<>>)
  /\ UNCHANGED <<writer, reader, delivered, thrown>>

\* A slip of WriterDataAck: the number of the SYN is noted as a chunk's.
WriterDataAckAny(i, keep) ==
  LET p  == chan["writer"][i]
      sk == [writer EXCEPT !.state = "Connected", !.nextSeq = p.seqNr + 1] IN
  /\ writer.seqNr # 1
  /\ p.ackNr # writer.finNr
  /\ writer' = NoteAck(sk, p.ackNr)
  /\ Deliver("writer", i, keep, <<>>)
  /\ UNCHANGED <<reader, delivered, thrown>>

\* Any other STATE packet acknowledges a chunk, if its number can be one's.
WriterDataAck(i, keep) ==
  LET p  == chan["writer"][i]
      sk == [writer EXCEPT !.state = "Connected", !.nextSeq = p.seqNr + 1] IN
  /\ writer.seqNr # 1
  /\ p.ackNr # writer.finNr
  /\ writer' = IF p.ackNr > 1 THEN NoteAck(sk, p.ackNr) ELSE sk
  /\ Deliver("writer", i, keep, <<>>)
  /\ UNCHANGED <<reader, delivered, thrown>>

----------------------------------------------------------------------------
ReaderStep ==
  \E i \in 1 .. Len(chan["reader"]), keep \in BOOLEAN :
    ReaderSyn(i, keep) \/ ReaderData(i, keep) \/ ReaderFin(i, keep)

WriterStep ==
  \E i \in 1 .. Len(chan["writer"]), keep \in BOOLEAN :
    WriterSynAck(i, keep) \/ WriterFinAck(i, keep) \/ WriterDataAck(i, keep)

LoseStep ==
  /\ \E r \in Roles : Lose(r)
  /\ UNCHANGED <<writer, reader, delivered, thrown>>

Next == OpenWriter \/ ReaderStep \/ WriterStep \/ LoseStep

Spec == Init /\ [][Next]_vars

\* A packet in flight is eventually delivered, unless it is lost.
FairSpec ==
  Spec /\ WF_vars(OpenWriter) /\ WF_vars(ReaderStep) /\ WF_vars(WriterStep)
----------------------------------------------------------------------------
(* Properties.                                                             *)

\* No handler of this stream is ever given a packet it throws at for what it
\* is: the reader gets no STATE and no FIN before it has a ContentReader, the
\* writer gets STATE packets only - whatever the network does to them.
HandlersAccept ==
  /\ \A p \in InFlight("reader") :
       p.type # "STATE" /\ (p.type = "FIN" => reader.reading)
  /\ \A p \in InFlight("writer") : p.type = "STATE"

\* What the writer counts as acknowledged is the number of a DATA packet that
\* it numbered and that the reader received; neither the SYN-ACK nor the
\* acknowledgement of the FIN gets into ackNrs, in whatever order they come.
AckedIsReceived ==
  Range(writer.ackNrs) \subseteq writer.dataNrs \cap Range(reader.ackNrs)

\* If the acknowledgement of the FIN is on its way to the writer, the reader
\* has handed on a content.
FinAckMeansDelivered ==
  (\E p \in InFlight("writer") : p.ackNr = writer.finNr) => delivered # <<>>

\* Nothing is sent again and no timer runs.  Still, unless a packet is lost or a
\* handler throws, the stream gets through: the content is handed on ...
EventuallyDelivered == <>(delivered # <<>> \/ lost > 0 \/ thrown # {})

\* ... and the writer comes to see every chunk acknowledged, also when packets
\* are overtaken or doubled.
EventuallyAllAcked == <>[](AllAcked(writer) \/ lost > 0 \/ thrown # {})

\* The stream implements what is promised about the content: that it is handed
\* on once, and once more for every packet that arrives twice at most - a
\* second SYN-ACK does not start a second burst -, that its chunks are in their
\* order, and that none is missing unless a packet was lost or overtaken.
Transfer == INSTANCE ContentTransfer WITH
  N <- N, MaxLost <- MaxLost, MaxDups <- MaxDups, MaxOvertaken <- MaxOvertaken,
  delivered <- delivered, lost <- lost, dups <- dups, overtaken <- overtaken
TransferSpec == Transfer!Spec

----------------------------------------------------------------------------
(* Why HandlersAccept, AckedIsReceived and FinAckMeansDelivered hold: an    *)
(* invariant that every step preserves, whatever the network does.         *)

\* The writer's number tells how far it has come: 1 until the SYN-ACK, N + 2
\* after the burst, 2 for ever if the handler threw in between.
WriterPhase ==
  /\ writer.seqNr \in {1, 2, N + 2}
  /\ writer.finNr = IF writer.seqNr = N + 2 THEN N + 2 ELSE Undefined
  /\ writer.dataNrs = IF writer.state = "null" THEN {} ELSE 2 .. N + 1
  /\ writer.state = "null" =>
       /\ writer.seqNr = 1
       /\ InFlight("reader") = {} /\ InFlight("writer") = {}

\* DATA and FIN are on their way under the numbers of the one burst only.
ToReader ==
  \A p \in InFlight("reader") :
    \/ p.type = "SYN" /\ p.seqNr = 1
    \/ p.type = "DATA" /\ p.seqNr \in 2 .. N + 1 /\ writer.seqNr = N + 2
    \/ p.type = "FIN" /\ p.seqNr = N + 2 /\ writer.seqNr = N + 2

\* The writer is sent acknowledgements of the SYN, of DATA received, and of a
\* FIN whose content was handed on.
ToWriter ==
  \A p \in InFlight("writer") :
    /\ p.type = "STATE"
    /\ reader.reading
    /\ \/ p.ackNr = 1
       \/ p.ackNr \in Range(reader.ackNrs)
       \/ p.ackNr = N + 2 /\ writer.seqNr = N + 2 /\ delivered # <<>>

AckNrs ==
  /\ writer.seqNr # 1 => reader.reading
  /\ writer.seqNr # N + 2 => Range(reader.ackNrs) = {}
  /\ Range(reader.ackNrs) \subseteq 2 .. N + 1
  /\ Range(writer.ackNrs) \subseteq Range(reader.ackNrs)

AckInv == WriterPhase /\ ToReader /\ ToWriter /\ AckNrs
----------------------------------------------------------------------------
(* Why the stream implements ContentTransfer: what is in flight to the      *)
(* reader and what it holds, on top of AckInv.                              *)

\* No packet to the reader is sent twice: the one SYN, the one burst.
NoTwins ==
  \A j, k \in 1 .. Len(chan["reader"]) :
    chan["reader"][j].seqNr = chan["reader"][k].seqNr => j = k

\* DATA carries the chunk of its number, and the reader holds such DATA only.
ChunksMatch ==
  /\ \A p \in InFlight("reader") : p.type = "DATA" => p.payload = p.seqNr - 1
  /\ \A k \in 1 .. Len(reader.packets) :
       /\ reader.packets[k].seqNr \in 2 .. N + 1
       /\ reader.packets[k].payload = reader.packets[k].seqNr - 1
  /\ writer.seqNr # N + 2 => reader.packets = <<>> /\ delivered = <<>>

\* Every content but the first was handed on for a FIN that came before.
HandedOnPerFin ==
  /\ Len(delivered) <= dups + 1
  /\ (\E p \in InFlight("reader") : p.type = "FIN") => Len(delivered) <= dups

\* Without a duplicate the reader is started before the burst and once, and
\* each chunk is either in flight to it or held by it, in its place.
EachChunkOnce ==
  dups = 0 =>
    /\ \A p \in InFlight("reader") :
         /\ p.type = "SYN" => writer.seqNr = 1 /\ InFlight("writer") = {}
         /\ p.type = "DATA" => p.seqNr \notin Held(reader)
    /\ \A j, k \in 1 .. Len(reader.packets) :
         j < k => reader.packets[j].seqNr < reader.packets[k].seqNr

\* Without any disturbance every chunk is held or in front of the FIN.
WholeBeforeFin ==
  lost = 0 /\ dups = 0 /\ overtaken = 0 =>
    \A k \in 1 .. Len(chan["reader"]) : chan["reader"][k].type = "FIN" =>
      \A nr \in 2 .. N + 1 :
        \/ nr \in Held(reader)
        \/ \E j \in 1 .. k - 1 : chan["reader"][j].seqNr = nr

TransferInv ==
  NoTwins /\ ChunksMatch /\ HandedOnPerFin /\ EachChunkOnce /\ WholeBeforeFin
=============================================================================
