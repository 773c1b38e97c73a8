------------------------- MODULE HistoryStoreProofs -------------------------
(***************************************************************************)
(* Proofs about the history store, for any headers and snapshots, any size *)
(* of an epoch and any order in which the database finishes puts, but for  *)
(* EpochsAreStoredInOrder and HeadersMissingByCrashAlways, about a         *)
(* database that keeps their order; and, at the end, about the calls of    *)
(* the JSON-RPC server on top of it.                                       *)
(***************************************************************************)
EXTENDS RpcServer, ListLemmas, FiniteSetTheorems

----------------------------------------------------------------------------
(* Accumulators.                                                           *)

LEMMA HeightType == ASSUME NEW a \in Accumulator PROVE Height(a) \in Int
  <1>1. Len(a.epochs) \in Nat /\ Len(a.current) \in Nat
    BY DEF Accumulator
  <1> QED  BY <1>1, AccumulatorAssumption DEF Height

LEMMA EmptyType == Empty \in Accumulator
  BY DEF Empty, Accumulator

\* What the accumulator is after a header.
LEMMA UpdateProperties ==
  ASSUME NEW a \in Accumulator, Len(a.current) \in 0..EpochSize, NEW h \in Headers
  PROVE  LET u == Update(a, h) IN
         /\ u \in Accumulator
         /\ NewRecord(h, LastTd(a)) \in Record
         /\ IsFull(a) =>
              u.epochs = Append(a.epochs, a.current) /\ u.current = <<NewRecord(h, LastTd(a))>>
         /\ ~ IsFull(a) =>
              u.epochs = a.epochs /\ u.current = Append(a.current, NewRecord(h, LastTd(a)))
  <1>1. a.epochs \in Seq(Seq(Record)) /\ a.current \in Seq(Record)
        /\ a = [epochs |-> a.epochs, current |-> a.current]
    BY DEF Accumulator
  <1>2. LastTd(a) \in Nat
    <2>1. CASE a.current = <<>>
      BY <2>1 DEF LastTd
    <2>2. CASE a.current # <<>>
      <3>1. a.current[Len(a.current)] \in Record
        BY <1>1, <2>2
      <3> QED  BY <2>2, <3>1 DEF LastTd, Last, Record
    <2> QED  BY <2>1, <2>2
  <1>3. NewRecord(h, LastTd(a)) \in Record
    BY <1>2, AccumulatorAssumption DEF NewRecord, Record
  <1> DEFINE r == NewRecord(h, LastTd(a))
  <1> HIDE DEF r
  <1>4. CASE IsFull(a)
    <2>1. Update(a, h) = [epochs |-> Append(a.epochs, a.current), current |-> <<r>>]
      BY <1>4 DEF Update, r
    <2>2. Append(a.epochs, a.current) \in Seq(Seq(Record)) /\ <<r>> \in Seq(Record)
      BY <1>1, <1>3 DEF r
    <2> QED  BY <1>3, <1>4, <2>1, <2>2 DEF Accumulator, r
  <1>5. CASE ~ IsFull(a)
    <2>1. Update(a, h) = [a EXCEPT !.current = Append(@, r)]
      BY <1>5 DEF Update, r
    <2>2. Update(a, h) = [epochs |-> a.epochs, current |-> Append(a.current, r)]
      BY <1>1, <2>1
    <2>3. Append(a.current, r) \in Seq(Record)
      BY <1>1, <1>3 DEF r
    <2> QED  BY <1>1, <1>3, <1>5, <2>2, <2>3 DEF Accumulator, r
  <1> QED  BY <1>4, <1>5

\* The genesis alone is a chain.
LEMMA GenesisIsChain == IsChain(GenesisAccumulator)
  <1> DEFINE u == Update(Empty, Genesis)
             r == NewRecord(Genesis, 0)
  <1>1. Len(Empty.current) = 0 /\ Empty.epochs = <<>> /\ Empty.current = <<>>
        /\ LastTd(Empty) = 0 /\ ~ IsFull(Empty)
    BY AccumulatorAssumption DEF Empty, LastTd, IsFull
  <1>2. u \in Accumulator /\ r \in Record /\ u.epochs = <<>> /\ u.current = Append(<<>>, r)
    <2>1. Len(Empty.current) \in 0..EpochSize
      BY <1>1, AccumulatorAssumption
    <2> QED  BY <1>1, <2>1, EmptyType, UpdateProperties, AccumulatorAssumption
  <1>3. u.current = <<r>> /\ Len(u.current) = 1 /\ Len(u.epochs) = 0 /\ u.current[1] = r
    BY <1>2
  <1> HIDE DEF u, r
  <1>4. WellFormed(u)
    BY <1>2, <1>3, AccumulatorAssumption DEF WellFormed
  <1>5. \A e \in 1..EpochCount(u) : e = 1 /\ Epoch(u, e) = u.current
    BY <1>3 DEF EpochCount, Epoch
  <1>6. Epoch(u, 1)[1] = r
    BY <1>3 DEF Epoch
  <1>7. LinkedInEpochs(u) /\ LinkedAcrossEpochs(u)
    BY <1>3, <1>5 DEF LinkedInEpochs, LinkedAcrossEpochs
  <1> QED  BY <1>4, <1>6, <1>7 DEF IsChain, BeginsAtGenesis, GenesisAccumulator, u, r

\* The next header continues the chain, whether it seals an epoch or not.
LEMMA NextContinues ==
  ASSUME NEW a, IsChain(a), NEW h \in Headers,
         Number[h] = Height(a) + 1, Parent[h] = Last(a).hash
  PROVE  LET r == NewRecord(h, LastTd(a)) IN
         /\ Continues(Last(a), r, Len(a.epochs) * EpochSize + Len(a.current))
         /\ Len(a.epochs) * EpochSize \in Nat
  <1>1. a.epochs \in Seq(Seq(Record)) /\ a.current \in Seq(Record)
        /\ Len(a.current) \in 1..EpochSize
    BY DEF IsChain, WellFormed, Accumulator
  <1>2. LastTd(a) = Last(a).td
    <2>1. a.current # <<>>
      BY <1>1
    <2> QED  BY <2>1 DEF LastTd
  <1>3. NewRecord(h, LastTd(a)).hash = h
        /\ NewRecord(h, LastTd(a)).td = Last(a).td + Difficulty[h]
    BY <1>2 DEF NewRecord
  <1>4. Len(a.epochs) * EpochSize \in Nat /\ Len(a.current) \in Nat
    BY <1>1, AccumulatorAssumption
  <1>5. Height(a) + 1 = Len(a.epochs) * EpochSize + Len(a.current)
    BY <1>4 DEF Height
  <1> QED  BY <1>3, <1>4, <1>5 DEF Continues

LEMMA UpdateKeepsChain ==
  ASSUME NEW a, IsChain(a), NEW h \in Headers,
         Number[h] = Height(a) + 1, Parent[h] = Last(a).hash
  PROVE  IsChain(Update(a, h)) /\ Height(Update(a, h)) = Height(a) + 1
  <1> DEFINE u == Update(a, h)
             r == NewRecord(h, LastTd(a))
             k == Len(a.epochs)
             n == Len(a.current)
  <1>1. /\ a \in Accumulator /\ a.epochs \in Seq(Seq(Record)) /\ a.current \in Seq(Record)
        /\ k \in Nat /\ n \in 1..EpochSize
        /\ EpochSize \in Nat \ {0}
    BY AccumulatorAssumption DEF IsChain, WellFormed, Accumulator
  <1>2. /\ u \in Accumulator /\ r \in Record
        /\ IsFull(a) => u.epochs = Append(a.epochs, a.current) /\ u.current = <<r>>
        /\ ~ IsFull(a) => u.epochs = a.epochs /\ u.current = Append(a.current, r)
    <2>1. n \in 0..EpochSize
      BY <1>1
    <2> QED  BY <1>1, <2>1, UpdateProperties
  <1>3. Continues(a.current[n], r, k * EpochSize + n) /\ k * EpochSize \in Nat
    BY NextContinues DEF Last
  <1>4. /\ \A i \in 1..k : Len(a.epochs[i]) = EpochSize
        /\ Epoch(a, 1)[1] = NewRecord(Genesis, 0)
        /\ LinkedInEpochs(a) /\ LinkedAcrossEpochs(a)
    BY DEF IsChain, WellFormed, BeginsAtGenesis
  <1> HIDE DEF u, r
  <1>5. CASE ~ IsFull(a)
    <2>1. /\ u.epochs = a.epochs /\ u.current = Append(a.current, r)
          /\ Len(u.current) = n + 1 /\ n + 1 \in 1..EpochSize
          /\ u.current[n + 1] = r
          /\ \A i \in 1..n : u.current[i] = a.current[i]
      <3>1. n + 1 \in 1..EpochSize
        <4>1. n # EpochSize
          BY <1>5 DEF IsFull
        <4> QED  BY <1>1, <4>1
      <3>2. u.epochs = a.epochs /\ u.current = Append(a.current, r)
        BY <1>2, <1>5
      <3>3. /\ Len(Append(a.current, r)) = n + 1 /\ Append(a.current, r)[n + 1] = r
            /\ \A i \in 1..n : Append(a.current, r)[i] = a.current[i]
        BY <1>1, <1>2
      <3> QED  BY <3>1, <3>2, <3>3
    <2>2. WellFormed(u)
      BY <1>2, <1>4, <2>1 DEF WellFormed
    <2>3. /\ EpochCount(u) = k + 1 /\ EpochCount(a) = k + 1
          /\ \A e \in 1..k : Epoch(u, e) = Epoch(a, e)
          /\ Epoch(u, k + 1) = u.current /\ Epoch(a, k + 1) = a.current
      BY <1>1, <2>1 DEF EpochCount, Epoch
    <2>4. Epoch(u, 1)[1] = Epoch(a, 1)[1]
      <3>1. CASE k = 0
        <4>1. k + 1 = 1 /\ 1 \in 1..n
          BY <1>1, <3>1
        <4>2. Epoch(u, 1) = u.current /\ Epoch(a, 1) = a.current
          BY <2>3, <4>1
        <4> QED  BY <2>1, <4>1, <4>2
      <3>2. CASE k # 0
        BY <1>1, <2>3, <3>2
      <3> QED  BY <3>1, <3>2
    <2>5. LinkedInEpochs(u)
      <3>1. SUFFICES ASSUME NEW e \in 1..(k + 1), NEW i \in 2..Len(Epoch(u, e))
                     PROVE  Continues(Epoch(u, e)[i - 1], Epoch(u, e)[i],
                                      (e - 1) * EpochSize + i - 1)
        BY <2>3 DEF LinkedInEpochs
      <3>2. CASE e \in 1..k
        <4>1. Epoch(u, e) = Epoch(a, e) /\ e \in 1..EpochCount(a)
          BY <1>1, <2>3, <3>2
        <4> QED  BY <1>4, <4>1 DEF LinkedInEpochs
      <3>3. CASE e = k + 1
        <4>1. i \in 2..(n + 1) /\ Epoch(u, e) = u.current /\ Epoch(a, e) = a.current
          BY <2>1, <2>3, <3>3
        <4>2. CASE i \in 2..n
          <5>1. u.current[i - 1] = a.current[i - 1] /\ u.current[i] = a.current[i]
            BY <1>1, <2>1, <4>2
          <5>2. e \in 1..EpochCount(a) /\ i \in 2..Len(Epoch(a, e))
            BY <2>3, <4>1, <4>2
          <5>3. Continues(Epoch(a, e)[i - 1], Epoch(a, e)[i], (e - 1) * EpochSize + i - 1)
            BY <1>4, <5>2 DEF LinkedInEpochs
          <5> QED  BY <4>1, <5>1, <5>3
        <4>3. CASE i = n + 1
          <5>1. (e - 1) * EpochSize + i - 1 = k * EpochSize + n /\ i - 1 = n
            <6>1. e - 1 = k /\ i - 1 = n
              BY <1>1, <3>3, <4>3
            <6>2. k * EpochSize + i - 1 = k * EpochSize + n
              BY <1>1, <1>3, <4>3
            <6> QED  BY <6>1, <6>2
          <5>2. u.current[i] = r /\ u.current[i - 1] = a.current[n]
            BY <1>1, <2>1, <4>3, <5>1
          <5>3. Epoch(u, e)[i - 1] = a.current[n] /\ Epoch(u, e)[i] = r
            BY <4>1, <5>2
          <5> QED  BY <1>3, <5>1, <5>3 DEF Continues
        <4>4. i \in 2..n \/ i = n + 1
          <5>1. n \in Nat /\ i \in 2..(n + 1)
            BY <1>1, <4>1
          <5> HIDE DEF n
          <5> QED  BY <5>1
        <4> QED  BY <4>2, <4>3, <4>4, Zenon
      <3> QED  BY <1>1, <3>2, <3>3
    <2>6. LinkedAcrossEpochs(u)
      <3>1. SUFFICES ASSUME NEW e \in 1..k
                     PROVE  Continues(Epoch(u, e)[EpochSize], Epoch(u, e + 1)[1], e * EpochSize)
        BY <2>1 DEF LinkedAcrossEpochs
      <3>2. Epoch(u, e) = Epoch(a, e) /\ Epoch(u, e + 1)[1] = Epoch(a, e + 1)[1]
        <4>1. CASE e = k
          <5>1. e + 1 = k + 1 /\ 1 \in 1..n
            BY <1>1, <4>1
          <5>2. Epoch(u, e + 1) = u.current /\ Epoch(a, e + 1) = a.current
            BY <2>3, <5>1, Zenon
          <5>3. Epoch(u, e) = Epoch(a, e) /\ u.current[1] = a.current[1]
            BY <2>1, <2>3, <5>1
          <5> QED  BY <5>2, <5>3
        <4>2. CASE e # k
          <5>1. e + 1 \in 1..k
            BY <1>1, <4>2
          <5>2. Epoch(u, e) = Epoch(a, e) /\ Epoch(u, e + 1) = Epoch(a, e + 1)
            BY <2>3, <5>1
          <5> QED  BY <5>2
        <4> QED  BY <4>1, <4>2
      <3> QED  BY <1>4, <3>2 DEF LinkedAcrossEpochs
    <2>7. Height(u) = Height(a) + 1
      BY <1>1, <1>3, <2>1 DEF Height
    <2> QED  BY <1>4, <2>2, <2>4, <2>5, <2>6, <2>7 DEF IsChain, BeginsAtGenesis, u
  <1>6. CASE IsFull(a)
    <2>1. /\ u.epochs = Append(a.epochs, a.current) /\ u.current = <<r>>
          /\ n = EpochSize /\ Len(u.current) = 1 /\ u.current[1] = r
          /\ Len(u.epochs) = k + 1 /\ u.epochs[k + 1] = a.current
          /\ \A i \in 1..k : u.epochs[i] = a.epochs[i]
      <3>1. u.epochs = Append(a.epochs, a.current) /\ u.current = <<r>> /\ n = EpochSize
        BY <1>2, <1>6 DEF IsFull
      <3>2. Len(Append(a.epochs, a.current)) = k + 1
            /\ Append(a.epochs, a.current)[k + 1] = a.current
            /\ \A i \in 1..k : Append(a.epochs, a.current)[i] = a.epochs[i]
        BY <1>1
      <3> QED  BY <3>1, <3>2
    <2>2. WellFormed(u)
      <3>1. \A i \in 1..(k + 1) : Len(u.epochs[i]) = EpochSize
        <4>1. ASSUME NEW i \in 1..(k + 1) PROVE i \in 1..k \/ i = k + 1
          BY <1>1
        <4> QED  BY <1>4, <2>1, <4>1
      <3> QED  BY <1>1, <1>2, <2>1, <3>1 DEF WellFormed
    <2>3. /\ EpochCount(u) = k + 2 /\ EpochCount(a) = k + 1
          /\ \A e \in 1..(k + 1) : Epoch(u, e) = Epoch(a, e)
          /\ Epoch(u, k + 2) = <<r>> /\ Epoch(a, k + 1) = a.current
      BY <1>1, <2>1 DEF EpochCount, Epoch
    <2>4. Epoch(u, 1)[1] = Epoch(a, 1)[1]
      BY <1>1, <2>3
    <2>5. LinkedInEpochs(u)
      <3>1. SUFFICES ASSUME NEW e \in 1..(k + 2), NEW i \in 2..Len(Epoch(u, e))
                     PROVE  Continues(Epoch(u, e)[i - 1], Epoch(u, e)[i],
                                      (e - 1) * EpochSize + i - 1)
        BY <2>3 DEF LinkedInEpochs
      <3>2. e # k + 2
        <4>1. SUFFICES ASSUME e = k + 2 PROVE FALSE
          OBVIOUS
        <4>2. Epoch(u, e) = <<r>>
          BY <2>3, <4>1, Zenon
        <4>3. Len(Epoch(u, e)) = 1
          BY <4>2
        <4> QED  BY <4>3
      <3>3. e \in 1..(k + 1)
        BY <1>1, <3>2
      <3>4. Epoch(u, e) = Epoch(a, e) /\ e \in 1..EpochCount(a)
        BY <2>3, <3>3
      <3> QED  BY <1>4, <3>4 DEF LinkedInEpochs
    <2>6. LinkedAcrossEpochs(u)
      <3>1. SUFFICES ASSUME NEW e \in 1..(k + 1)
                     PROVE  Continues(Epoch(u, e)[EpochSize], Epoch(u, e + 1)[1], e * EpochSize)
        BY <2>1 DEF LinkedAcrossEpochs
      <3>2. CASE e \in 1..k
        <4>1. Epoch(u, e) = Epoch(a, e) /\ Epoch(u, e + 1) = Epoch(a, e + 1)
          BY <1>1, <2>3, <3>2
        <4> QED  BY <1>4, <3>2, <4>1 DEF LinkedAcrossEpochs
      <3>3. CASE e = k + 1
        <4>1. (k + 1) * EpochSize = k * EpochSize + EpochSize
          BY <1>1
        <4>2. Epoch(u, e) = a.current /\ Epoch(u, e + 1) = <<r>>
          <5>1. e + 1 = k + 2
            BY <1>1, <3>3
          <5> QED  BY <1>1, <2>3, <3>3, <5>1
        <4>3. e * EpochSize = k * EpochSize + n
          BY <1>1, <2>1, <3>3, <4>1
        <4>4. Epoch(u, e)[EpochSize] = a.current[n] /\ Epoch(u, e + 1)[1] = r
          BY <2>1, <4>2
        <4> QED  BY <1>3, <4>3, <4>4 DEF Continues
      <3>4. e \in 1..k \/ e = k + 1
        BY <1>1
      <3> QED  BY <3>2, <3>3, <3>4, Zenon
    <2>7. Height(u) = Height(a) + 1
      <3>1. (k + 1) * EpochSize = k * EpochSize + EpochSize
        BY <1>1
      <3> QED  BY <1>1, <1>3, <2>1, <3>1 DEF Height
    <2> QED  BY <1>4, <2>2, <2>4, <2>5, <2>6, <2>7 DEF IsChain, BeginsAtGenesis, u
  <1> QED  BY <1>5, <1>6 DEF u

----------------------------------------------------------------------------
(* Types.                                                                  *)

LEMMA GossipFields ==
  ASSUME NEW g \in Gossip
  PROVE  /\ g.queue \in Seq(Content) /\ g.resets \in Seq(Call) /\ g.offered \subseteq Content
         /\ g = [queue |-> g.queue, resets |-> g.resets, offered |-> g.offered]
  BY DEF Gossip

LEMMA AnnounceType ==
  ASSUME NEW g \in Gossip, NEW c \in Content, NEW b \in Seq(Bodies)
  PROVE  Announce(g, c, b) \in Gossip
  <1> DEFINE q == Append(g.queue, c)
             reset == [body |-> b, first |-> TRUE]
  <1>1. q \in Seq(Content) /\ Range(q) \subseteq Content
    <2>1. g.queue \in Seq(Content)
      BY GossipFields
    <2>2. Range(q) = Range(g.queue) \cup {c} /\ Range(g.queue) \subseteq Content
      BY <2>1, RangeAppend, InRange
    <2> QED  BY <2>1, <2>2
  <1>2. Append(g.resets, reset) \in Seq(Call)
    <2>1. g.resets \in Seq(Call) /\ reset \in Call
      BY GossipFields DEF Call
    <2> QED  BY <2>1
  <1>3. CASE ~ Connected
    BY <1>3 DEF Announce
  <1>4. CASE Connected /\ Len(q) >= GossipLimit
    <2>1. Announce(g, c, b) =
            [queue |-> q, resets |-> Append(g.resets, reset), offered |-> Range(q)]
      BY <1>4 DEF Announce
    <2> QED  BY <1>1, <1>2, <2>1 DEF Gossip
  <1>5. CASE Connected /\ ~ (Len(q) >= GossipLimit)
    <2>1. Announce(g, c, b) = [g EXCEPT !.queue = q]
      BY <1>5 DEF Announce
    <2>2. Announce(g, c, b) = [queue |-> q, resets |-> g.resets, offered |-> g.offered]
      BY <2>1, GossipFields
    <2> QED  BY <1>1, <2>2, GossipFields DEF Gossip
  <1> QED  BY <1>3, <1>4, <1>5

LEMMA NoGossipType == NoGossip \in Gossip
  BY DEF NoGossip, Gossip

\* An accumulator in memory that is a chain, with a header that comes next.
LEMMA HeaderTaken ==
  ASSUME TypeOK, AccumulatorIsChain, NEW h \in Headers, IsNext(h), acc # Empty \/ Number[h] # 0
  PROVE  /\ IsChain(acc) /\ Height(acc) \in Int
         /\ IsChain(Update(acc, h)) /\ Update(acc, h) \in Accumulator
         /\ Height(Update(acc, h)) = Height(acc) + 1
  <1>1. acc # Empty
    <2>1. SUFFICES ASSUME acc = Empty PROVE Number[h] = 0
      OBVIOUS
    <2>2. Len(Empty.epochs) = 0 /\ Len(Empty.current) = 0
      BY DEF Empty
    <2>3. Height(Empty) = -1
      <3>1. 0 * EpochSize = 0
        BY AccumulatorAssumption
      <3> QED  BY <2>2, <3>1 DEF Height
    <2> QED  BY <2>1, <2>3 DEF IsNext
  <1>2. IsChain(acc)
    BY <1>1 DEF AccumulatorIsChain
  <1>3. acc \in Accumulator
    BY <1>2 DEF IsChain, WellFormed
  <1>4. IsChain(Update(acc, h)) /\ Height(Update(acc, h)) = Height(acc) + 1
    BY <1>2, UpdateKeepsChain DEF IsNext
  <1> QED  BY <1>2, <1>3, <1>4, HeightType DEF IsChain, WellFormed

\* What is put for a header is content, and the new accumulator if it is next.
LEMMA HeaderPutsType ==
  ASSUME TypeOK, AccumulatorIsChain, NEW h \in Headers, acc # Empty \/ Number[h] # 0
  PROVE  /\ HeaderPuts(h) \in Seq(PutType)
         /\ \A p \in Range(HeaderPuts(h)) :
              \/ p \in Content /\ p[1] \in {"header", "epoch"}
              \/ IsNext(h) /\ p = <<"acc", Update(acc, h)>>
         /\ Seals(h) => SealedEpoch \in Content
  <1> DEFINE x == IF Seals(h) THEN <<SealedEpoch>> ELSE <<>>
             y == IF IsNext(h) THEN << <<"acc", Update(acc, h)>> >> ELSE <<>>
             z == << <<"header", h>> >>
  <1>1. Seals(h) => SealedEpoch \in Content /\ SealedEpoch[1] = "epoch"
    <2>1. SUFFICES ASSUME Seals(h) PROVE acc.current \in Seq(Record)
      BY DEF SealedEpoch, Content
    <2>2. IsChain(acc)
      BY <2>1, HeaderTaken DEF Seals
    <2> QED  BY <2>2 DEF IsChain, WellFormed, Accumulator
  <1>2. /\ x \in Seq(PutType)
        /\ \A p \in Range(x) : p \in Content /\ p[1] \in {"header", "epoch"}
    <2>1. CASE Seals(h)
      <3>1. x = <<SealedEpoch>> /\ Range(x) = {SealedEpoch} /\ SealedEpoch \in PutType
        BY <1>1, <2>1, RangeSingle DEF PutType
      <3> QED  BY <1>1, <2>1, <3>1
    <2>2. CASE ~ Seals(h)
      <3>1. x = <<>>
        BY <2>2
      <3> QED  BY <3>1, RangeEmpty
    <2> QED  BY <2>1, <2>2
  <1>3. /\ y \in Seq(PutType)
        /\ \A p \in Range(y) : IsNext(h) /\ p = <<"acc", Update(acc, h)>>
    <2>1. CASE IsNext(h)
      <3>1. Update(acc, h) \in Accumulator
        BY <2>1, HeaderTaken
      <3>2. y = << <<"acc", Update(acc, h)>> >> /\ Range(y) = {<<"acc", Update(acc, h)>>}
        BY <2>1, RangeSingle
      <3>3. <<"acc", Update(acc, h)>> \in PutType
        BY <3>1 DEF PutType
      <3> QED  BY <2>1, <3>2, <3>3
    <2>2. CASE ~ IsNext(h)
      <3>1. y = <<>>
        BY <2>2
      <3> QED  BY <3>1, RangeEmpty
    <2> QED  BY <2>1, <2>2
  <1>4. /\ z \in Seq(PutType)
        /\ \A p \in Range(z) : p \in Content /\ p[1] \in {"header", "epoch"}
    <2>1. <<"header", h>> \in Content /\ <<"header", h>> \in PutType
      BY DEF Content, PutType
    <2>2. Range(z) = {<<"header", h>>}
      BY RangeSingle
    <2> QED  BY <2>1, <2>2
  <1> HIDE DEF x, y, z
  <1>5. /\ x \o y \in Seq(PutType) /\ (x \o y) \o z \in Seq(PutType)
        /\ Range((x \o y) \o z) = Range(x) \cup Range(y) \cup Range(z)
    <2>1. x \o y \in Seq(PutType) /\ Range(x \o y) = Range(x) \cup Range(y)
      BY <1>2, <1>3, RangeOfBoth
    <2>2. (x \o y) \o z \in Seq(PutType) /\ Range((x \o y) \o z) = Range(x \o y) \cup Range(z)
      <3> DEFINE w == x \o y
      <3>1. w \in Seq(PutType)
        BY <2>1
      <3> HIDE DEF w
      <3>2. w \o z \in Seq(PutType) /\ Range(w \o z) = Range(w) \cup Range(z)
        BY <1>4, <3>1, RangeOfBoth
      <3> QED  BY <3>2 DEF w
    <2> QED  BY <2>1, <2>2
  <1>6. HeaderPuts(h) = (x \o y) \o z
    BY DEF HeaderPuts, x, y, z
  <1> QED  BY <1>1, <1>2, <1>3, <1>4, <1>5, <1>6

----------------------------------------------------------------------------
(* The invariant: types and chains together.                               *)

HistoryInv == TypeOK /\ AccumulatorIsChain

\* What a put leaves in flight.
LEMMA PutProperties ==
  ASSUME TypeOK, NEW puts \in Seq(PutType), Put(puts)
  PROVE  /\ pending' \in Seq(PutType)
         /\ Range(pending') = Range(pending) \cup Range(puts)
  <1>1. pending \in Seq(PutType) /\ pending' = pending \o puts
    BY DEF TypeOK, Put
  <1> QED  BY <1>1, RangeOfBoth

\* The chains in the database, on the way to it and from it, as a predicate on
\* the values of the variables.
Stores(r, s, p) ==
  /\ \A a \in Range(r) \cup Range(s) : IsChain(a)
  /\ \A q \in Range(p) : q[1] = "acc" => IsChain(q[2])

LEMMA ChainsAreStores ==
  ASSUME TypeOK
  PROVE  AccumulatorIsChain <=>
           (Loaded \/ acc # Empty => IsChain(acc)) /\ Stores(reading, accStored, pending)
  <1>1. (\A a \in PendingAccumulators : IsChain(a)) <=>
          \A q \in Range(pending) : q[1] = "acc" => IsChain(q[2])
    <2>1. pending \in Seq(PutType)
      BY DEF TypeOK
    <2>2. ASSUME \A a \in PendingAccumulators : IsChain(a), NEW q \in Range(pending), q[1] = "acc"
          PROVE  IsChain(q[2])
      <3>1. PICK i \in 1..Len(pending) : q = pending[i]
        BY <2>1, InRange
      <3>2. q[2] \in PendingAccumulators
        BY <2>2, <3>1 DEF PendingAccumulators
      <3> QED  BY <2>2, <3>2
    <2>3. ASSUME \A q \in Range(pending) : q[1] = "acc" => IsChain(q[2]),
                 NEW a \in PendingAccumulators
          PROVE  IsChain(a)
      <3>1. PICK i \in 1..Len(pending) : pending[i][1] = "acc" /\ a = pending[i][2]
        BY DEF PendingAccumulators
      <3>2. pending[i] \in Range(pending)
        BY <2>1, InRange
      <3> QED  BY <2>3, <3>1, <3>2
    <2> QED  BY <2>2, <2>3
  <1> QED  BY <1>1 DEF AccumulatorIsChain, Stores

LEMMA ChainType == ASSUME NEW a, IsChain(a) PROVE a \in Accumulator /\ WellFormed(a)
  BY DEF IsChain, WellFormed

LEMMA InitHistory == Init => HistoryInv
  <1> SUFFICES ASSUME Init PROVE HistoryInv
    OBVIOUS
  <1> USE DEF Init
  <1>1. IsChain(GenesisAccumulator) /\ GenesisAccumulator \in Accumulator
    BY GenesisIsChain, ChainType
  <1>2. TypeOK
    BY <1>1, NoGossipType, StoreAssumption DEF TypeOK
  <1>3. Stores(reading, accStored, pending)
    <2>1. Range(reading) = {GenesisAccumulator} /\ Range(accStored) = {} /\ Range(pending) = {}
      BY RangeSingle, RangeEmpty
    <2> QED  BY <1>1, <2>1 DEF Stores
  <1>4. ~ Loaded /\ acc = Empty
    BY DEF Loaded
  <1> QED  BY <1>2, <1>3, <1>4, ChainsAreStores DEF HistoryInv

LEMMA ChainsAreStoresAlso ==
  TypeOK => (AccumulatorIsChain <=>
    (Loaded \/ acc # Empty => IsChain(acc)) /\ Stores(reading, accStored, pending))
  BY ChainsAreStores

LEMMA ChainsAreStoresNext ==
  TypeOK' => (AccumulatorIsChain' <=>
    (Loaded' \/ acc' # Empty => IsChain(acc')) /\ Stores(reading', accStored', pending'))
  <1>1. (TypeOK => (AccumulatorIsChain <=>
          (Loaded \/ acc # Empty => IsChain(acc)) /\ Stores(reading, accStored, pending)))'
    BY ChainsAreStoresAlso, PTL
  <1> QED  BY <1>1 DEF Stores, IsChain, WellFormed

LEMMA LoadHistory == HistoryInv /\ Load => HistoryInv'
  <1> SUFFICES ASSUME HistoryInv, Load PROVE HistoryInv'
    OBVIOUS
  <1>1. TypeOK /\ AccumulatorIsChain
    BY DEF HistoryInv
  <1>2. Stores(reading, accStored, pending)
    BY <1>1, ChainsAreStoresAlso
  <1>3. /\ reading # <<>> /\ acc' = reading[1] /\ reading' = <<>>
        /\ UNCHANGED <<stored, accStored, pending, executing, gossip, adopted, crashes>>
    BY DEF Load
  <1>4. IsChain(acc')
    <2>1. reading \in Seq(Accumulator) /\ 1 \in 1..Len(reading)
      BY <1>1, <1>3 DEF TypeOK
    <2>2. reading[1] \in Range(reading)
      BY <2>1, InRange
    <2> QED  BY <1>2, <1>3, <2>2 DEF Stores
  <1>5. TypeOK'
    BY <1>1, <1>3, <1>4, ChainType DEF TypeOK
  <1>6. Stores(reading', accStored', pending')
    BY <1>2, <1>3, RangeEmpty DEF Stores
  <1> QED  BY <1>4, <1>5, <1>6, ChainsAreStoresNext DEF HistoryInv

LEMMA CrashHistory == HistoryInv /\ Crash => HistoryInv'
  <1> SUFFICES ASSUME HistoryInv, Crash PROVE HistoryInv'
    OBVIOUS
  <1>1. TypeOK /\ AccumulatorIsChain
    BY DEF HistoryInv
  <1>2. Stores(reading, accStored, pending)
    BY <1>1, ChainsAreStoresAlso
  <1>3. /\ crashes < MaxCrashes /\ crashes' = crashes + 1
        /\ acc' = Empty /\ reading' = <<StoredOrGenesis>>
        /\ pending' = <<>> /\ executing' = {} /\ gossip' = NoGossip
        /\ UNCHANGED <<stored, accStored, adopted>>
    BY DEF Crash
  <1>4. IsChain(StoredOrGenesis)
    <2>1. CASE accStored = <<>>
      BY <2>1, GenesisIsChain DEF StoredOrGenesis
    <2>2. CASE accStored # <<>>
      <3>1. accStored \in Seq(Accumulator) /\ 1 \in 1..Len(accStored)
        BY <1>1, <2>2 DEF TypeOK
      <3>2. accStored[1] \in Range(accStored)
        BY <3>1, InRange
      <3> QED  BY <1>2, <2>2, <3>2 DEF Stores, StoredOrGenesis
    <2> QED  BY <2>1, <2>2
  <1>5. TypeOK'
    <2>1. StoredOrGenesis \in Accumulator
      BY <1>4, ChainType
    <2>2. crashes' \in 0..MaxCrashes
      BY <1>1, <1>3, StoreAssumption DEF TypeOK
    <2> HIDE DEF StoredOrGenesis
    <2> QED  BY <1>1, <1>3, <2>1, <2>2, NoGossipType DEF TypeOK
  <1>6. Stores(reading', accStored', pending')
    <2>1. Range(reading') = {StoredOrGenesis} /\ Range(pending') = {}
      BY <1>3, RangeSingle, RangeEmpty
    <2> QED  BY <1>2, <1>3, <1>4, <2>1 DEF Stores
  <1>7. ~ Loaded' /\ acc' = Empty
    BY <1>3 DEF Loaded
  <1> QED  BY <1>5, <1>6, <1>7, ChainsAreStoresNext DEF HistoryInv

\* Steps that leave the accumulators in memory and being read alone, and whose
\* puts, if any, are of content.
LEMMA OthersHistory ==
  ASSUME HistoryInv, TypeOK', acc' = acc, reading' = reading, accStored' = accStored,
         \A p \in Range(pending') : p \in Range(pending) \/ p[1] # "acc"
  PROVE  HistoryInv'
  <1>1. TypeOK /\ (Loaded \/ acc # Empty => IsChain(acc)) /\ Stores(reading, accStored, pending)
    BY ChainsAreStoresAlso DEF HistoryInv
  <1>2. Stores(reading', accStored', pending')
    BY <1>1 DEF Stores
  <1>3. Loaded' \/ acc' # Empty => IsChain(acc')
    BY <1>1 DEF Loaded
  <1> QED  BY <1>2, <1>3, ChainsAreStoresNext DEF HistoryInv

\* The calls that still wait after a Reset, none of which was the first.
LEMMA CallsLeft ==
  ASSUME NEW calls \in Seq(Call), calls # <<>>
  PROVE  LET rest == [i \in 1..Len(calls) - 1 |-> [calls[i + 1] EXCEPT !.first = FALSE]]
         IN  rest \in Seq(Call) /\ (rest # <<>> => ~ Head(rest).first)
  <1> DEFINE rest == [i \in 1..Len(calls) - 1 |-> [calls[i + 1] EXCEPT !.first = FALSE]]
  <1>1. Len(calls) - 1 \in Nat
    OBVIOUS
  <1>2. ASSUME NEW i \in 1..Len(calls) - 1
        PROVE  rest[i] \in Call /\ ~ rest[i].first
    <2>1. calls[i + 1] \in Call /\ rest[i] = [calls[i + 1] EXCEPT !.first = FALSE]
      BY <1>1
    <2> QED  BY <2>1 DEF Call
  <1>3. rest \in [1..Len(calls) - 1 -> Call]
    BY <1>2
  <1>4. rest \in Seq(Call) /\ Len(rest) = Len(calls) - 1
    BY <1>1, <1>3
  <1> HIDE DEF rest
  <1>5. ASSUME rest # <<>> PROVE ~ Head(rest).first
    <2>1. 1 \in 1..Len(rest) /\ Head(rest) = rest[1]
      BY <1>4, <1>5
    <2> QED  BY <1>2, <1>4, <2>1
  <1> QED  BY <1>4, <1>5 DEF rest

LEMMA ResetHistory == HistoryInv /\ Reset => HistoryInv'
  <1> SUFFICES ASSUME HistoryInv, Reset PROVE HistoryInv'
    OBVIOUS
  <1>1. TypeOK
    BY DEF HistoryInv
  <1> DEFINE body == Head(gossip.resets).body
             rest == [i \in 1..Len(gossip.resets) - 1 |->
                        [gossip.resets[i + 1] EXCEPT !.first = FALSE]]
  <1>2. /\ gossip.resets # <<>>
        /\ gossip' = [queue |-> <<>>, resets |-> rest, offered |-> {}]
        /\ executing' = executing \cup {[body |-> h, added |-> TRUE] : h \in Range(body)}
        /\ UNCHANGED <<acc, reading, stored, accStored, pending, adopted, crashes>>
    BY DEF Reset
  <1>3. gossip.resets \in Seq(Call)
    BY <1>1, GossipFields DEF TypeOK
  <1>4. Range(body) \subseteq Bodies
    <2>1. gossip.resets[1] \in Call /\ Head(gossip.resets) = gossip.resets[1]
      BY <1>2, <1>3
    <2>2. body \in Seq(Bodies)
      BY <2>1 DEF Call
    <2> QED  BY <2>2, InRange
  <1>5. rest \in Seq(Call)
    BY <1>2, <1>3, CallsLeft
  <1> HIDE DEF body, rest
  <1>6. gossip' \in Gossip
    BY <1>2, <1>5 DEF Gossip
  <1>7. TypeOK'
    <2>1. executing' \subseteq [body : Bodies, added : BOOLEAN]
      <3>1. ASSUME NEW h \in Range(body)
            PROVE  [body |-> h, added |-> TRUE] \in [body : Bodies, added : BOOLEAN]
        BY <1>4
      <3> QED  BY <1>1, <1>2, <3>1 DEF TypeOK
    <2> QED  BY <1>1, <1>2, <1>6, <2>1 DEF TypeOK
  <1>8. /\ \A p \in Range(pending') : p \in Range(pending)
        /\ acc' = acc /\ reading' = reading /\ accStored' = accStored
    BY <1>2
  <1> QED  BY <1>7, <1>8, OthersHistory

\* A put that becomes durable was one of those on their way.
LEMMA LandHistory == ASSUME NEW i \in 1..Window PROVE HistoryInv /\ Land(i) => HistoryInv'
  <1> SUFFICES ASSUME HistoryInv, Land(i) PROVE HistoryInv'
    OBVIOUS
  <1>1. /\ TypeOK /\ (Loaded \/ acc # Empty => IsChain(acc))
        /\ Stores(reading, accStored, pending)
    BY ChainsAreStoresAlso DEF HistoryInv
  <1>2. /\ i <= Len(pending) /\ pending' = Without(pending, i)
        /\ UNCHANGED <<acc, reading, executing, gossip, adopted, crashes>>
    BY DEF Land
  <1>3. pending \in Seq(PutType) /\ i \in 1..Len(pending)
    BY <1>1, <1>2, StoreAssumption DEF TypeOK
  <1>4. /\ pending' \in Seq(PutType) /\ Range(pending') \subseteq Range(pending)
        /\ pending[i] \in PutType /\ pending[i] \in Range(pending)
    BY <1>2, <1>3, WithoutProperties, RangeWithout, InRange
  <1>5. CASE pending[i][1] = "acc"
    <2>1. accStored' = <<pending[i][2]>> /\ stored' = stored
      BY <1>5 DEF Land
    <2>2. IsChain(pending[i][2])
      BY <1>1, <1>4, <1>5 DEF Stores
    <2>3. TypeOK'
      BY <1>1, <1>2, <1>4, <2>1, <2>2, ChainType DEF TypeOK
    <2>4. Stores(reading', accStored', pending')
      <3>1. Range(accStored') = {pending[i][2]}
        BY <2>1, RangeSingle
      <3> QED  BY <1>1, <1>2, <1>4, <2>2, <3>1 DEF Stores
    <2>5. Loaded' \/ acc' # Empty => IsChain(acc')
      BY <1>1, <1>2 DEF Loaded
    <2> QED  BY <2>3, <2>4, <2>5, ChainsAreStoresNext DEF HistoryInv
  <1>6. CASE pending[i][1] # "acc"
    <2>1. stored' = stored \cup {pending[i]} /\ accStored' = accStored
      BY <1>6 DEF Land
    <2>2. pending[i] \in Content
      BY <1>4, <1>6 DEF PutType
    <2>3. TypeOK'
      BY <1>1, <1>2, <1>4, <2>1, <2>2 DEF TypeOK
    <2>4. Stores(reading', accStored', pending')
      BY <1>1, <1>2, <1>4, <2>1 DEF Stores
    <2>5. Loaded' \/ acc' # Empty => IsChain(acc')
      BY <1>1, <1>2 DEF Loaded
    <2> QED  BY <2>3, <2>4, <2>5, ChainsAreStoresNext DEF HistoryInv
  <1> QED  BY <1>5, <1>6

LEMMA AddHeaderHistory ==
  ASSUME NEW k, NEW h \in Headers
  PROVE  HistoryInv /\ AddHeader(k, h) =>
           HistoryInv' /\ (Loaded => Height(acc') >= Height(acc))
  <1> SUFFICES ASSUME HistoryInv, AddHeader(k, h)
               PROVE  HistoryInv' /\ (Loaded => Height(acc') >= Height(acc))
    OBVIOUS
  <1>1. /\ TypeOK /\ AccumulatorIsChain /\ (Loaded \/ acc # Empty => IsChain(acc))
        /\ Stores(reading, accStored, pending)
    BY ChainsAreStoresAlso DEF HistoryInv
  <1>2. h \in Headers /\ (acc # Empty \/ Number[h] # 0)
    BY StoreAssumption DEF AddHeader, Empty
  <1>3. /\ Put(HeaderPuts(h))
        /\ acc' = IF IsNext(h) THEN Update(acc, h) ELSE acc
        /\ gossip' = Announce(IF Seals(h) THEN Announce(gossip, SealedEpoch, <<>>) ELSE gossip,
                              <<"header", h>>, <<>>)
        /\ UNCHANGED <<reading, stored, accStored, executing, adopted, crashes>>
    BY DEF AddHeader
  <1>4. IsNext(h) => /\ IsChain(acc) /\ Height(acc) \in Int
                     /\ IsChain(Update(acc, h)) /\ Update(acc, h) \in Accumulator
                     /\ Height(Update(acc, h)) = Height(acc) + 1
    BY <1>1, <1>2, HeaderTaken
  <1>5. /\ HeaderPuts(h) \in Seq(PutType)
        /\ \A p \in Range(HeaderPuts(h)) :
             \/ p \in Content /\ p[1] \in {"header", "epoch"}
             \/ IsNext(h) /\ p = <<"acc", Update(acc, h)>>
        /\ Seals(h) => SealedEpoch \in Content
    BY <1>1, <1>2, HeaderPutsType
  <1>6. /\ pending' \in Seq(PutType)
        /\ Range(pending') = Range(pending) \cup Range(HeaderPuts(h))
    BY <1>1, <1>3, <1>5, PutProperties
  <1>7. gossip' \in Gossip
    <2>1. gossip \in Gossip /\ <<>> \in Seq(Bodies) /\ <<"header", h>> \in Content
      BY <1>1, <1>2 DEF TypeOK, Content
    <2> DEFINE g == IF Seals(h) THEN Announce(gossip, SealedEpoch, <<>>) ELSE gossip
    <2>2. g \in Gossip
      BY <1>5, <2>1, AnnounceType
    <2> HIDE DEF g
    <2>3. Announce(g, <<"header", h>>, <<>>) \in Gossip
      BY <2>1, <2>2, AnnounceType
    <2> QED  BY <1>3, <2>3 DEF g
  <1>8. Loaded' \/ acc' # Empty => IsChain(acc')
    BY <1>1, <1>3, <1>4 DEF Loaded
  <1>9. TypeOK'
    <2>1. acc' = Empty \/ WellFormed(acc')
      BY <1>8, ChainType
    <2> QED  BY <1>1, <1>3, <1>6, <1>7, <2>1 DEF TypeOK
  <1>10. Stores(reading', accStored', pending')
    <2>1. \A q \in Range(HeaderPuts(h)) : q[1] = "acc" => IsChain(q[2])
      BY <1>4, <1>5
    <2> QED  BY <1>1, <1>3, <1>6, <2>1 DEF Stores
  <1>11. Loaded => Height(acc') >= Height(acc)
    <2>1. SUFFICES ASSUME Loaded PROVE Height(acc') >= Height(acc)
      OBVIOUS
    <2>2. Height(acc) \in Int
      BY <1>1, <2>1, ChainType, HeightType
    <2> QED  BY <1>3, <1>4, <2>2
  <1> QED  BY <1>8, <1>9, <1>10, <1>11, ChainsAreStoresNext DEF HistoryInv

\* Steps that put one content, and change what is executed or gossiped.
LEMMA ContentHistory ==
  ASSUME HistoryInv, NEW c \in Content, c[1] # "acc", Put(<<c>>),
         acc' = acc, reading' = reading, accStored' = accStored, stored' = stored,
         adopted' = adopted, crashes' = crashes,
         executing' \subseteq [body : Bodies, added : BOOLEAN], gossip' \in Gossip
  PROVE  HistoryInv'
  <1>1. TypeOK
    BY DEF HistoryInv
  <1>2. <<c>> \in Seq(PutType) /\ Range(<<c>>) = {c}
    BY RangeSingle DEF PutType
  <1>3. pending' \in Seq(PutType) /\ Range(pending') = Range(pending) \cup {c}
    BY <1>1, <1>2, PutProperties
  <1>4. TypeOK'
    BY <1>1, <1>3 DEF TypeOK
  <1>5. \A p \in Range(pending') : p \in Range(pending) \/ p[1] # "acc"
    BY <1>3
  <1> QED  BY <1>4, <1>5, OthersHistory

\* Steps of a body that is executed, and of what is announced, with no put.
LEMMA NoPutHistory ==
  ASSUME HistoryInv, pending' = pending,
         acc' = acc, reading' = reading, accStored' = accStored, stored' = stored,
         adopted' = adopted, crashes' = crashes,
         executing' \subseteq [body : Bodies, added : BOOLEAN], gossip' \in Gossip
  PROVE  HistoryInv'
  <1>1. TypeOK
    BY DEF HistoryInv
  <1>2. TypeOK'
    BY <1>1 DEF TypeOK
  <1>3. \A p \in Range(pending') : p \in Range(pending)
    OBVIOUS
  <1> QED  BY <1>2, <1>3, OthersHistory

LEMMA BodyHistory == ASSUME NEW h \in Bodies PROVE HistoryInv /\ AddBody(h) => HistoryInv'
  <1> SUFFICES ASSUME HistoryInv, AddBody(h) PROVE HistoryInv'
    OBVIOUS
  <1>1. <<"body", h>> \in Content
    BY StoreAssumption DEF Content
  <1>2. executing \subseteq [body : Bodies, added : BOOLEAN] /\ gossip \in Gossip
    BY DEF HistoryInv, TypeOK
  <1>3. executing' \subseteq [body : Bodies, added : BOOLEAN] /\ gossip' \in Gossip
    <2>1. [body |-> h, added |-> FALSE] \in [body : Bodies, added : BOOLEAN]
      OBVIOUS
    <2> QED  BY <1>2, <2>1 DEF AddBody
  <1> DEFINE c == <<"body", h>>
  <1>4. /\ c \in Content /\ c[1] # "acc" /\ Put(<<c>>)
        /\ UNCHANGED <<acc, reading, stored, accStored, adopted, crashes>>
    BY <1>1 DEF AddBody
  <1> HIDE DEF c
  <1> QED  BY <1>3, <1>4, ContentHistory

LEMMA SaveReceiptsHistory ==
  ASSUME NEW t \in executing PROVE HistoryInv /\ SaveReceipts(t) => HistoryInv'
  <1> SUFFICES ASSUME HistoryInv, SaveReceipts(t) PROVE HistoryInv'
    OBVIOUS
  <1>1. /\ executing \subseteq [body : Bodies, added : BOOLEAN] /\ gossip \in Gossip
        /\ t \in [body : Bodies, added : BOOLEAN]
    BY DEF HistoryInv, TypeOK
  <1>2. <<"receipt", t.body>> \in Content /\ <<t.body>> \in Seq(Bodies)
    BY <1>1, StoreAssumption DEF Content
  <1>3. gossip' \in Gossip
    BY <1>1, <1>2, AnnounceType DEF SaveReceipts
  <1>4. executing' \subseteq [body : Bodies, added : BOOLEAN]
    BY <1>1 DEF SaveReceipts
  <1> DEFINE c == <<"receipt", t.body>>
  <1>5. /\ c \in Content /\ c[1] # "acc" /\ Put(<<c>>)
        /\ UNCHANGED <<acc, reading, stored, accStored, adopted, crashes>>
    BY <1>2 DEF SaveReceipts
  <1> HIDE DEF c
  <1> QED  BY <1>3, <1>4, <1>5, ContentHistory

LEMMA ReceiptsFailHistory ==
  ASSUME NEW t \in executing PROVE HistoryInv /\ ReceiptsFail(t) => HistoryInv'
  <1> SUFFICES ASSUME HistoryInv, ReceiptsFail(t) PROVE HistoryInv'
    OBVIOUS
  <1>1. executing \subseteq [body : Bodies, added : BOOLEAN] /\ gossip \in Gossip
    BY DEF HistoryInv, TypeOK
  <1> QED  BY <1>1, NoPutHistory DEF ReceiptsFail

LEMMA AnnounceBodyHistory ==
  ASSUME NEW t \in executing PROVE HistoryInv /\ AnnounceBody(t) => HistoryInv'
  <1> SUFFICES ASSUME HistoryInv, AnnounceBody(t) PROVE HistoryInv'
    OBVIOUS
  <1>1. /\ executing \subseteq [body : Bodies, added : BOOLEAN] /\ gossip \in Gossip
        /\ t \in [body : Bodies, added : BOOLEAN]
    BY DEF HistoryInv, TypeOK
  <1>2. <<"body", t.body>> \in Content /\ <<>> \in Seq(Bodies)
    BY <1>1, StoreAssumption DEF Content
  <1>3. gossip' \in Gossip
    BY <1>1, <1>2, AnnounceType DEF AnnounceBody
  <1> QED  BY <1>1, <1>3, NoPutHistory DEF AnnounceBody

LEMMA UnverifiedHistory ==
  ASSUME NEW c \in Unverified PROVE HistoryInv /\ AddUnverified(c) => HistoryInv'
  <1> SUFFICES ASSUME HistoryInv, AddUnverified(c) PROVE HistoryInv'
    OBVIOUS
  <1>1. executing \subseteq [body : Bodies, added : BOOLEAN] /\ gossip \in Gossip
    BY DEF HistoryInv, TypeOK
  <1>2. c \in Content /\ c[1] # "acc" /\ <<>> \in Seq(Bodies)
    BY StoreAssumption DEF Content
  <1>3. gossip' \in Gossip
    BY <1>1, <1>2, AnnounceType DEF AddUnverified
  <1> QED  BY <1>1, <1>2, <1>3, ContentHistory DEF AddUnverified

LEMMA SnapshotHistory ==
  ASSUME NEW s \in Snapshots
  PROVE  HistoryInv /\ AddSnapshot(s) => HistoryInv' /\ Height(acc') >= Height(acc)
  <1> SUFFICES ASSUME HistoryInv, AddSnapshot(s)
               PROVE  HistoryInv' /\ Height(acc') >= Height(acc)
    OBVIOUS
  <1>1. TypeOK /\ Stores(reading, accStored, pending)
    BY ChainsAreStoresAlso DEF HistoryInv
  <1>2. IsChain(s) /\ s \in Accumulator
    BY StoreAssumption, ChainType
  <1>3. /\ Height(acc) < Height(s) /\ Put(<< <<"acc", s>> >>)
        /\ acc' = s /\ adopted' = adopted \cup HashesOf(s)
        /\ UNCHANGED <<reading, stored, accStored, executing, gossip, crashes>>
    BY DEF AddSnapshot
  <1>4. << <<"acc", s>> >> \in Seq(PutType) /\ Range(<< <<"acc", s>> >>) = {<<"acc", s>>}
    BY <1>2, RangeSingle DEF PutType
  <1>5. /\ pending' \in Seq(PutType)
        /\ Range(pending') = Range(pending) \cup {<<"acc", s>>}
    BY <1>1, <1>3, <1>4, PutProperties
  <1>6. HashesOf(s) \subseteq Headers
    <2>1. SUFFICES ASSUME NEW e \in 1..EpochCount(s), NEW i \in 1..Len(Epoch(s, e))
                   PROVE  Epoch(s, e)[i].hash \in Headers
      BY DEF HashesOf, Hashes
    <2>2. s.epochs \in Seq(Seq(Record)) /\ s.current \in Seq(Record)
      BY <1>2 DEF Accumulator
    <2>3. Epoch(s, e) \in Seq(Record)
      BY <2>2 DEF Epoch, EpochCount
    <2>4. Epoch(s, e)[i] \in Record
      BY <2>3
    <2> QED  BY <2>4 DEF Record
  <1>7. TypeOK'
    BY <1>1, <1>2, <1>3, <1>5, <1>6, ChainType DEF TypeOK
  <1>8. Stores(reading', accStored', pending')
    BY <1>1, <1>2, <1>3, <1>5 DEF Stores
  <1>9. Height(acc') >= Height(acc)
    <2>1. acc \in Accumulator
      BY <1>1, EmptyType DEF TypeOK, WellFormed
    <2>2. Height(acc) \in Int /\ Height(s) \in Int
      BY <1>2, <2>1, HeightType
    <2> QED  BY <1>3, <2>2
  <1> QED  BY <1>2, <1>3, <1>7, <1>8, <1>9, ChainsAreStoresNext DEF HistoryInv

\* Every step keeps the invariant, and the height unless it is a restart.
LEMMA HistoryStep ==
  HistoryInv /\ [Next]_vars => HistoryInv' /\ (Loaded /\ Loaded' => Height(acc') >= Height(acc))
  <1> SUFFICES ASSUME HistoryInv, [Next]_vars
               PROVE  HistoryInv' /\ (Loaded /\ Loaded' => Height(acc') >= Height(acc))
    OBVIOUS
  <1>1. Height(acc) \in Int
    BY EmptyType, HeightType DEF HistoryInv, TypeOK, WellFormed
  <1>2. CASE Load
    BY <1>2, LoadHistory DEF Load, Loaded
  <1>3. CASE Reset
    BY <1>1, <1>3, ResetHistory DEF Reset
  <1>4. CASE Crash
    BY <1>4, CrashHistory DEF Crash, Loaded
  <1>5. ASSUME NEW i \in 1..Window, Land(i)
        PROVE  HistoryInv' /\ (Loaded /\ Loaded' => Height(acc') >= Height(acc))
    BY <1>1, <1>5, LandHistory DEF Land
  <1>6. ASSUME NEW k \in Sent, NEW h \in Sent, AddHeader(k, h)
        PROVE  HistoryInv' /\ (Loaded /\ Loaded' => Height(acc') >= Height(acc))
    BY <1>6, AddHeaderHistory, StoreAssumption
  <1>7. ASSUME NEW h \in Bodies, AddBody(h)
        PROVE  HistoryInv' /\ (Loaded /\ Loaded' => Height(acc') >= Height(acc))
    BY <1>1, <1>7, BodyHistory DEF AddBody
  <1>8. ASSUME NEW t \in executing, SaveReceipts(t) \/ ReceiptsFail(t) \/ AnnounceBody(t)
        PROVE  HistoryInv' /\ (Loaded /\ Loaded' => Height(acc') >= Height(acc))
    <2>1. HistoryInv'
      BY <1>8, SaveReceiptsHistory, ReceiptsFailHistory, AnnounceBodyHistory
    <2>2. acc' = acc
      BY <1>8 DEF SaveReceipts, ReceiptsFail, AnnounceBody
    <2> QED  BY <1>1, <2>1, <2>2
  <1>9. ASSUME NEW c \in Unverified, AddUnverified(c)
        PROVE  HistoryInv' /\ (Loaded /\ Loaded' => Height(acc') >= Height(acc))
    BY <1>1, <1>9, UnverifiedHistory DEF AddUnverified
  <1>10. ASSUME NEW s \in Snapshots, AddSnapshot(s)
         PROVE  HistoryInv' /\ (Loaded /\ Loaded' => Height(acc') >= Height(acc))
    BY <1>10, SnapshotHistory
  <1>11. CASE UNCHANGED vars
    <2>1. /\ acc' = acc /\ pending' = pending /\ executing' = executing /\ gossip' = gossip
          /\ UNCHANGED <<reading, stored, accStored, adopted, crashes>>
      BY <1>11 DEF vars
    <2>2. executing \subseteq [body : Bodies, added : BOOLEAN] /\ gossip \in Gossip
      BY DEF HistoryInv, TypeOK
    <2>3. HistoryInv'
      BY <2>1, <2>2, NoPutHistory
    <2> QED  BY <1>1, <2>1, <2>3
  <1> QED
    BY <1>2, <1>3, <1>4, <1>5, <1>6, <1>7, <1>8, <1>9, <1>10, <1>11 DEF Next

\* The variables have their types in every reachable state.
THEOREM TypeInvariant == Spec => []TypeOK
  <1>1. HistoryInv => TypeOK
    BY DEF HistoryInv
  <1> QED  BY <1>1, InitHistory, HistoryStep, PTL DEF Spec

\* The accumulator in memory, in the database and on its way there is one chain
\* from the genesis, whatever headers addContentToHistory is given.
THEOREM AccumulatorIsChainAlways == Spec => []AccumulatorIsChain
  <1>1. HistoryInv => AccumulatorIsChain
    BY DEF HistoryInv
  <1> QED  BY <1>1, InitHistory, HistoryStep, PTL DEF Spec

\* No header and no snapshot lowers the height of the accumulator in memory.
THEOREM HeightNeverFallsAlways == Spec => HeightNeverFalls
  <1>1. HistoryInv /\ [Next]_vars => [Loaded /\ Loaded' => Height(acc') >= Height(acc)]_vars
    BY HistoryStep
  <1> QED  BY <1>1, InitHistory, HistoryStep, PTL DEF Spec, HeightNeverFalls

----------------------------------------------------------------------------
(* A body is put only after its header is found in the database.           *)

\* Steps that put no body but one with a stored header.
LEMMA OthersBodies ==
  ASSUME BodiesInv, stored \subseteq stored',
         \A h \in Bodies : <<"body", h>> \in stored' \cup Range(pending') =>
           <<"body", h>> \in stored \cup Range(pending) \/ <<"header", h>> \in stored
  PROVE  BodiesInv'
  BY DEF BodiesInv

LEMMA PutBodies ==
  ASSUME TypeOK, BodiesInv, NEW puts \in Seq(PutType), Put(puts), stored' = stored,
         \A h \in Bodies : <<"body", h>> \in Range(puts) => <<"header", h>> \in stored
  PROVE  BodiesInv'
  <1>1. Range(pending') = Range(pending) \cup Range(puts)
    BY PutProperties
  <1>2. \A h \in Bodies : <<"body", h>> \in stored' \cup Range(pending') =>
          <<"body", h>> \in stored \cup Range(pending) \/ <<"header", h>> \in stored
    BY <1>1
  <1> QED  BY <1>2, OthersBodies

LEMMA PutContentBodies ==
  ASSUME TypeOK, BodiesInv, NEW c \in PutType, Put(<<c>>), stored' = stored,
         \A h \in Bodies : c = <<"body", h>> => <<"header", h>> \in stored
  PROVE  BodiesInv'
  <1>1. <<c>> \in Seq(PutType) /\ Range(<<c>>) = {c}
    BY RangeSingle
  <1>2. \A h \in Bodies : <<"body", h>> \in Range(<<c>>) => <<"header", h>> \in stored
    BY <1>1
  <1> QED  BY <1>1, <1>2, PutBodies

LEMMA SameBodies ==
  ASSUME BodiesInv, stored' = stored, pending' = pending \/ pending' = <<>> PROVE BodiesInv'
  BY RangeEmpty DEF BodiesInv

LEMMA LandBodies ==
  ASSUME TypeOK, BodiesInv, NEW i \in 1..Window, Land(i) PROVE BodiesInv'
  <1>1. pending \in Seq(PutType) /\ i \in 1..Len(pending) /\ pending' = Without(pending, i)
    BY StoreAssumption DEF TypeOK, Land
  <1>2. Range(pending') \subseteq Range(pending) /\ pending[i] \in Range(pending)
    BY <1>1, RangeWithout, InRange
  <1>3. stored' = stored \/ stored' = stored \cup {pending[i]}
    BY DEF Land
  <1> QED  BY <1>2, <1>3 DEF BodiesInv

LEMMA HeaderBodies ==
  ASSUME HistoryInv, BodiesInv, NEW k \in Sent, NEW h \in Sent, AddHeader(k, h)
  PROVE  BodiesInv'
  <1>1. TypeOK /\ AccumulatorIsChain
    BY DEF HistoryInv
  <1>2. h \in Headers /\ (acc # Empty \/ Number[h] # 0)
    BY StoreAssumption DEF AddHeader, Empty
  <1>3. /\ HeaderPuts(h) \in Seq(PutType)
        /\ \A p \in Range(HeaderPuts(h)) :
             \/ p \in Content /\ p[1] \in {"header", "epoch"}
             \/ IsNext(h) /\ p = <<"acc", Update(acc, h)>>
    BY <1>1, <1>2, HeaderPutsType
  <1>4. \A g \in Bodies : <<"body", g>> \notin Range(HeaderPuts(h))
    BY <1>3
  <1> QED  BY <1>1, <1>3, <1>4, PutBodies DEF AddHeader

LEMMA BodiesStep == HistoryInv /\ BodiesInv /\ [Next]_vars => BodiesInv'
  <1> SUFFICES ASSUME HistoryInv, BodiesInv, [Next]_vars PROVE BodiesInv'
    OBVIOUS
  <1>1. TypeOK
    BY DEF HistoryInv
  <1>2. CASE Load \/ Reset \/ Crash \/ UNCHANGED vars
    BY <1>2, SameBodies DEF Load, Reset, Crash, vars
  <1>3. ASSUME NEW i \in 1..Window, Land(i) PROVE BodiesInv'
    BY <1>1, <1>3, LandBodies
  <1>4. ASSUME NEW k \in Sent, NEW h \in Sent, AddHeader(k, h) PROVE BodiesInv'
    BY <1>4, HeaderBodies
  <1>5. ASSUME NEW h \in Bodies, AddBody(h) PROVE BodiesInv'
    <2> DEFINE c == <<"body", h>>
    <2>1. /\ c \in PutType /\ Put(<<c>>) /\ stored' = stored
          /\ \A g \in Bodies : c = <<"body", g>> => <<"header", g>> \in stored
      BY <1>5, StoreAssumption DEF AddBody, HasHeader, PutType, Content
    <2> HIDE DEF c
    <2> QED  BY <1>1, <2>1, PutContentBodies
  <1>6. ASSUME NEW t \in executing, SaveReceipts(t) PROVE BodiesInv'
    <2> DEFINE c == <<"receipt", t.body>>
    <2>1. t.body \in Bodies
      BY <1>1 DEF TypeOK
    <2>2. /\ c \in PutType /\ Put(<<c>>) /\ stored' = stored
          /\ \A g \in Bodies : c # <<"body", g>>
      BY <1>6, <2>1, StoreAssumption DEF SaveReceipts, PutType, Content
    <2> HIDE DEF c
    <2> QED  BY <1>1, <2>2, PutContentBodies
  <1>7. ASSUME NEW t \in executing, ReceiptsFail(t) \/ AnnounceBody(t) PROVE BodiesInv'
    BY <1>7, SameBodies DEF ReceiptsFail, AnnounceBody
  <1>8. ASSUME NEW c \in Unverified, AddUnverified(c) PROVE BodiesInv'
    <2>1. c \in PutType /\ \A g \in Bodies : c # <<"body", g>>
      BY StoreAssumption DEF PutType, Content
    <2>2. Put(<<c>>) /\ stored' = stored
      BY <1>8 DEF AddUnverified
    <2> QED  BY <1>1, <2>1, <2>2, PutContentBodies
  <1>9. ASSUME NEW s \in Snapshots, AddSnapshot(s) PROVE BodiesInv'
    <2> DEFINE c == <<"acc", s>>
    <2>1. /\ c \in PutType /\ Put(<<c>>) /\ stored' = stored
          /\ \A g \in Bodies : c # <<"body", g>>
      BY <1>9, StoreAssumption, ChainType DEF AddSnapshot, PutType
    <2> HIDE DEF c
    <2> QED  BY <1>1, <2>1, PutContentBodies
  <1> QED  BY <1>2, <1>3, <1>4, <1>5, <1>6, <1>7, <1>8, <1>9 DEF Next

\* No crash and no order in which puts become durable leaves the database with
\* a block body whose header it does not have.
THEOREM BodiesHaveHeadersAlways == Spec => []BodiesHaveHeaders
  <1>1. Init => BodiesInv
    BY RangeEmpty DEF Init, BodiesInv
  <1>2. BodiesInv => BodiesHaveHeaders
    BY DEF BodiesInv, BodiesHaveHeaders
  <1> QED  BY <1>1, <1>2, InitHistory, HistoryStep, BodiesStep, PTL DEF Spec

----------------------------------------------------------------------------
(* A queue that waits to be emptied is full.                               *)

KeepsOffered(g) ==
  g.resets # <<>> /\ Head(g.resets).first =>
    Range(g.queue) \subseteq g.offered /\ Len(g.queue) >= GossipLimit

LEMMA AnnounceKeeps ==
  ASSUME NEW g \in Gossip, KeepsOffered(g), NEW c \in Content, NEW b
  PROVE  KeepsOffered(Announce(g, c, b))
  <1> DEFINE q == Append(g.queue, c)
             reset == [body |-> b, first |-> TRUE]
  <1>1. g.queue \in Seq(Content) /\ Len(q) = Len(g.queue) + 1
    BY GossipFields
  <1>2. CASE ~ Connected
    BY <1>2 DEF Announce
  <1>3. CASE Connected /\ Len(q) >= GossipLimit
    <2>1. Announce(g, c, b) =
            [queue |-> q, resets |-> Append(g.resets, reset), offered |-> Range(q)]
      BY <1>3 DEF Announce
    <2> QED  BY <1>3, <2>1 DEF KeepsOffered
  <1>4. CASE Connected /\ ~ (Len(q) >= GossipLimit)
    <2>1. Announce(g, c, b) = [g EXCEPT !.queue = q]
      BY <1>4 DEF Announce
    <2>2. Announce(g, c, b).resets = g.resets
      BY <2>1, GossipFields
    <2>3. ~ (g.resets # <<>> /\ Head(g.resets).first)
      BY <1>1, <1>4, StoreAssumption DEF KeepsOffered
    <2> QED  BY <2>2, <2>3 DEF KeepsOffered
  <1> QED  BY <1>2, <1>3, <1>4

LEMMA GossipStep == HistoryInv /\ GossipInv /\ [Next]_vars => GossipInv'
  <1> SUFFICES ASSUME HistoryInv, KeepsOffered(gossip), [Next]_vars PROVE KeepsOffered(gossip')
    BY DEF GossipInv, KeepsOffered
  <1>1. TypeOK /\ AccumulatorIsChain /\ gossip \in Gossip
    BY DEF HistoryInv, TypeOK
  <1>2. CASE UNCHANGED gossip
    BY <1>2
  <1>3. CASE Reset
    <2> DEFINE rest == [i \in 1..Len(gossip.resets) - 1 |->
                          [gossip.resets[i + 1] EXCEPT !.first = FALSE]]
    <2>1. gossip.resets # <<>> /\ gossip'.resets = rest /\ gossip.resets \in Seq(Call)
      BY <1>1, <1>3, GossipFields DEF Reset
    <2>2. rest # <<>> => ~ Head(rest).first
      BY <2>1, CallsLeft
    <2> HIDE DEF rest
    <2> QED  BY <2>1, <2>2 DEF KeepsOffered
  <1>4. CASE Crash
    BY <1>4 DEF Crash, NoGossip, KeepsOffered
  <1>5. ASSUME NEW k \in Sent, NEW h \in Sent, AddHeader(k, h) PROVE KeepsOffered(gossip')
    <2>1. h \in Headers /\ (acc # Empty \/ Number[h] # 0)
      BY <1>5, StoreAssumption DEF AddHeader, Empty
    <2>2. Seals(h) => SealedEpoch \in Content
      BY <1>1, <2>1, HeaderPutsType
    <2>3. <<"header", h>> \in Content /\ <<>> \in Seq(Bodies)
      BY <2>1 DEF Content
    <2> DEFINE g == IF Seals(h) THEN Announce(gossip, SealedEpoch, <<>>) ELSE gossip
    <2>4. g \in Gossip /\ KeepsOffered(g)
      BY <1>1, <2>2, <2>3, AnnounceType, AnnounceKeeps
    <2>5. gossip' = Announce(g, <<"header", h>>, <<>>)
      BY <1>5 DEF AddHeader
    <2> HIDE DEF g
    <2> QED  BY <2>3, <2>4, <2>5, AnnounceKeeps
  <1>6. ASSUME NEW t \in executing, SaveReceipts(t) \/ AnnounceBody(t)
        PROVE  KeepsOffered(gossip')
    <2>1. t.body \in Headers
      BY <1>1, StoreAssumption DEF TypeOK
    <2>2. <<"receipt", t.body>> \in Content /\ <<"body", t.body>> \in Content
      BY <2>1 DEF Content
    <2>3. \/ gossip' = Announce(gossip, <<"receipt", t.body>>, <<t.body>>)
          \/ gossip' = Announce(gossip, <<"body", t.body>>, <<>>)
      BY <1>6 DEF SaveReceipts, AnnounceBody
    <2> QED  BY <1>1, <2>2, <2>3, AnnounceKeeps
  <1>7. ASSUME NEW c \in Unverified, AddUnverified(c) PROVE KeepsOffered(gossip')
    <2>1. c \in Content
      BY StoreAssumption DEF Content
    <2> QED  BY <1>1, <1>7, <2>1, AnnounceKeeps DEF AddUnverified
  <1> QED  BY <1>2, <1>3, <1>4, <1>5, <1>6, <1>7
           DEF Next, vars, Load, Land, AddBody, ReceiptsFail, AddSnapshot

\* A call that empties the gossip queue it has offered to peers drops nothing
\* that another call put there while it waited: that call has offered it, since
\* the queue was full then as well.
THEOREM OwnResetLosesNothingAlways == Spec => []OwnResetLosesNothing
  <1>1. Init => GossipInv
    BY DEF Init, NoGossip, GossipInv
  <1>2. GossipInv => OwnResetLosesNothing
    BY DEF GossipInv, OwnResetLosesNothing
  <1> QED  BY <1>1, <1>2, InitHistory, HistoryStep, GossipStep, PTL DEF Spec

----------------------------------------------------------------------------
(* Each epoch is put before an accumulator that names it by its hash only, *)
(* and lands before it when the database finishes puts in their order.     *)

\* The epochs a names were adopted with a snapshot or are among the puts st.
Kept(a, st, ad) ==
  \A i \in 1..Len(a.epochs) :
    Hashes(a.epochs[i]) \subseteq ad \/ <<"epoch", a.epochs[i]>> \in st

\* Each accumulator on its way names such as come before it.
KeptInOrder(p, st, ad) ==
  \A i \in 1..Len(p) : p[i][1] = "acc" => Kept(p[i][2], st \cup {p[j] : j \in 1..i - 1}, ad)

EpochsInv ==
  /\ \A a \in Range(accStored) \cup Range(reading) : Kept(a, stored, adopted)
  /\ Kept(acc, stored \cup Range(pending), adopted)
  /\ KeptInOrder(pending, stored, adopted)

LEMMA KeptMore ==
  ASSUME NEW a, NEW st, NEW ad, NEW st2, NEW ad2, Kept(a, st, ad), st \subseteq st2,
         ad \subseteq ad2
  PROVE  Kept(a, st2, ad2)
  BY DEF Kept

LEMMA KeptInOrderMore ==
  ASSUME NEW p, NEW st, NEW ad, NEW ad2, KeptInOrder(p, st, ad), ad \subseteq ad2
  PROVE  KeptInOrder(p, st, ad2)
  BY DEF Kept, KeptInOrder

LEMMA NoEpochsKept ==
  ASSUME NEW st, NEW ad
  PROVE  Kept(Empty, st, ad) /\ Kept(GenesisAccumulator, st, ad)
  <1>1. Len(Empty.epochs) = 0
    BY DEF Empty
  <1>2. GenesisAccumulator.epochs = Empty.epochs
    BY AccumulatorAssumption DEF GenesisAccumulator, Update, IsFull, Empty
  <1> QED  BY <1>1, <1>2 DEF Kept

\* Puts u behind the puts p.
LEMMA KeptBehind ==
  ASSUME NEW p \in Seq(PutType), NEW u \in Seq(PutType), NEW st, NEW ad,
         KeptInOrder(p, st, ad),
         \A i \in 1..Len(u) : u[i][1] = "acc" =>
           Kept(u[i][2], st \cup Range(p) \cup {u[j] : j \in 1..i - 1}, ad)
  PROVE  KeptInOrder(p \o u, st, ad)
  <1> DEFINE pu == p \o u
             before(i) == {pu[j] : j \in 1..i - 1}
  <1>1. /\ pu \in Seq(PutType) /\ Len(pu) = Len(p) + Len(u)
        /\ \A j \in 1 .. Len(p) + Len(u) :
             pu[j] = IF j <= Len(p) THEN p[j] ELSE u[j - Len(p)]
    BY ConcatenationProperties
  <1>2. Len(p) \in Nat /\ Len(u) \in Nat
    OBVIOUS
  <1> HIDE DEF pu
  <1>3. ASSUME NEW i \in 1..Len(p) + Len(u), pu[i][1] = "acc"
        PROVE  Kept(pu[i][2], st \cup before(i), ad)
    <2>1. CASE i <= Len(p)
      <3>1. pu[i] = p[i] /\ i \in 1..Len(p)
        BY <1>1, <1>2, <2>1
      <3>2. \A j \in 1..i - 1 : pu[j] = p[j]
        BY <1>1, <1>2, <2>1
      <3>3. Kept(p[i][2], st \cup {p[j] : j \in 1..i - 1}, ad)
        BY <1>3, <3>1 DEF KeptInOrder
      <3>4. {p[j] : j \in 1..i - 1} \subseteq before(i)
        BY <3>2
      <3> HIDE DEF before
      <3>5. st \cup {p[j] : j \in 1..i - 1} \subseteq st \cup before(i)
        BY <3>4
      <3> QED  BY <3>1, <3>3, <3>5, KeptMore
    <2>2. CASE ~ (i <= Len(p))
      <3> DEFINE l == i - Len(p)
      <3>1. l \in 1..Len(u) /\ pu[i] = u[l]
        BY <1>1, <1>2, <2>2
      <3>2. Kept(u[l][2], st \cup Range(p) \cup {u[j] : j \in 1..l - 1}, ad)
        BY <1>3, <3>1
      <3>3. Range(p) \subseteq before(i)
        <4>1. \A j \in 1..Len(p) : j \in 1..i - 1 /\ pu[j] = p[j]
          BY <1>1, <1>2, <2>2
        <4> QED  BY <4>1, InRange
      <3>4. {u[j] : j \in 1..l - 1} \subseteq before(i)
        <4>1. \A j \in 1..l - 1 : j + Len(p) \in 1..i - 1 /\ pu[j + Len(p)] = u[j]
          <5> TAKE j \in 1..l - 1
          <5>1. /\ j + Len(p) \in 1..i - 1 /\ j + Len(p) \in 1 .. Len(p) + Len(u)
                /\ ~ (j + Len(p) <= Len(p)) /\ (j + Len(p)) - Len(p) = j
            BY <1>2, <2>2
          <5> QED  BY <1>1, <5>1
        <4> QED  BY <4>1
      <3> HIDE DEF before, l
      <3>5. st \cup Range(p) \cup {u[j] : j \in 1..l - 1} \subseteq st \cup before(i)
        BY <3>3, <3>4
      <3> QED  BY <3>1, <3>2, <3>5, KeptMore
    <2> QED  BY <2>1, <2>2
  <1>4. KeptInOrder(pu, st, ad)
    BY <1>1, <1>3 DEF KeptInOrder
  <1> QED  BY <1>4 DEF pu

\* The oldest put lands.
LEMMA KeptLanding ==
  ASSUME NEW p \in Seq(PutType), 1 <= Len(p), NEW st, NEW st2, NEW ad,
         KeptInOrder(p, st, ad), st \subseteq st2, p[1][1] # "acc" => p[1] \in st2
  PROVE  KeptInOrder(Without(p, 1), st2, ad)
  <1> DEFINE w == Without(p, 1)
  <1>1. Len(w) = Len(p) - 1 /\ Len(p) \in Nat /\ \A j \in 1..Len(p) - 1 : w[j] = p[j + 1]
    <2>1. Len(p) \in Nat /\ 1 \in 1..Len(p)
      OBVIOUS
    <2>2. /\ Len(w) = Len(p) - 1
          /\ \A j \in 1..Len(p) - 1 : w[j] = p[IF j < 1 THEN j ELSE j + 1]
      BY <2>1, WithoutProperties
    <2> HIDE DEF w
    <2>3. \A j \in 1..Len(p) - 1 : ~ (j < 1)
      BY <2>1
    <2> QED  BY <2>1, <2>2, <2>3
  <1> HIDE DEF w
  <1>2. ASSUME NEW i \in 1..Len(w), w[i][1] = "acc"
        PROVE  Kept(w[i][2], st2 \cup {w[j] : j \in 1..i - 1}, ad)
    <2>1. w[i] = p[i + 1] /\ i + 1 \in 1..Len(p) /\ (i + 1) - 1 = i /\ i \in Nat
      BY <1>1
    <2>2. Kept(p[i + 1][2], st \cup {p[j] : j \in 1..i}, ad)
      BY <1>2, <2>1 DEF KeptInOrder
    <2>3. SUFFICES ASSUME NEW k \in 1..Len(w[i][2].epochs)
                   PROVE  \/ Hashes(w[i][2].epochs[k]) \subseteq ad
                          \/ <<"epoch", w[i][2].epochs[k]>> \in st2 \cup {w[j] : j \in 1..i - 1}
      BY DEF Kept
    <2> DEFINE e == <<"epoch", w[i][2].epochs[k]>>
    <2>4. Hashes(w[i][2].epochs[k]) \subseteq ad \/ e \in st \cup {p[j] : j \in 1..i}
      BY <2>1, <2>2 DEF Kept
    <2>5. e[1] = "epoch"
      OBVIOUS
    <2> HIDE DEF e
    <2>6. ASSUME NEW j \in 1..i, e = p[j] PROVE e \in st2 \cup {w[l] : l \in 1..i - 1}
      <3>1. CASE j = 1
        BY <2>5, <2>6, <3>1
      <3>2. CASE j # 1
        <4>1. j - 1 \in 1..i - 1 /\ j - 1 \in 1..Len(p) - 1 /\ (j - 1) + 1 = j
          BY <1>1, <2>1, <3>2
        <4>2. w[j - 1] = p[j]
          BY <1>1, <4>1
        <4> QED  BY <2>6, <4>1, <4>2
      <3> QED  BY <3>1, <3>2
    <2> QED  BY <2>4, <2>6 DEF e
  <1>3. KeptInOrder(w, st2, ad)
    BY <1>2 DEF KeptInOrder
  <1> QED  BY <1>3 DEF w

LEMMA LandEpochs ==
  ASSUME TypeOK, EpochsInv, Land(1) PROVE EpochsInv'
  <1>1. /\ pending \in Seq(PutType) /\ 1 <= Len(pending) /\ pending' = Without(pending, 1)
        /\ acc' = acc /\ reading' = reading /\ adopted' = adopted
    BY DEF TypeOK, Land
  <1> DEFINE c == pending[1]
  <1>2. \/ c[1] = "acc" /\ accStored' = <<c[2]>> /\ stored' = stored
        \/ c[1] # "acc" /\ accStored' = accStored /\ stored' = stored \cup {c}
    BY DEF Land
  <1>3. stored \subseteq stored' /\ (c[1] # "acc" => c \in stored')
    BY <1>2
  <1>4. KeptInOrder(pending', stored', adopted')
    BY <1>1, <1>3, KeptLanding DEF EpochsInv
  <1>5. Kept(acc', stored' \cup Range(pending'), adopted')
    <2>1. \A i \in 1..Len(acc.epochs) :
            \/ Hashes(acc.epochs[i]) \subseteq adopted
            \/ <<"epoch", acc.epochs[i]>> \in stored \cup Range(pending)
      BY DEF EpochsInv, Kept
    <2>2. ASSUME NEW e \in Range(pending), e[1] = "epoch" PROVE e \in stored' \cup Range(pending')
      <3>1. PICK j \in 1..Len(pending) : e = pending[j]
        BY <1>1, InRange
      <3>2. CASE j = 1
        BY <1>3, <2>2, <3>1, <3>2
      <3>3. CASE j # 1
        <4>1. /\ Without(pending, 1) \in Seq(PutType)
              /\ Len(Without(pending, 1)) = Len(pending) - 1 /\ Len(pending) \in Nat
              /\ \A l \in 1..Len(pending) - 1 : Without(pending, 1)[l] = pending[l + 1]
          BY <1>1, WithoutProperties
        <4>2. j - 1 \in 1..Len(pending) - 1 /\ (j - 1) + 1 = j
          BY <3>3, <4>1
        <4> QED  BY <1>1, <3>1, <4>1, <4>2, InRange
      <3> QED  BY <3>2, <3>3
    <2>3. \A i \in 1..Len(acc.epochs) :
            \/ Hashes(acc.epochs[i]) \subseteq adopted
            \/ <<"epoch", acc.epochs[i]>> \in stored' \cup Range(pending')
      <3> TAKE i \in 1..Len(acc.epochs)
      <3>1. <<"epoch", acc.epochs[i]>>[1] = "epoch"
        OBVIOUS
      <3> QED  BY <1>3, <2>1, <2>2, <3>1
    <2> QED  BY <1>1, <2>3 DEF Kept
  <1>6. ASSUME NEW a \in Range(accStored') \cup Range(reading')
        PROVE  Kept(a, stored', adopted')
    <2>1. CASE a \in Range(accStored) \cup Range(reading)
      BY <1>1, <1>3, <2>1, KeptMore DEF EpochsInv
    <2>2. CASE c[1] = "acc" /\ a = c[2]
      <3>1. 1 \in 1..Len(pending) /\ {pending[j] : j \in 1..1 - 1} = {}
        BY <1>1
      <3>2. Kept(c[2], stored \cup {}, adopted)
        BY <2>2, <3>1 DEF EpochsInv, KeptInOrder
      <3> QED  BY <1>1, <1>3, <2>2, <3>2, KeptMore
    <2> QED  BY <1>1, <1>2, <2>1, <2>2, RangeSingle
  <1> QED  BY <1>4, <1>5, <1>6 DEF EpochsInv

\* Steps that put something, and do not touch what is stored and read.
LEMMA PutEpochs ==
  ASSUME TypeOK, EpochsInv, NEW puts \in Seq(PutType), Put(puts),
         UNCHANGED <<reading, stored, accStored>>, adopted \subseteq adopted',
         \A i \in 1..Len(puts) : puts[i][1] = "acc" =>
           Kept(puts[i][2], stored \cup Range(pending) \cup {puts[j] : j \in 1..i - 1}, adopted'),
         acc' = acc \/ Kept(acc', stored \cup Range(pending) \cup Range(puts), adopted')
  PROVE  EpochsInv'
  <1>1. /\ pending \in Seq(PutType) /\ pending' = pending \o puts
        /\ Range(pending') = Range(pending) \cup Range(puts)
    BY PutProperties DEF TypeOK, Put
  <1>2. KeptInOrder(pending, stored, adopted')
    BY KeptInOrderMore DEF EpochsInv
  <1>3. KeptInOrder(pending', stored', adopted')
    BY <1>1, <1>2, KeptBehind
  <1>4. Kept(acc', stored' \cup Range(pending'), adopted')
    <2>1. Kept(acc, stored \cup Range(pending), adopted)
      BY DEF EpochsInv
    <2>2. stored \cup Range(pending) \subseteq stored' \cup Range(pending')
      BY <1>1
    <2>3. CASE acc' = acc
      BY <2>1, <2>2, <2>3, KeptMore
    <2>4. CASE Kept(acc', stored \cup Range(pending) \cup Range(puts), adopted')
      <3>1. stored \cup Range(pending) \cup Range(puts) \subseteq stored' \cup Range(pending')
        BY <1>1
      <3> QED  BY <2>4, <3>1, KeptMore
    <2> QED  BY <2>3, <2>4
  <1>5. \A a \in Range(accStored') \cup Range(reading') : Kept(a, stored', adopted')
    BY KeptMore DEF EpochsInv
  <1> QED  BY <1>3, <1>4, <1>5 DEF EpochsInv

\* One put.
LEMMA PutOneEpochs ==
  ASSUME TypeOK, EpochsInv, NEW c \in PutType, Put(<<c>>),
         UNCHANGED <<reading, stored, accStored>>, adopted \subseteq adopted',
         c[1] = "acc" => Kept(c[2], stored, adopted'),
         acc' = acc \/ Kept(acc', stored, adopted')
  PROVE  EpochsInv'
  <1> DEFINE u == <<c>>
  <1>1. u \in Seq(PutType) /\ Len(u) = 1 /\ u[1] = c
    OBVIOUS
  <1>2. Put(u)
    OBVIOUS
  <1> HIDE DEF u
  <1>3. \A i \in 1..Len(u) : u[i][1] = "acc" =>
          Kept(u[i][2], stored \cup Range(pending) \cup {u[j] : j \in 1..i - 1}, adopted')
    <2> SUFFICES ASSUME NEW i \in 1..Len(u), u[i][1] = "acc"
                 PROVE  Kept(u[i][2], stored \cup Range(pending) \cup {u[j] : j \in 1..i - 1}, adopted')
      OBVIOUS
    <2>1. Kept(u[i][2], stored, adopted')
      BY <1>1
    <2> QED  BY <2>1, KeptMore
  <1>4. acc' = acc \/ Kept(acc', stored \cup Range(pending) \cup Range(u), adopted')
    BY KeptMore
  <1> QED  BY <1>1, <1>2, <1>3, <1>4, PutEpochs

LEMMA ThreeOfThem ==
  ASSUME NEW x, NEW y, NEW z
  PROVE  LET s == <<x>> \o <<y>> \o <<z>> IN Len(s) = 3 /\ s[1] = x /\ s[2] = y /\ s[3] = z
  <1> DEFINE s == <<x>> \o <<y>> \o <<z>>
             S == {x, y, z}
             t == <<x>> \o <<y>>
  <1>1. <<x>> \in Seq(S) /\ <<y>> \in Seq(S) /\ <<z>> \in Seq(S)
    OBVIOUS
  <1>2. t \in Seq(S) /\ Len(t) = 2 /\ t[1] = x /\ t[2] = y
    <2> DEFINE p == <<x>>
               q == <<y>>
    <2>1. /\ p \in Seq(S) /\ q \in Seq(S) /\ t = p \o q
          /\ Len(p) = 1 /\ p[1] = x /\ Len(q) = 1 /\ q[1] = y
      BY <1>1
    <2> HIDE DEF p, q, t, S
    <2>2. /\ t \in Seq(S) /\ Len(t) = Len(p) + Len(q)
          /\ \A j \in 1 .. Len(p) + Len(q) : t[j] = IF j <= Len(p) THEN p[j] ELSE q[j - Len(p)]
      BY <2>1, ConcatenationProperties
    <2> QED  BY <2>1, <2>2
  <1>3. s = t \o <<z>>
    OBVIOUS
  <1> HIDE DEF s, t, S
  <1>4. Len(s) = 3 /\ s[1] = x /\ s[2] = y /\ s[3] = z
    <2> DEFINE r == <<z>>
    <2>1. r \in Seq(S) /\ s = t \o r /\ Len(r) = 1 /\ r[1] = z
      BY <1>1, <1>3
    <2> HIDE DEF r
    <2>2. /\ Len(s) = Len(t) + Len(r)
          /\ \A i \in 1 .. Len(t) + Len(r) : s[i] = IF i <= Len(t) THEN t[i] ELSE r[i - Len(t)]
      BY <1>2, <2>1, ConcatenationProperties
    <2> QED  BY <1>2, <2>1, <2>2
  <1> QED  BY <1>4 DEF s

LEMMA TwoOfThem ==
  ASSUME NEW x, NEW y, NEW s, s = <<>> \o <<x>> \o <<y>>
  PROVE  Len(s) = 2 /\ s[1] = x /\ s[2] = y
  <1> DEFINE S == {x, y}
             t == <<>> \o <<x>>
  <1>1. <<>> \in Seq(S) /\ <<x>> \in Seq(S) /\ <<y>> \in Seq(S)
    OBVIOUS
  <1>2. t \in Seq(S) /\ Len(t) = 1 /\ t[1] = x
    BY <1>1
  <1>3. s = t \o <<y>>
    OBVIOUS
  <1> HIDE DEF t, S
  <1> QED  BY <1>1, <1>2, <1>3

LEMMA HeaderEpochs ==
  ASSUME HistoryInv, EpochsInv, NEW k \in Sent, NEW h \in Sent, AddHeader(k, h)
  PROVE  EpochsInv'
  <1>1. TypeOK /\ AccumulatorIsChain
    BY DEF HistoryInv
  <1>2. h \in Headers /\ (acc # Empty \/ Number[h] # 0)
    BY StoreAssumption DEF AddHeader, Empty
  <1> DEFINE u == HeaderPuts(h)
             a == Update(acc, h)
             x == <<"acc", a>>
             z == <<"header", h>>
  <1>3. u \in Seq(PutType) /\ Put(u) /\ adopted' = adopted
        /\ UNCHANGED <<reading, stored, accStored>>
    BY <1>1, <1>2, HeaderPutsType DEF AddHeader
  <1>4. acc' = IF IsNext(h) THEN a ELSE acc
    BY DEF AddHeader
  <1>5. x[1] = "acc" /\ x[2] = a /\ z[1] = "header" /\ SealedEpoch[1] = "epoch"
    BY DEF SealedEpoch
  <1>6. Kept(acc, stored \cup Range(pending), adopted)
    BY DEF EpochsInv
  <1>7. CASE Seals(h)
    <2>1. IsNext(h) /\ IsFull(acc) /\ acc.epochs \in Seq(Seq(Record)) /\ acc.current \in Seq(Record)
      BY <1>1, <1>2, <1>7, HeaderTaken DEF Seals, IsChain, WellFormed, Accumulator
    <2>2. a.epochs = Append(acc.epochs, acc.current)
      BY <2>1 DEF Update
    <2> DEFINE e == SealedEpoch
    <2>3. u = <<e>> \o <<x>> \o <<z>>
      BY <1>7, <2>1 DEF HeaderPuts
    <2>4. Kept(a, stored \cup Range(pending) \cup {SealedEpoch}, adopted)
      <3>1. \A i \in 1..Len(a.epochs) :
              \/ a.epochs[i] = acc.current
              \/ i \in 1..Len(acc.epochs) /\ a.epochs[i] = acc.epochs[i]
        BY <2>1, <2>2
      <3> QED  BY <1>6, <3>1 DEF Kept, SealedEpoch
    <2> HIDE DEF u, x, z, a, e
    <2>5. Len(u) = 3 /\ u[1] = e /\ u[2] = x /\ u[3] = z
      <3> DEFINE v == <<e>> \o <<x>> \o <<z>>
      <3>1. Len(v) = 3 /\ v[1] = e /\ v[2] = x /\ v[3] = z
        BY ThreeOfThem
      <3>2. u = v
        BY <2>3
      <3> HIDE DEF v
      <3> QED  BY <3>1, <3>2
    <2>6. ASSUME NEW i \in 1..Len(u), u[i][1] = "acc"
          PROVE  Kept(u[i][2], stored \cup Range(pending) \cup {u[j] : j \in 1..i - 1}, adopted')
      <3>1. i = 2 /\ u[i][2] = a
        BY <1>5, <2>5, <2>6 DEF e
      <3>2. SealedEpoch \in {u[j] : j \in 1..i - 1}
        BY <2>5, <3>1 DEF e
      <3>3. stored \cup Range(pending) \cup {SealedEpoch}
              \subseteq stored \cup Range(pending) \cup {u[j] : j \in 1..i - 1}
        BY <3>2
      <3> QED  BY <1>3, <2>4, <3>1, <3>3, KeptMore
    <2>7. Kept(acc', stored \cup Range(pending) \cup Range(u), adopted')
      <3>1. SealedEpoch \in Range(u)
        BY <1>3, <2>5, InRange DEF e
      <3>2. stored \cup Range(pending) \cup {SealedEpoch}
              \subseteq stored \cup Range(pending) \cup Range(u)
        BY <3>1
      <3> QED  BY <1>3, <1>4, <2>1, <2>4, <3>2, KeptMore
    <2> QED  BY <1>1, <1>3, <2>6, <2>7, PutEpochs
  <1>8. CASE IsNext(h) /\ ~ Seals(h)
    <2>1. a.epochs = acc.epochs
      <3>1. ~ IsFull(acc) /\ acc \in Accumulator
        BY <1>1, <1>2, <1>8, HeaderTaken DEF Seals, IsChain, WellFormed
      <3> QED  BY <3>1 DEF Update, Accumulator
    <2>2. Kept(a, stored \cup Range(pending), adopted')
      BY <1>3, <1>6, <2>1 DEF Kept
    <2>3. u = <<>> \o <<x>> \o <<z>>
      BY <1>8 DEF HeaderPuts
    <2> HIDE DEF u, x, z, a
    <2>4. Len(u) = 2 /\ u[1] = x /\ u[2] = z
      BY <2>3, TwoOfThem
    <2>5. ASSUME NEW i \in 1..Len(u), u[i][1] = "acc"
          PROVE  Kept(u[i][2], stored \cup Range(pending) \cup {u[j] : j \in 1..i - 1}, adopted')
      <3>1. u[i][2] = a
        BY <1>5, <2>4, <2>5
      <3> QED  BY <2>2, <3>1, KeptMore
    <2>6. Kept(acc', stored \cup Range(pending) \cup Range(u), adopted')
      BY <1>4, <1>8, <2>2, KeptMore
    <2> QED  BY <1>1, <1>3, <2>5, <2>6, PutEpochs
  <1>9. CASE ~ IsNext(h)
    <2>1. u = <<z>>
      BY <1>9 DEF HeaderPuts, Seals
    <2>2. Len(u) = 1 /\ u[1] = z /\ acc' = acc
      BY <1>4, <1>9, <2>1
    <2> HIDE DEF u, x, z, a
    <2>3. \A i \in 1..Len(u) : u[i][1] # "acc"
      BY <1>5, <2>2
    <2> QED  BY <1>1, <1>3, <2>2, <2>3, PutEpochs
  <1> QED  BY <1>7, <1>8, <1>9

\* What a snapshot names is adopted with it.
LEMMA SnapshotKept ==
  ASSUME NEW s \in Accumulator, NEW st, NEW ad, HashesOf(s) \subseteq ad
  PROVE  Kept(s, st, ad)
  <1>1. s.epochs \in Seq(Seq(Record))
    BY DEF Accumulator
  <1>2. \A i \in 1..Len(s.epochs) : i \in 1..EpochCount(s) /\ Epoch(s, i) = s.epochs[i]
    BY <1>1 DEF EpochCount, Epoch
  <1> QED  BY <1>2 DEF Kept, HashesOf

LEMMA EpochsStep ==
  ASSUME Window = 1, HistoryInv, EpochsInv, [Next]_vars PROVE EpochsInv'
  <1>1. TypeOK
    BY DEF HistoryInv
  <1>2. CASE Load
    <2>1. /\ acc' = reading[1] /\ reading' = <<>> /\ reading # <<>>
          /\ UNCHANGED <<stored, accStored, pending, adopted>>
      BY <1>2 DEF Load
    <2>2. reading[1] \in Range(reading)
      BY <1>1, <2>1, InRange DEF TypeOK
    <2>3. Kept(acc', stored, adopted)
      BY <2>1, <2>2 DEF EpochsInv
    <2>4. Kept(acc', stored \cup Range(pending), adopted)
      BY <2>3, KeptMore
    <2> QED  BY <2>1, <2>4, RangeEmpty DEF EpochsInv
  <1>3. CASE Reset \/ UNCHANGED vars
    BY <1>3 DEF Reset, vars, EpochsInv
  <1>4. CASE Crash
    <2>1. /\ acc' = Empty /\ reading' = <<StoredOrGenesis>> /\ pending' = <<>>
          /\ UNCHANGED <<stored, accStored, adopted>>
      BY <1>4 DEF Crash
    <2>2. Kept(StoredOrGenesis, stored, adopted)
      <3>1. accStored # <<>> => accStored[1] \in Range(accStored)
        BY <1>1, InRange DEF TypeOK
      <3> QED  BY <3>1, NoEpochsKept DEF EpochsInv, StoredOrGenesis
    <2>3. \A a \in Range(reading') : Kept(a, stored, adopted)
      BY <2>1, <2>2, RangeSingle
    <2>4. Kept(acc', stored' \cup Range(pending'), adopted')
      BY <2>1, NoEpochsKept
    <2>5. KeptInOrder(pending', stored', adopted')
      <3>1. Len(pending') = 0
        BY <2>1
      <3> QED  BY <3>1 DEF KeptInOrder
    <2> QED  BY <2>1, <2>3, <2>4, <2>5 DEF EpochsInv
  <1>5. ASSUME NEW i \in 1..Window, Land(i) PROVE EpochsInv'
    <2>1. i = 1
      OBVIOUS
    <2> QED  BY <1>1, <1>5, <2>1, LandEpochs
  <1>6. ASSUME NEW k \in Sent, NEW h \in Sent, AddHeader(k, h) PROVE EpochsInv'
    BY <1>6, HeaderEpochs
  <1>7. ASSUME NEW h \in Bodies, AddBody(h) PROVE EpochsInv'
    <2> DEFINE c == <<"body", h>>
    <2>1. /\ c \in PutType /\ Put(<<c>>) /\ c[1] # "acc" /\ acc' = acc
          /\ UNCHANGED <<reading, stored, accStored>> /\ adopted \subseteq adopted'
      BY <1>7, StoreAssumption DEF AddBody, PutType, Content
    <2> HIDE DEF c
    <2> QED  BY <1>1, <2>1, PutOneEpochs
  <1>8. ASSUME NEW t \in executing, SaveReceipts(t) PROVE EpochsInv'
    <2> DEFINE c == <<"receipt", t.body>>
    <2>1. t.body \in Bodies
      BY <1>1 DEF TypeOK
    <2>2. /\ c \in PutType /\ Put(<<c>>) /\ c[1] # "acc" /\ acc' = acc
          /\ UNCHANGED <<reading, stored, accStored>> /\ adopted \subseteq adopted'
      BY <1>8, <2>1, StoreAssumption DEF SaveReceipts, PutType, Content
    <2> HIDE DEF c
    <2> QED  BY <1>1, <2>2, PutOneEpochs
  <1>9. ASSUME NEW t \in executing, ReceiptsFail(t) \/ AnnounceBody(t) PROVE EpochsInv'
    BY <1>9 DEF ReceiptsFail, AnnounceBody, EpochsInv
  <1>10. ASSUME NEW c \in Unverified, AddUnverified(c) PROVE EpochsInv'
    <2>1. c \in PutType /\ c[1] # "acc"
      BY StoreAssumption DEF PutType, Content
    <2>2. Put(<<c>>) /\ acc' = acc /\ UNCHANGED <<reading, stored, accStored>>
          /\ adopted \subseteq adopted'
      BY <1>10 DEF AddUnverified
    <2> QED  BY <1>1, <2>1, <2>2, PutOneEpochs
  <1>11. ASSUME NEW s \in Snapshots, AddSnapshot(s) PROVE EpochsInv'
    <2> DEFINE c == <<"acc", s>>
    <2>1. s \in Accumulator
      BY StoreAssumption, ChainType
    <2>2. /\ c \in PutType /\ Put(<<c>>) /\ c[2] = s /\ acc' = s
          /\ UNCHANGED <<reading, stored, accStored>>
          /\ adopted' = adopted \cup HashesOf(s)
      BY <1>11, <2>1 DEF AddSnapshot, PutType
    <2>3. Kept(s, stored, adopted')
      BY <2>1, <2>2, SnapshotKept
    <2> HIDE DEF c
    <2> QED  BY <1>1, <2>2, <2>3, PutOneEpochs
  <1> QED  BY <1>2, <1>3, <1>4, <1>5, <1>6, <1>7, <1>8, <1>9, <1>10, <1>11 DEF Next

\* When the database finishes puts in their order, no crash leaves it with an
\* accumulator that names an epoch it has not got, but for those adopted with a
\* snapshot.
THEOREM EpochsAreStoredInOrder ==
  ASSUME Window = 1 PROVE Spec => []EpochsAreStored
  <1>1. Init => EpochsInv
    <2> SUFFICES ASSUME Init PROVE EpochsInv
      OBVIOUS
    <2>1. /\ acc = Empty /\ Range(reading) = {GenesisAccumulator} /\ Range(accStored) = {}
          /\ Len(pending) = 0
      BY RangeEmpty, RangeSingle DEF Init
    <2> QED  BY <2>1, NoEpochsKept DEF EpochsInv, KeptInOrder
  <1>2. HistoryInv /\ EpochsInv /\ [Next]_vars => EpochsInv'
    BY EpochsStep
  <1>3. EpochsInv => EpochsAreStored
    BY DEF EpochsInv, Kept, EpochsAreStored
  <1> QED  BY <1>1, <1>2, <1>3, InitHistory, HistoryStep, PTL DEF Spec

----------------------------------------------------------------------------
(* The headers that go missing.  An accumulator is put right before the    *)
(* header it was updated with, and after all others it names.  So when the *)
(* database finishes puts in their order, a crash loses at most one header *)
(* that the stored accumulator names: the one that was to land next.       *)

\* The first n of the puts p.
Oldest(p, n) == {p[j] : j \in {k \in 1..Len(p) : k <= n}}

\* The headers a names are adopted, lost, or among the puts st.
Has(a, st, ad, lost) ==
  \A h \in HashesOf(a) : h \in ad \cup {Genesis} \/ h \in lost \/ <<"header", h>> \in st

\* An accumulator on its way names headers that come before it, and the next.
HasInOrder(p, st, ad, lost) ==
  \A i \in 1..Len(p) : p[i][1] = "acc" => Has(p[i][2], st \cup Oldest(p, i + 1), ad, lost)

LostInv(lost) ==
  /\ \A a \in Range(accStored) : Has(a, stored \cup Oldest(pending, 1), adopted, lost)
  /\ \A a \in Range(reading) : Has(a, stored \cup Range(pending), adopted, lost)
  /\ Has(acc, stored \cup Range(pending), adopted, lost)
  /\ HasInOrder(pending, stored, adopted, lost)

MissingInv ==
  \E lost : IsFiniteSet(lost) /\ Cardinality(lost) <= crashes /\ LostInv(lost)

LEMMA HasMore ==
  ASSUME NEW a, NEW st, NEW ad, NEW lost, NEW st2, NEW ad2, NEW lost2, Has(a, st, ad, lost),
         st \subseteq st2, ad \subseteq ad2, lost \subseteq lost2
  PROVE  Has(a, st2, ad2, lost2)
  BY DEF Has

LEMMA NoHeadersNamed ==
  ASSUME NEW st, NEW ad, NEW lost
  PROVE  Has(Empty, st, ad, lost) /\ Has(GenesisAccumulator, st, ad, lost)
  <1>1. HashesOf(Empty) = {}
    BY DEF HashesOf, Empty, EpochCount, Epoch, Hashes
  <1>2. GenesisAccumulator = [epochs |-> <<>>, current |-> <<NewRecord(Genesis, 0)>>]
    BY AccumulatorAssumption DEF GenesisAccumulator, Update, IsFull, Empty, LastTd
  <1>3. HashesOf(GenesisAccumulator) \subseteq {Genesis}
    <2> DEFINE g == GenesisAccumulator
               r == NewRecord(Genesis, 0)
    <2>1. g.epochs = <<>> /\ g.current = <<r>> /\ r.hash = Genesis
      BY <1>2 DEF NewRecord
    <2> HIDE DEF g, r
    <2>2. EpochCount(g) = 1 /\ Epoch(g, 1) = <<r>>
      BY <2>1 DEF EpochCount, Epoch
    <2>3. \A e \in 1..EpochCount(g) : Hashes(Epoch(g, e)) = {Genesis}
      <3>1. Hashes(<<r>>) = {Genesis}
        BY <2>1 DEF Hashes
      <3> QED  BY <2>2, <3>1
    <2>4. ASSUME NEW h \in HashesOf(g) PROVE h = Genesis
      <3>1. PICK e \in 1..EpochCount(g) : h \in Hashes(Epoch(g, e))
        BY DEF HashesOf
      <3> QED  BY <2>3, <3>1
    <2> QED  BY <2>4 DEF g
  <1> QED  BY <1>1, <1>3 DEF Has

\* An update names one header more.
LEMMA UpdateNames ==
  ASSUME NEW a \in Accumulator, NEW h \in Headers
  PROVE  HashesOf(Update(a, h)) \subseteq HashesOf(a) \cup {h}
  <1> DEFINE b == Update(a, h)
             r == NewRecord(h, LastTd(a))
  <1>1. a.epochs \in Seq(Seq(Record)) /\ a.current \in Seq(Record) /\ r.hash = h
    BY DEF Accumulator, NewRecord
  <1> HIDE DEF r
  <1>2. \A e \in 1..EpochCount(a) : Hashes(Epoch(a, e)) \subseteq HashesOf(a)
    BY DEF HashesOf
  <1>3. CASE IsFull(a)
    <2>1. b.epochs = Append(a.epochs, a.current) /\ b.current = <<r>>
      BY <1>3 DEF Update, r
    <2> HIDE DEF b
    <2>2. ASSUME NEW e \in 1..EpochCount(b)
          PROVE  Epoch(b, e) = <<r>> \/ (e \in 1..EpochCount(a) /\ Epoch(b, e) = Epoch(a, e))
      BY <1>1, <2>1 DEF EpochCount, Epoch
    <2>3. Hashes(<<r>>) = {h}
      BY <1>1 DEF Hashes
    <2>4. HashesOf(b) \subseteq HashesOf(a) \cup {h}
      BY <1>2, <2>2, <2>3 DEF HashesOf
    <2> QED  BY <2>4 DEF b
  <1>4. CASE ~ IsFull(a)
    <2>1. b.epochs = a.epochs /\ b.current = Append(a.current, r)
      BY <1>1, <1>4 DEF Update, r, Accumulator
    <2> HIDE DEF b
    <2>2. ASSUME NEW e \in 1..EpochCount(b)
          PROVE  e \in 1..EpochCount(a)
                 /\ (Epoch(b, e) = Epoch(a, e)
                      \/ (Epoch(b, e) = Append(a.current, r) /\ Epoch(a, e) = a.current))
      BY <1>1, <2>1 DEF EpochCount, Epoch
    <2>3. Hashes(Append(a.current, r)) = Hashes(a.current) \cup {h}
      <3>1. Len(Append(a.current, r)) = Len(a.current) + 1 /\ Len(a.current) \in Nat
        BY <1>1
      <3>2. \A i \in 1..Len(a.current) + 1 :
              Append(a.current, r)[i] = IF i <= Len(a.current) THEN a.current[i] ELSE r
        BY <1>1
      <3>3. \A i \in 1..Len(a.current) :
              i \in 1..Len(a.current) + 1 /\ i <= Len(a.current)
        BY <3>1
      <3>4. /\ Len(a.current) + 1 \in 1..Len(a.current) + 1
            /\ ~ (Len(a.current) + 1 <= Len(a.current))
            /\ \A i \in 1..Len(a.current) + 1 : i <= Len(a.current) => i \in 1..Len(a.current)
        BY <3>1
      <3>5. Hashes(Append(a.current, r)) =
              {(Append(a.current, r)[i]).hash : i \in 1..Len(a.current) + 1}
        BY <3>1 DEF Hashes
      <3>6. ASSUME NEW x \in Hashes(Append(a.current, r)) PROVE x \in Hashes(a.current) \cup {h}
        BY <1>1, <3>2, <3>4, <3>5 DEF Hashes
      <3>7. ASSUME NEW x \in Hashes(a.current) \cup {h} PROVE x \in Hashes(Append(a.current, r))
        <4>1. CASE x = h
          BY <1>1, <3>2, <3>4, <3>5, <4>1
        <4>2. CASE x \in Hashes(a.current)
          <5>1. PICK i \in 1..Len(a.current) : x = a.current[i].hash
            BY <4>2 DEF Hashes
          <5> QED  BY <3>2, <3>3, <3>5, <5>1
        <4> QED  BY <3>7, <4>1, <4>2
      <3> QED  BY <3>6, <3>7
    <2>4. HashesOf(b) \subseteq HashesOf(a) \cup {h}
      BY <1>2, <2>2, <2>3 DEF HashesOf
    <2> QED  BY <2>4 DEF b
  <1> QED  BY <1>3, <1>4

\* Puts behind others.
LEMMA OldestBehind ==
  ASSUME NEW p \in Seq(PutType), NEW u \in Seq(PutType)
  PROVE  /\ p \o u \in Seq(PutType) /\ Len(p \o u) = Len(p) + Len(u)
         /\ Range(p \o u) = Range(p) \cup Range(u)
         /\ \A n \in Nat : Oldest(p, n) \subseteq Oldest(p \o u, n)
         /\ \A i \in 1..Len(p) : (p \o u)[i] = p[i]
         /\ \A l \in 1..Len(u) :
              /\ (p \o u)[Len(p) + l] = u[l]
              /\ Range(p) \cup Oldest(u, l + 1) \subseteq Oldest(p \o u, Len(p) + l + 1)
  <1> DEFINE w == p \o u
  <1>1. /\ w \in Seq(PutType) /\ Len(w) = Len(p) + Len(u) /\ Len(p) \in Nat /\ Len(u) \in Nat
        /\ \A j \in 1 .. Len(p) + Len(u) : w[j] = IF j <= Len(p) THEN p[j] ELSE u[j - Len(p)]
    BY ConcatenationProperties
  <1>2. Range(w) = Range(p) \cup Range(u)
    BY RangeOfBoth
  <1> HIDE DEF w
  <1>3. \A i \in 1..Len(p) : i \in 1..Len(w) /\ w[i] = p[i]
    BY <1>1
  <1>4. \A l \in 1..Len(u) : Len(p) + l \in 1..Len(w) /\ w[Len(p) + l] = u[l]
    <2> TAKE l \in 1..Len(u)
    <2>1. Len(p) + l \in 1 .. Len(p) + Len(u) /\ ~ (Len(p) + l <= Len(p)) /\ (Len(p) + l) - Len(p) = l
      BY <1>1
    <2> QED  BY <1>1, <2>1
  <1>5. ASSUME NEW n \in Nat PROVE Oldest(p, n) \subseteq Oldest(w, n)
    BY <1>3 DEF Oldest
  <1>6. ASSUME NEW l \in 1..Len(u)
        PROVE  Range(p) \cup Oldest(u, l + 1) \subseteq Oldest(w, Len(p) + l + 1)
    <2>1. ASSUME NEW e \in Range(p) PROVE e \in Oldest(w, Len(p) + l + 1)
      <3>1. PICK j \in 1..Len(p) : e = p[j]
        BY InRange
      <3>2. j <= Len(p) + l + 1
        BY <1>1
      <3> QED  BY <1>3, <3>1, <3>2 DEF Oldest
    <2>2. ASSUME NEW e \in Oldest(u, l + 1) PROVE e \in Oldest(w, Len(p) + l + 1)
      <3>1. PICK j \in 1..Len(u) : j <= l + 1 /\ e = u[j]
        BY DEF Oldest
      <3>2. Len(p) + j <= Len(p) + l + 1
        BY <1>1, <3>1
      <3> QED  BY <1>4, <3>1, <3>2 DEF Oldest
    <2> QED  BY <2>1, <2>2
  <1> QED  BY <1>1, <1>2, <1>3, <1>4, <1>5, <1>6 DEF w

LEMMA HasInOrderBehind ==
  ASSUME NEW p \in Seq(PutType), NEW u \in Seq(PutType), NEW st, NEW ad, NEW lost, NEW ad2,
         HasInOrder(p, st, ad, lost), ad \subseteq ad2,
         \A l \in 1..Len(u) : u[l][1] = "acc" =>
           Has(u[l][2], st \cup Range(p) \cup Oldest(u, l + 1), ad2, lost)
  PROVE  HasInOrder(p \o u, st, ad2, lost)
  <1> DEFINE w == p \o u
  <1>1. /\ Len(w) = Len(p) + Len(u) /\ Len(p) \in Nat /\ Len(u) \in Nat
        /\ \A n \in Nat : Oldest(p, n) \subseteq Oldest(w, n)
        /\ \A i \in 1..Len(p) : w[i] = p[i]
        /\ \A l \in 1..Len(u) :
             /\ w[Len(p) + l] = u[l]
             /\ Range(p) \cup Oldest(u, l + 1) \subseteq Oldest(w, Len(p) + l + 1)
    BY OldestBehind
  <1> HIDE DEF w
  <1>2. ASSUME NEW i \in 1..Len(w), w[i][1] = "acc"
        PROVE  Has(w[i][2], st \cup Oldest(w, i + 1), ad2, lost)
    <2>1. CASE i \in 1..Len(p)
      <3>1. Has(p[i][2], st \cup Oldest(p, i + 1), ad, lost)
        BY <1>1, <1>2, <2>1 DEF HasInOrder
      <3>2. st \cup Oldest(p, i + 1) \subseteq st \cup Oldest(w, i + 1)
        BY <1>1, <2>1
      <3> QED  BY <1>1, <2>1, <3>1, <3>2, HasMore
    <2>2. CASE ~ (i \in 1..Len(p))
      <3>1. PICK l \in 1..Len(u) : i = Len(p) + l
        <4>1. i - Len(p) \in 1..Len(u) /\ i = Len(p) + (i - Len(p))
          BY <1>1, <2>2
        <4> QED  BY <4>1
      <3>2. Has(u[l][2], st \cup Range(p) \cup Oldest(u, l + 1), ad2, lost)
        BY <1>1, <1>2, <3>1
      <3>3. st \cup Range(p) \cup Oldest(u, l + 1) \subseteq st \cup Oldest(w, i + 1)
        BY <1>1, <3>1
      <3> QED  BY <1>1, <3>1, <3>2, <3>3, HasMore
    <2> QED  BY <2>1, <2>2
  <1>3. HasInOrder(w, st, ad2, lost)
    BY <1>2 DEF HasInOrder
  <1> QED  BY <1>3 DEF w

\* The oldest put lands.
LEMMA OldestLands ==
  ASSUME NEW p \in Seq(PutType), 1 <= Len(p), NEW n \in Nat
  PROVE  /\ Oldest(p, n + 1) \subseteq Oldest(Without(p, 1), n) \cup {p[1]}
         /\ Range(p) = Range(Without(p, 1)) \cup {p[1]}
         /\ Len(Without(p, 1)) = Len(p) - 1
         /\ \A i \in 1..Len(p) - 1 : Without(p, 1)[i] = p[i + 1]
  <1> DEFINE w == Without(p, 1)
  <1>1. /\ w \in Seq(PutType) /\ Len(w) = Len(p) - 1 /\ Len(p) \in Nat
        /\ \A j \in 1..Len(p) - 1 : w[j] = p[j + 1]
    <2>1. Len(p) \in Nat /\ 1 \in 1..Len(p)
      OBVIOUS
    <2>2. /\ w \in Seq(PutType) /\ Len(w) = Len(p) - 1
          /\ \A j \in 1..Len(p) - 1 : w[j] = p[IF j < 1 THEN j ELSE j + 1]
      BY <2>1, WithoutProperties
    <2> HIDE DEF w
    <2>3. \A j \in 1..Len(p) - 1 : ~ (j < 1)
      BY <2>1
    <2> QED  BY <2>1, <2>2, <2>3
  <1> HIDE DEF w
  <1>2. ASSUME NEW m \in 1..Len(p), m # 1 PROVE m - 1 \in 1..Len(w) /\ p[m] = w[m - 1]
    <2>1. m - 1 \in 1..Len(p) - 1 /\ (m - 1) + 1 = m
      BY <1>1, <1>2
    <2> QED  BY <1>1, <2>1
  <1>3. ASSUME NEW e \in Oldest(p, n + 1), e # p[1] PROVE e \in Oldest(w, n)
    <2>1. PICK m \in 1..Len(p) : m <= n + 1 /\ e = p[m]
      BY DEF Oldest
    <2>2. m # 1 /\ m - 1 <= n
      BY <1>3, <2>1
    <2> QED  BY <1>2, <2>1, <2>2 DEF Oldest
  <1>4. Range(p) = Range(w) \cup {p[1]}
    <2>1. ASSUME NEW e \in Range(p), e # p[1] PROVE e \in Range(w)
      <3>1. PICK m \in 1..Len(p) : e = p[m]
        BY InRange
      <3> QED  BY <1>1, <1>2, <2>1, <3>1, InRange
    <2>2. Range(w) \subseteq Range(p) /\ p[1] \in Range(p)
      <3>1. 1 \in 1..Len(p)
        BY <1>1
      <3> QED  BY <3>1, RangeWithout, InRange DEF w
    <2> QED  BY <2>1, <2>2
  <1> QED  BY <1>1, <1>3, <1>4 DEF w

LEMMA LandLost ==
  ASSUME TypeOK, NEW lost, LostInv(lost), Land(1) PROVE LostInv(lost)'
  <1> DEFINE c == pending[1]
  <1>1. /\ pending \in Seq(PutType) /\ 1 <= Len(pending) /\ pending' = Without(pending, 1)
        /\ acc' = acc /\ reading' = reading /\ adopted' = adopted
    BY DEF TypeOK, Land
  <1>2. \/ c[1] = "acc" /\ accStored' = <<c[2]>> /\ stored' = stored
        \/ c[1] # "acc" /\ accStored' = accStored /\ stored' = stored \cup {c}
    BY DEF Land
  <1>3. /\ \A n \in Nat : Oldest(pending, n + 1) \subseteq Oldest(pending', n) \cup {c}
        /\ Range(pending) = Range(pending') \cup {c}
        /\ Len(pending') = Len(pending) - 1 /\ Len(pending) \in Nat
        /\ \A i \in 1..Len(pending) - 1 : pending'[i] = pending[i + 1]
    BY <1>1, OldestLands
  \* What was before a place is, with what is stored, before the next.
  <1>4. ASSUME NEW a, NEW s, NEW s2, Has(a, stored \cup s, adopted, lost), s \subseteq s2 \cup {c}
        PROVE  Has(a, stored' \cup s2, adopted', lost)
    <2>1. ASSUME NEW h, <<"header", h>> \in stored \cup s
          PROVE  <<"header", h>> \in stored' \cup s2
      <3>1. <<"header", h>>[1] = "header"
        OBVIOUS
      <3>2. CASE <<"header", h>> = c
        <4>1. c[1] # "acc"
          BY <3>1, <3>2
        <4> QED  BY <1>2, <3>2, <4>1
      <3>3. CASE <<"header", h>> # c
        BY <1>2, <1>4, <2>1, <3>3
      <3> QED  BY <3>2, <3>3
    <2> QED  BY <1>1, <1>4, <2>1 DEF Has
  <1>5. Has(acc', stored' \cup Range(pending'), adopted', lost)
    <2>1. Has(acc, stored \cup Range(pending), adopted, lost)
      BY DEF LostInv
    <2> QED  BY <1>1, <1>3, <1>4, <2>1
  <1>6. ASSUME NEW a \in Range(reading') PROVE Has(a, stored' \cup Range(pending'), adopted', lost)
    <2>1. Has(a, stored \cup Range(pending), adopted, lost)
      BY <1>1 DEF LostInv
    <2> QED  BY <1>3, <1>4, <2>1
  <1>7. HasInOrder(pending', stored', adopted', lost)
    <2>1. SUFFICES ASSUME NEW i \in 1..Len(pending'), pending'[i][1] = "acc"
                   PROVE  Has(pending'[i][2], stored' \cup Oldest(pending', i + 1), adopted', lost)
      BY DEF HasInOrder
    <2>2. i \in 1..Len(pending) - 1 /\ i + 1 \in 1..Len(pending) /\ i + 1 \in Nat
      BY <1>3
    <2>3. pending'[i] = pending[i + 1]
      BY <1>3, <2>2
    <2>4. Has(pending[i + 1][2], stored \cup Oldest(pending, (i + 1) + 1), adopted, lost)
      BY <2>1, <2>2, <2>3 DEF LostInv, HasInOrder
    <2>5. Oldest(pending, (i + 1) + 1) \subseteq Oldest(pending', i + 1) \cup {c}
      BY <1>3, <2>2
    <2> QED  BY <1>4, <2>3, <2>4, <2>5
  <1>8. ASSUME NEW a \in Range(accStored')
        PROVE  Has(a, stored' \cup Oldest(pending', 1), adopted', lost)
    <2>1. CASE c[1] = "acc" /\ a = c[2]
      <3>1. Has(c[2], stored \cup Oldest(pending, 1 + 1), adopted, lost)
        <4>1. 1 \in 1..Len(pending)
          BY <1>1
        <4> QED  BY <2>1, <4>1 DEF LostInv, HasInOrder
      <3> QED  BY <1>3, <1>4, <2>1, <3>1
    <2>2. CASE a \in Range(accStored)
      <3>1. Has(a, stored \cup Oldest(pending, 1), adopted, lost)
        BY <2>2 DEF LostInv
      <3>2. Oldest(pending, 1) \subseteq {c}
        BY DEF Oldest
      <3> QED  BY <1>4, <3>1, <3>2
    <2> QED  BY <1>2, <2>1, <2>2, RangeSingle
  <1> QED  BY <1>5, <1>6, <1>7, <1>8 DEF LostInv

\* Steps that put something, and do not touch what is stored and read.
LEMMA PutLost ==
  ASSUME TypeOK, NEW lost, LostInv(lost), NEW puts \in Seq(PutType), Put(puts),
         UNCHANGED <<reading, stored, accStored>>, adopted \subseteq adopted',
         \A l \in 1..Len(puts) : puts[l][1] = "acc" =>
           Has(puts[l][2], stored \cup Range(pending) \cup Oldest(puts, l + 1), adopted', lost),
         acc' = acc \/ Has(acc', stored \cup Range(pending) \cup Range(puts), adopted', lost)
  PROVE  LostInv(lost)'
  <1>1. pending \in Seq(PutType) /\ pending' = pending \o puts
    BY DEF TypeOK, Put
  <1>2. /\ Range(pending') = Range(pending) \cup Range(puts)
        /\ Oldest(pending, 1) \subseteq Oldest(pending', 1)
    BY <1>1, OldestBehind
  <1>3. HasInOrder(pending', stored', adopted', lost)
    BY <1>1, HasInOrderBehind DEF LostInv
  <1>4. Has(acc', stored' \cup Range(pending'), adopted', lost)
    BY <1>2, HasMore DEF LostInv
  <1>5. ASSUME NEW a \in Range(accStored')
        PROVE  Has(a, stored' \cup Oldest(pending', 1), adopted', lost)
    <2>1. Has(a, stored \cup Oldest(pending, 1), adopted, lost)
      BY DEF LostInv
    <2>2. stored \cup Oldest(pending, 1) \subseteq stored' \cup Oldest(pending', 1)
      BY <1>2
    <2> QED  BY <2>1, <2>2, HasMore
  <1>6. ASSUME NEW a \in Range(reading')
        PROVE  Has(a, stored' \cup Range(pending'), adopted', lost)
    <2>1. Has(a, stored \cup Range(pending), adopted, lost)
      BY DEF LostInv
    <2>2. stored \cup Range(pending) \subseteq stored' \cup Range(pending')
      BY <1>2
    <2> QED  BY <2>1, <2>2, HasMore
  <1> QED  BY <1>3, <1>4, <1>5, <1>6 DEF LostInv

\* One put.
LEMMA PutOneLost ==
  ASSUME TypeOK, NEW lost, LostInv(lost), NEW c \in PutType, Put(<<c>>),
         UNCHANGED <<reading, stored, accStored>>, adopted \subseteq adopted',
         c[1] = "acc" => Has(c[2], stored, adopted', lost),
         acc' = acc \/ Has(acc', stored, adopted', lost)
  PROVE  LostInv(lost)'
  <1> DEFINE u == <<c>>
  <1>1. u \in Seq(PutType) /\ Len(u) = 1 /\ u[1] = c
    OBVIOUS
  <1>2. Put(u)
    OBVIOUS
  <1> HIDE DEF u
  <1>3. \A l \in 1..Len(u) : u[l][1] = "acc" =>
          Has(u[l][2], stored \cup Range(pending) \cup Oldest(u, l + 1), adopted', lost)
    <2> SUFFICES ASSUME NEW l \in 1..Len(u), u[l][1] = "acc"
                 PROVE  Has(u[l][2], stored \cup Range(pending) \cup Oldest(u, l + 1), adopted', lost)
      OBVIOUS
    <2>1. Has(u[l][2], stored, adopted', lost)
      BY <1>1
    <2> QED  BY <2>1, HasMore
  <1>4. acc' = acc \/ Has(acc', stored \cup Range(pending) \cup Range(u), adopted', lost)
    BY HasMore
  <1> QED  BY <1>1, <1>2, <1>3, <1>4, PutLost

LEMMA HeaderLost ==
  ASSUME HistoryInv, NEW lost, LostInv(lost), NEW k \in Sent, NEW h \in Sent, AddHeader(k, h)
  PROVE  LostInv(lost)'
  <1>1. TypeOK /\ AccumulatorIsChain
    BY DEF HistoryInv
  <1>2. h \in Headers /\ (acc # Empty \/ Number[h] # 0)
    BY StoreAssumption DEF AddHeader, Empty
  <1> DEFINE u == HeaderPuts(h)
             a == Update(acc, h)
             x == <<"acc", a>>
             z == <<"header", h>>
             e == SealedEpoch
  <1>3. u \in Seq(PutType) /\ Put(u) /\ adopted' = adopted
        /\ UNCHANGED <<reading, stored, accStored>>
    BY <1>1, <1>2, HeaderPutsType DEF AddHeader
  <1>4. acc' = IF IsNext(h) THEN a ELSE acc
    BY DEF AddHeader
  <1>5. x[1] = "acc" /\ x[2] = a /\ z[1] = "header" /\ e[1] = "epoch"
    BY DEF SealedEpoch
  \* The header's put is the last, right behind the accumulator's.
  <1>6. /\ Len(u) \in Nat \ {0} /\ u[Len(u)] = z
        /\ \A l \in 1..Len(u) : u[l][1] = "acc" => IsNext(h) /\ u[l] = x /\ l + 1 = Len(u)
    <2>1. CASE Seals(h)
      <3>1. u = <<e>> \o <<x>> \o <<z>>
        BY <2>1 DEF HeaderPuts, Seals
      <3> HIDE DEF u, x, z, e
      <3>2. Len(u) = 3 /\ u[1] = e /\ u[2] = x /\ u[3] = z
        <4> DEFINE v == <<e>> \o <<x>> \o <<z>>
        <4>1. Len(v) = 3 /\ v[1] = e /\ v[2] = x /\ v[3] = z
          BY ThreeOfThem
        <4>2. u = v
          BY <3>1
        <4> HIDE DEF v
        <4> QED  BY <4>1, <4>2
      <3> QED  BY <1>5, <2>1, <3>2 DEF Seals
    <2>2. CASE ~ Seals(h) /\ IsNext(h)
      <3>1. u = <<>> \o <<x>> \o <<z>>
        BY <2>2 DEF HeaderPuts
      <3> HIDE DEF u, x, z
      <3>2. Len(u) = 2 /\ u[1] = x /\ u[2] = z
        BY <3>1, TwoOfThem
      <3> QED  BY <1>5, <2>2, <3>2
    <2>3. CASE ~ IsNext(h)
      <3>1. u = <<>> \o <<>> \o <<z>>
        BY <2>3 DEF HeaderPuts, Seals
      <3>2. u = <<z>>
        BY <3>1
      <3> HIDE DEF u, z
      <3>3. Len(u) = 1 /\ u[1] = z
        BY <3>2
      <3> QED  BY <1>5, <3>3
    <2> QED  BY <2>1, <2>2, <2>3
  <1>7. ASSUME IsNext(h), NEW s, stored \cup Range(pending) \cup {z} \subseteq s
        PROVE  Has(a, s, adopted, lost)
    <2>1. acc \in Accumulator
      BY <1>1, <1>2, <1>7, HeaderTaken DEF IsChain, WellFormed
    <2>2. HashesOf(a) \subseteq HashesOf(acc) \cup {h}
      BY <1>2, <2>1, UpdateNames
    <2>3. Has(acc, stored \cup Range(pending), adopted, lost)
      BY DEF LostInv
    <2> HIDE DEF a
    <2> QED  BY <1>7, <2>2, <2>3 DEF Has
  <1> HIDE DEF u, a, x, z
  <1>8. \A l \in 1..Len(u) : u[l][1] = "acc" =>
          Has(u[l][2], stored \cup Range(pending) \cup Oldest(u, l + 1), adopted', lost)
    <2> SUFFICES ASSUME NEW l \in 1..Len(u), u[l][1] = "acc"
                 PROVE  Has(u[l][2], stored \cup Range(pending) \cup Oldest(u, l + 1), adopted', lost)
      OBVIOUS
    <2>1. IsNext(h) /\ u[l] = x /\ l + 1 = Len(u)
      BY <1>6
    <2>2. z \in Oldest(u, l + 1)
      <3>1. Len(u) \in 1..Len(u) /\ Len(u) <= l + 1
        BY <1>6, <2>1
      <3> QED  BY <1>6, <3>1 DEF Oldest
    <2> QED  BY <1>3, <1>5, <1>7, <2>1, <2>2
  <1>9. acc' = acc \/ Has(acc', stored \cup Range(pending) \cup Range(u), adopted', lost)
    <2>1. z \in Range(u)
      <3>1. Len(u) \in 1..Len(u)
        BY <1>6
      <3> QED  BY <1>3, <1>6, <3>1, InRange
    <2> QED  BY <1>3, <1>4, <1>7, <2>1
  <1> QED  BY <1>1, <1>3, <1>8, <1>9, PutLost

\* The one header a crash loses, if any, is the oldest put.
LEMMA CrashLost ==
  ASSUME TypeOK, MissingInv, Crash PROVE MissingInv'
  <1>1. /\ acc' = Empty /\ reading' = <<StoredOrGenesis>> /\ pending' = <<>>
        /\ UNCHANGED <<stored, accStored, adopted>> /\ crashes' = crashes + 1 /\ crashes \in Nat
    BY StoreAssumption DEF Crash, TypeOK
  <1>2. PICK lost : IsFiniteSet(lost) /\ Cardinality(lost) <= crashes /\ LostInv(lost)
    BY DEF MissingInv
  <1>3. PICK more : /\ IsFiniteSet(more) /\ Cardinality(more) <= crashes' /\ lost \subseteq more
                    /\ \A h : <<"header", h>> \in Oldest(pending, 1) => h \in more
    <2>1. CASE \E h : <<"header", h>> \in Oldest(pending, 1)
      <3>1. PICK h : <<"header", h>> \in Oldest(pending, 1)
        BY <2>1
      <3> DEFINE more == lost \cup {h}
      <3>2. IsFiniteSet(more) /\ Cardinality(more) <= Cardinality(lost) + 1
            /\ Cardinality(lost) \in Nat /\ Cardinality(more) \in Nat
        BY <1>2, FS_AddElement, FS_CardinalityType
      <3>3. Oldest(pending, 1) \subseteq {pending[1]}
        BY DEF Oldest
      <3>4. \A x : <<"header", x>> \in Oldest(pending, 1) => x = h
        BY <3>1, <3>3
      <3>5. Cardinality(more) <= crashes'
        BY <1>1, <1>2, <3>2
      <3> WITNESS more
      <3> QED  BY <3>2, <3>4, <3>5
    <2>2. CASE ~ \E h : <<"header", h>> \in Oldest(pending, 1)
      <3>1. Cardinality(lost) <= crashes'
        BY <1>1, <1>2, FS_CardinalityType
      <3> QED  BY <1>2, <2>2, <3>1
    <2> QED  BY <2>1, <2>2
  <1>4. ASSUME NEW a, NEW s, Has(a, stored \cup Oldest(pending, 1), adopted, lost)
        PROVE  Has(a, stored' \cup s, adopted', more)
    BY <1>1, <1>3, <1>4 DEF Has
  <1>5. \A a \in Range(accStored') : Has(a, stored' \cup Oldest(pending', 1), adopted', more)
    BY <1>1, <1>2, <1>4 DEF LostInv
  <1>6. Has(StoredOrGenesis, stored' \cup Range(pending'), adopted', more)
    <2>1. accStored # <<>> => accStored[1] \in Range(accStored)
      BY InRange DEF TypeOK
    <2> QED  BY <1>2, <1>4, <2>1, NoHeadersNamed DEF LostInv, StoredOrGenesis
  <1>7. \A a \in Range(reading') : Has(a, stored' \cup Range(pending'), adopted', more)
    BY <1>1, <1>6, RangeSingle
  <1>8. Has(acc', stored' \cup Range(pending'), adopted', more)
    BY <1>1, NoHeadersNamed
  <1>9. HasInOrder(pending', stored', adopted', more)
    <2>1. Len(pending') = 0
      BY <1>1
    <2> QED  BY <2>1 DEF HasInOrder
  <1>10. LostInv(more)'
    BY <1>5, <1>7, <1>8, <1>9 DEF LostInv
  <1> QED  BY <1>3, <1>10 DEF MissingInv

\* Whatever is lost stays so in a step that is not a crash.
LEMMA LostStep ==
  ASSUME Window = 1, HistoryInv, NEW lost, LostInv(lost), [Next]_vars, ~ Crash
  PROVE  LostInv(lost)'
  <1>1. TypeOK
    BY DEF HistoryInv
  <1>2. CASE Load
    <2>1. /\ acc' = reading[1] /\ reading' = <<>> /\ reading # <<>>
          /\ UNCHANGED <<stored, accStored, pending, adopted>>
      BY <1>2 DEF Load
    <2>2. reading[1] \in Range(reading)
      BY <1>1, <2>1, InRange DEF TypeOK
    <2>3. Has(acc', stored \cup Range(pending), adopted, lost)
      BY <2>1, <2>2 DEF LostInv
    <2> QED  BY <2>1, <2>3, RangeEmpty DEF LostInv
  <1>3. CASE Reset \/ UNCHANGED vars
    BY <1>3 DEF Reset, vars, LostInv
  <1>4. ASSUME NEW i \in 1..Window, Land(i) PROVE LostInv(lost)'
    <2>1. i = 1
      OBVIOUS
    <2> QED  BY <1>1, <1>4, <2>1, LandLost
  <1>5. ASSUME NEW k \in Sent, NEW h \in Sent, AddHeader(k, h) PROVE LostInv(lost)'
    BY <1>5, HeaderLost
  <1>6. ASSUME NEW h \in Bodies, AddBody(h) PROVE LostInv(lost)'
    <2> DEFINE c == <<"body", h>>
    <2>1. /\ c \in PutType /\ Put(<<c>>) /\ c[1] # "acc" /\ acc' = acc
          /\ UNCHANGED <<reading, stored, accStored>> /\ adopted \subseteq adopted'
      BY <1>6, StoreAssumption DEF AddBody, PutType, Content
    <2> HIDE DEF c
    <2> QED  BY <1>1, <2>1, PutOneLost
  <1>7. ASSUME NEW t \in executing, SaveReceipts(t) PROVE LostInv(lost)'
    <2> DEFINE c == <<"receipt", t.body>>
    <2>1. t.body \in Bodies
      BY <1>1 DEF TypeOK
    <2>2. /\ c \in PutType /\ Put(<<c>>) /\ c[1] # "acc" /\ acc' = acc
          /\ UNCHANGED <<reading, stored, accStored>> /\ adopted \subseteq adopted'
      BY <1>7, <2>1, StoreAssumption DEF SaveReceipts, PutType, Content
    <2> HIDE DEF c
    <2> QED  BY <1>1, <2>2, PutOneLost
  <1>8. ASSUME NEW t \in executing, ReceiptsFail(t) \/ AnnounceBody(t) PROVE LostInv(lost)'
    BY <1>8 DEF ReceiptsFail, AnnounceBody, LostInv
  <1>9. ASSUME NEW c \in Unverified, AddUnverified(c) PROVE LostInv(lost)'
    <2>1. c \in PutType /\ c[1] # "acc"
      BY StoreAssumption DEF PutType, Content
    <2>2. Put(<<c>>) /\ acc' = acc /\ UNCHANGED <<reading, stored, accStored>>
          /\ adopted \subseteq adopted'
      BY <1>9 DEF AddUnverified
    <2> QED  BY <1>1, <2>1, <2>2, PutOneLost
  <1>10. ASSUME NEW s \in Snapshots, AddSnapshot(s) PROVE LostInv(lost)'
    <2> DEFINE c == <<"acc", s>>
    <2>1. s \in Accumulator
      BY StoreAssumption, ChainType
    <2>2. /\ c \in PutType /\ Put(<<c>>) /\ c[2] = s /\ acc' = s
          /\ UNCHANGED <<reading, stored, accStored>>
          /\ adopted' = adopted \cup HashesOf(s)
      BY <1>10, <2>1 DEF AddSnapshot, PutType
    <2>3. Has(s, stored, adopted', lost)
      BY <2>2 DEF Has
    <2> HIDE DEF c
    <2> QED  BY <1>1, <2>2, <2>3, PutOneLost
  <1> QED  BY <1>2, <1>3, <1>4, <1>5, <1>6, <1>7, <1>8, <1>9, <1>10 DEF Next

LEMMA MissingStep ==
  ASSUME Window = 1, HistoryInv, MissingInv, [Next]_vars PROVE MissingInv'
  <1>1. CASE Crash
    BY <1>1, CrashLost DEF HistoryInv
  <1>2. CASE ~ Crash
    <2>1. PICK lost : IsFiniteSet(lost) /\ Cardinality(lost) <= crashes /\ LostInv(lost)
      BY DEF MissingInv
    <2>2. LostInv(lost)'
      BY <1>2, <2>1, LostStep
    <2>3. crashes' = crashes
      BY <1>2 DEF Next, vars, Load, Reset, Land, AddHeader, AddBody, SaveReceipts, ReceiptsFail,
                  AnnounceBody, AddUnverified, AddSnapshot
    <2> QED  BY <2>1, <2>2, <2>3 DEF MissingInv
  <1> QED  BY <1>1, <1>2

\* When the database finishes puts in their order, no more headers that the node
\* put into its stored accumulator itself are missing than there were crashes.
THEOREM HeadersMissingByCrashAlways ==
  ASSUME Window = 1 PROVE Spec => []HeadersMissingByCrash
  <1>1. Init => MissingInv
    <2> SUFFICES ASSUME Init PROVE MissingInv
      OBVIOUS
    <2>1. /\ acc = Empty /\ Range(reading) = {GenesisAccumulator} /\ Range(accStored) = {}
          /\ Len(pending) = 0 /\ crashes = 0
      BY RangeEmpty, RangeSingle DEF Init
    <2>2. LostInv({})
      BY <2>1, NoHeadersNamed DEF LostInv, HasInOrder
    <2> QED  BY <2>1, <2>2, FS_EmptySet DEF MissingInv
  <1>2. HistoryInv /\ MissingInv /\ [Next]_vars => MissingInv'
    BY MissingStep
  <1>3. HistoryInv /\ MissingInv => HeadersMissingByCrash
    <2> SUFFICES ASSUME HistoryInv, MissingInv, pending = <<>>
                 PROVE  Cardinality(Missing) <= crashes
      BY DEF HeadersMissingByCrash
    <2>1. PICK lost : IsFiniteSet(lost) /\ Cardinality(lost) <= crashes /\ LostInv(lost)
      BY DEF MissingInv
    <2>2. Oldest(pending, 1) = {}
      BY DEF Oldest
    <2>3. \A a \in Range(accStored) : Has(a, stored, adopted, lost)
      BY <2>1, <2>2 DEF LostInv
    <2>4. Missing \subseteq lost
      <3> SUFFICES ASSUME NEW h \in Missing PROVE h \in lost
        OBVIOUS
      <3>1. PICK a \in Range(accStored) : h \in HashesOf(a)
        BY DEF Missing
      <3>2. ~ (h \in adopted \cup {Genesis}) /\ ~ (<<"header", h>> \in stored)
        BY DEF Missing
      <3>3. Has(a, stored, adopted, lost)
        BY <2>3
      <3> QED  BY <3>1, <3>2, <3>3 DEF Has
    <2>5. Cardinality(Missing) <= Cardinality(lost) /\ IsFiniteSet(Missing)
      BY <2>1, <2>4, FS_Subset
    <2>6. Cardinality(Missing) \in Nat /\ Cardinality(lost) \in Nat /\ crashes \in Nat
      BY <2>1, <2>5, FS_CardinalityType, StoreAssumption DEF HistoryInv, TypeOK
    <2> QED  BY <2>1, <2>5, <2>6
  <1> QED  BY <1>1, <1>2, <1>3, InitHistory, HistoryStep, PTL DEF Spec

----------------------------------------------------------------------------
(* Headers by their number.                                                *)

LEMMA DivisionIsUnique ==
  ASSUME NEW q \in Nat, NEW r \in 0..EpochSize - 1, NEW n \in Nat, n = q * EpochSize + r
  PROVE  n \div EpochSize = q /\ n % EpochSize = r
  <1> DEFINE E == EpochSize
             d == n \div E
             m == n % E
  <1>1. E \in Nat /\ E > 0
    BY AccumulatorAssumption
  <1>2. d \in Int /\ m \in 0..E - 1 /\ n = d * E + m
    BY <1>1
  <1>3. q * E \in Int /\ d * E \in Int
    BY <1>1, <1>2
  <1> HIDE DEF d, m, E
  <1>4. ASSUME NEW x \in Int, NEW y \in Int, x < y PROVE x * E + E <= y * E
    <2> DEFINE k == y - x - 1
    <2>1. k \in Nat /\ y = x + k + 1
      BY <1>4
    <2>2. k * E \in Nat
      BY <1>1, <2>1
    <2>3. y * E = x * E + k * E + E
      BY <1>1, <2>1
    <2> QED  BY <1>1, <2>2, <2>3
  <1>5. ~ (q < d)
    BY <1>1, <1>2, <1>3, <1>4 DEF E
  <1>6. ~ (d < q)
    BY <1>1, <1>2, <1>3, <1>4 DEF E
  <1>7. d = q
    BY <1>2, <1>5, <1>6
  <1>8. m = r
    BY <1>2, <1>3, <1>7 DEF E
  <1> QED  BY <1>7, <1>8 DEF d, m, E

\* Where a chain has which number.
LEMMA NumberOfRecord ==
  ASSUME Number[Genesis] = 0, NEW a, IsChain(a), NEW e \in 1..EpochCount(a),
         NEW i \in 1..Len(Epoch(a, e))
  PROVE  Number[Epoch(a, e)[i].hash] = (e - 1) * EpochSize + i - 1
  <1>1. /\ a.epochs \in Seq(Seq(Record)) /\ a.current \in Seq(Record)
        /\ Len(a.epochs) \in Nat /\ EpochSize \in Nat
        /\ \A j \in 1..Len(a.epochs) : Len(a.epochs[j]) = EpochSize
    BY AccumulatorAssumption DEF IsChain, WellFormed, Accumulator
  <1>2. Epoch(a, e) \in Seq(Record) /\ e \in Nat /\ i \in Nat
    BY <1>1 DEF Epoch, EpochCount
  <1>3. CASE i # 1
    <2>1. i \in 2..Len(Epoch(a, e))
      BY <1>2, <1>3
    <2> QED  BY <2>1 DEF IsChain, LinkedInEpochs, Continues
  <1>4. CASE i = 1 /\ e # 1
    <2>1. e - 1 \in 1..Len(a.epochs) /\ (e - 1) + 1 = e
      BY <1>1, <1>2, <1>4 DEF EpochCount
    <2>2. Number[Epoch(a, e)[1].hash] = (e - 1) * EpochSize
      BY <2>1 DEF IsChain, LinkedAcrossEpochs, Continues
    <2>3. (e - 1) * EpochSize \in Int
      BY <1>1, <1>2
    <2> QED  BY <1>4, <2>2, <2>3
  <1>5. CASE i = 1 /\ e = 1
    <2>1. Epoch(a, e)[i].hash = Genesis
      BY <1>5 DEF IsChain, BeginsAtGenesis, NewRecord
    <2>2. (e - 1) * EpochSize = 0
      BY <1>1, <1>5
    <2> QED  BY <1>5, <2>1, <2>2
  <1> QED  BY <1>3, <1>4, <1>5

LEMMA ChainResolves ==
  ASSUME Number[Genesis] = 0, NEW a, IsChain(a), NEW n \in 0..Height(a),
         n # EpochSize * Len(a.epochs)
  PROVE  \E h \in HashesOf(a) : Number[h] = n /\ HashOfNumber(a, n) = <<h>>
  <1> DEFINE E == EpochSize
             L == Len(a.epochs)
             C == Len(a.current)
  <1>1. /\ L \in Nat /\ E \in Nat /\ E > 0 /\ C \in 1..E
        /\ \A j \in 1..L : Len(a.epochs[j]) = E
    BY AccumulatorAssumption DEF IsChain, WellFormed, Accumulator
  <1>2. L * E \in Nat /\ E * L = L * E /\ Height(a) = L * E + C - 1 /\ n \in Nat /\ n <= Height(a)
    <2>1. Height(a) = L * E + C - 1
      BY DEF Height
    <2> HIDE DEF L, E, C
    <2>2. L * E \in Nat /\ E * L = L * E /\ C \in Nat
      BY <1>1
    <2>3. Height(a) \in Int
      BY <2>1, <2>2
    <2> QED  BY <2>1, <2>2, <2>3
  <1>3. SUFFICES \E e \in 1..L + 1 : \E i \in 1..Len(Epoch(a, e)) :
                   /\ n = (e - 1) * E + i - 1
                   /\ HashOfNumber(a, n) = <<Epoch(a, e)[i].hash>>
    <2> PICK e \in 1..L + 1 : \E i \in 1..Len(Epoch(a, e)) :
               n = (e - 1) * E + i - 1 /\ HashOfNumber(a, n) = <<Epoch(a, e)[i].hash>>
      BY <1>3
    <2> PICK i \in 1..Len(Epoch(a, e)) :
               n = (e - 1) * E + i - 1 /\ HashOfNumber(a, n) = <<Epoch(a, e)[i].hash>>
      OBVIOUS
    <2>1. e \in 1..EpochCount(a)
      BY DEF EpochCount
    <2>2. Number[Epoch(a, e)[i].hash] = n
      <3> HIDE DEF E, L, C
      <3>1. Number[Epoch(a, e)[i].hash] = (e - 1) * EpochSize + i - 1
        <4>1. Number[Genesis] = 0 /\ IsChain(a) /\ i \in 1..Len(Epoch(a, e))
          OBVIOUS
        <4> QED  BY <2>1, <4>1, NumberOfRecord, Zenon
      <3> QED  BY <3>1 DEF E
    <2>3. Epoch(a, e)[i].hash \in HashesOf(a)
      <3> HIDE DEF E, L, C
      <3>1. Epoch(a, e)[i].hash \in Hashes(Epoch(a, e))
        BY DEF Hashes
      <3> QED  BY <2>1, <3>1 DEF HashesOf
    <2> QED  BY <2>2, <2>3
  <1>4. CASE n > L * E
    <2> DEFINE r == n - L * E
    <2>1. r \in 0..E - 1 /\ n = L * E + r /\ r + 1 \in 1..C /\ r \in Nat
      <3> HIDE DEF L, E, C
      <3> QED  BY <1>1, <1>2, <1>4
    <2>2. n % E = r
      <3>1. r \in 0..EpochSize - 1 /\ n = L * EpochSize + r
        BY <2>1
      <3> HIDE DEF r, L
      <3>2. n % EpochSize = r
        BY <1>1, <1>2, <3>1, DivisionIsUnique
      <3> QED  BY <3>2
    <2>3. HashOfNumber(a, n) = <<a.current[r + 1].hash>>
      <3>1. ~ (n > Height(a)) /\ n > EpochSize * Len(a.epochs)
        <4>1. EpochSize * Len(a.epochs) = L * E
          BY <1>2
        <4> HIDE DEF L, E, C
        <4> QED  BY <1>1, <1>2, <1>4, <4>1
      <3> QED  BY <2>2, <3>1 DEF HashOfNumber, BlockIndex
    <2>4. Epoch(a, L + 1) = a.current /\ L + 1 \in 1..L + 1
      BY <1>1 DEF Epoch
    <2>5. n = ((L + 1) - 1) * E + (r + 1) - 1
      BY <1>1, <1>2, <2>1
    <2> QED  BY <2>1, <2>3, <2>4, <2>5
  <1>5. CASE n < L * E
    <2> DEFINE q == n \div E
               r == n % E
    <2>1. q \in Nat /\ r \in 0..E - 1 /\ n = q * E + r
      BY <1>1, <1>2
    <2>2. q < L
      <3> SUFFICES ASSUME q >= L PROVE FALSE
        BY <1>1, <2>1
      <3> HIDE DEF q, r, L
      <3> DEFINE k == q - L
      <3>1. k \in Nat /\ q = L + k
        BY <1>1, <2>1
      <3>2. k * E \in Nat /\ q * E = L * E + k * E
        BY <1>1, <3>1
      <3> QED  BY <1>1, <1>2, <1>5, <2>1, <3>2
    <2>3. HashOfNumber(a, n) = <<a.epochs[q + 1][r + 1].hash>>
      <3>1. ~ (n > Height(a)) /\ ~ (n > EpochSize * Len(a.epochs)) /\ q + 1 <= Len(a.epochs)
        <4>1. EpochSize * Len(a.epochs) = L * E
          BY <1>2
        <4>2. q + 1 <= L
          <5> HIDE DEF q, L
          <5> QED  BY <1>1, <2>1, <2>2
        <4>3. ~ (n > Height(a)) /\ ~ (n > EpochSize * Len(a.epochs))
          <5> HIDE DEF q, L, E, C
          <5> QED  BY <1>1, <1>2, <1>5, <4>1
        <4> QED  BY <4>2, <4>3
      <3> QED  BY <3>1 DEF HashOfNumber, BlockIndex, EpochIndex
    <2>4. Epoch(a, q + 1) = a.epochs[q + 1] /\ q + 1 \in 1..L + 1 /\ r + 1 \in 1..Len(a.epochs[q + 1])
      <3>1. q + 1 \in 1..L /\ r + 1 \in 1..E /\ q + 1 \in 1..L + 1
        <4> HIDE DEF q, r, L, E
        <4> QED  BY <1>1, <2>1, <2>2
      <3> HIDE DEF q, r
      <3> QED  BY <1>1, <3>1 DEF Epoch
    <2>5. n = ((q + 1) - 1) * E + (r + 1) - 1
      BY <1>1, <1>2, <2>1
    <2> QED  BY <2>3, <2>4, <2>5
  <1> QED  BY <1>1, <1>2, <1>4, <1>5

\* When the genesis has number 0, every number up to the height leads to the
\* header of that number on the accumulator's chain, but for the first one after
\* the sealed epochs.
THEOREM NumbersResolveAlways ==
  ASSUME Number[Genesis] = 0 PROVE Spec => []NumbersResolve
  <1>1. AccumulatorIsChain => NumbersResolve
    BY ChainResolves DEF AccumulatorIsChain, NumbersResolve
  <1> QED  BY <1>1, AccumulatorIsChainAlways, PTL

----------------------------------------------------------------------------
(* The calls of the JSON-RPC server.                                       *)

\* Any number read from the accumulator leads to the header of that number on
\* its chain, or there is a reason why it does not.
LEMMA NumberLookedUp ==
  ASSUME Number[Genesis] = 0, NEW a, a = Empty \/ IsChain(a), NEW n \in Nat
  PROVE  LET hash == HashOfNumber(a, n) IN
         \/ hash = <<>> /\ (n > Height(a) \/ n = EpochSize * Len(a.epochs))
         \/ \E h \in HashesOf(a) : hash = <<h>> /\ Number[h] = n
  <1>1. CASE a = Empty
    <2>1. Len(a.epochs) = 0 /\ Len(a.current) = 0
      BY <1>1 DEF Empty
    <2>2. 0 * EpochSize = 0
      BY AccumulatorAssumption
    <2>3. Height(a) = -1
      BY <2>1, <2>2 DEF Height
    <2> QED  BY <2>3 DEF HashOfNumber
  <1>2. CASE IsChain(a)
    <2>1. a \in Accumulator /\ Height(a) \in Int
      BY <1>2, ChainType, HeightType
    <2>2. CASE n > Height(a)
      BY <2>2 DEF HashOfNumber
    <2>3. CASE ~ (n > Height(a)) /\ n # EpochSize * Len(a.epochs)
      <3>1. n \in 0..Height(a)
        BY <2>1, <2>3
      <3> QED  BY <1>2, <2>3, <3>1, ChainResolves
    <2>4. CASE ~ (n > Height(a)) /\ n = EpochSize * Len(a.epochs)
      <3> DEFINE L == Len(a.epochs)
      <3>1. L \in Nat /\ EpochSize \in Nat /\ EpochSize > 0
        BY <2>1, AccumulatorAssumption DEF Accumulator
      <3>2. n = L * EpochSize + 0 /\ 0 \in 0..EpochSize - 1
        <4>0. n = EpochSize * L
          BY <2>4
        <4> HIDE DEF L
        <4> QED  BY <4>0, <3>1
      <3>3. n \div EpochSize = L
        <4> HIDE DEF L
        <4> QED  BY <3>1, <3>2, DivisionIsUnique
      <3>4. ~ (n > EpochSize * L) /\ ~ (EpochIndex(n) <= L)
        <4>0. n = EpochSize * L
          BY <2>4
        <4> HIDE DEF L
        <4> QED  BY <3>1, <3>3, <4>0 DEF EpochIndex
      <3>5. HashOfNumber(a, n) = <<>>
        BY <3>4, <2>4 DEF HashOfNumber
      <3> QED  BY <3>5, <2>4
    <2> QED  BY <2>2, <2>3, <2>4
  <1> QED  BY <1>1, <1>2

\* No two headers on a chain have the same number.
LEMMA NumbersAreUnique ==
  ASSUME Number[Genesis] = 0, NEW a, IsChain(a), NEW h \in HashesOf(a), NEW k \in HashesOf(a),
         Number[h] = Number[k]
  PROVE  h = k
  <1> DEFINE At(x, e, i) ==
        /\ e \in 1..EpochCount(a) /\ i \in 1..Len(Epoch(a, e))
        /\ x = Epoch(a, e)[i].hash
  <1>1. ASSUME NEW x \in HashesOf(a) PROVE \E e \in Nat, i \in Nat : At(x, e, i)
    <2>1. PICK e \in 1..EpochCount(a) : x \in Hashes(Epoch(a, e))
      BY DEF HashesOf
    <2>2. PICK i \in 1..Len(Epoch(a, e)) : x = Epoch(a, e)[i].hash
      BY <2>1 DEF Hashes
    <2> QED  BY <2>1, <2>2
  <1>2. ASSUME NEW x, NEW e \in Nat, NEW i \in Nat, At(x, e, i)
        PROVE  /\ e - 1 \in Nat /\ i - 1 \in 0..EpochSize - 1
               /\ Number[x] = (e - 1) * EpochSize + (i - 1)
               /\ Number[x] \in Nat
               /\ Number[x] \div EpochSize = e - 1 /\ Number[x] % EpochSize = i - 1
    <2>1. Len(Epoch(a, e)) \in 1..EpochSize
      <3>1. /\ a.epochs \in Seq(Seq(Record)) /\ EpochSize \in Nat \ {0}
            /\ Len(a.current) \in 1..EpochSize
            /\ \A j \in 1..Len(a.epochs) : Len(a.epochs[j]) = EpochSize
        BY AccumulatorAssumption DEF IsChain, WellFormed, Accumulator
      <3> QED  BY <1>2, <3>1 DEF Epoch, EpochCount
    <2>2. Number[x] = (e - 1) * EpochSize + i - 1
      BY <1>2, NumberOfRecord
    <2>3. e - 1 \in Nat /\ i - 1 \in 0..EpochSize - 1 /\ EpochSize \in Nat
      BY <1>2, <2>1, AccumulatorAssumption
    <2>4. (e - 1) * EpochSize \in Nat
      BY <2>3
    <2>5. Number[x] = (e - 1) * EpochSize + (i - 1) /\ Number[x] \in Nat
      BY <2>2, <2>3, <2>4
    <2>6. Number[x] \div EpochSize = e - 1 /\ Number[x] % EpochSize = i - 1
      <3> DEFINE q == e - 1
                 r == i - 1
                 n == Number[x]
      <3>1. q \in Nat /\ r \in 0..EpochSize - 1 /\ n \in Nat /\ n = q * EpochSize + r
        BY <2>3, <2>5
      <3> HIDE DEF q, r, n
      <3>2. n \div EpochSize = q /\ n % EpochSize = r
        BY <3>1, DivisionIsUnique
      <3> QED  BY <3>2 DEF q, r, n
    <2> QED  BY <2>3, <2>5, <2>6
  <1>3. PICK e \in Nat, i \in Nat : At(h, e, i)
    BY <1>1
  <1>4. PICK f \in Nat, j \in Nat : At(k, f, j)
    BY <1>1
  <1> HIDE DEF At
  <1>5. e - 1 = f - 1 /\ i - 1 = j - 1
    <2>1. Number[h] \div EpochSize = e - 1 /\ Number[h] % EpochSize = i - 1
      BY <1>2, <1>3
    <2>2. Number[k] \div EpochSize = f - 1 /\ Number[k] % EpochSize = j - 1
      BY <1>2, <1>4
    <2> QED  BY <2>1, <2>2
  <1>6. e = f /\ i = j
    BY <1>5
  <1> QED  BY <1>3, <1>4, <1>6 DEF At

----------------------------------------------------------------------------
(* The record of a call, and what an operator makes of it.                 *)

CallFields ==
  {"method", "params", "pc", "number", "seeks", "epoch", "full", "header", "found", "first",
   "answer", "value", "consulted", "gap", "astray"}

\* A record with the fields of a call, of values that may be anything.
IsCall(c) == DOMAIN c = CallFields

\* Calls that differ in what no search depends on.
SameCall(c, d) ==
  /\ IsCall(d) /\ d.method = c.method /\ d.params = c.params /\ d.first = c.first
  /\ d.gap = c.gap /\ d.astray = c.astray

SameSearch(c, d) ==
  /\ SameCall(c, d) /\ d.number = c.number /\ d.seeks = c.seeks /\ d.epoch = c.epoch
  /\ d.consulted = c.consulted

LEMMA NewCallFields ==
  ASSUME NEW r
  PROVE  /\ IsCall(NewCall(r)) /\ NewCall(r).method = r[1] /\ NewCall(r).params = r[2]
         /\ NewCall(r).epoch = <<>> /\ NewCall(r).first = <<>>
         /\ ~ NewCall(r).gap /\ ~ NewCall(r).astray /\ NewCall(r).pc = "received"
  BY DEF NewCall, NoCall, IsCall, CallFields

LEMMA AnswerFields ==
  ASSUME NEW c, IsCall(c), NEW answer, NEW value
  PROVE  LET d == Answer(c, answer, value) IN
         /\ SameSearch(c, d) /\ d.found = c.found
         /\ d.pc = "answered" /\ d.answer = answer /\ d.value = value
  BY DEF Answer, IsCall, CallFields, SameSearch, SameCall

LEMMA FailsFields ==
  ASSUME NEW c, IsCall(c), NEW answer
  PROVE  LET d == Fails(c, answer) IN
         SameSearch(c, d) /\ d.pc = "answered" /\ d.answer = answer
  BY AnswerFields DEF Fails

LEMMA FindByHashFields ==
  ASSUME NEW c, IsCall(c), NEW h, NEW full
  PROVE  LET d == FindByHash(c, h, full) IN
         /\ SameCall(c, d) /\ d.number = c.number /\ d.epoch = c.epoch
         /\ d.consulted = c.consulted /\ d.seeks = h /\ d.pc = "header"
  BY DEF FindByHash, IsCall, CallFields, SameCall

\* The block is given up only if its number is not the one looked for.
LEMMA ReturnedFields ==
  ASSUME NEW c, IsCall(c), NEW b
  PROVE  LET d == Returned(c, b) IN
         /\ SameSearch(c, d) /\ d.header = c.header /\ d.pc = "returned"
         /\ \/ d.found = b
            \/ d.found = <<>> /\ c.epoch # <<>> /\ b # <<>> /\ Number[b[1].hash] # c.number
  <1>1. SameSearch(c, Returned(c, b))
    BY DEF Returned, IsCall, CallFields, SameSearch, SameCall
  <1> QED  BY <1>1 DEF Returned, IsCall, CallFields

\* A lookup that gave nothing, or went astray.
LEMMA GapFields ==
  ASSUME NEW c, IsCall(c), NEW b
  PROVE  LET d == [Returned(c, b) EXCEPT !.gap = TRUE] IN
         /\ IsCall(d) /\ d.method = c.method /\ d.params = c.params /\ d.first = c.first
         /\ d.astray = c.astray /\ d.gap /\ d.pc = "returned" /\ d.found = Returned(c, b).found
         /\ d.number = c.number /\ d.seeks = c.seeks /\ d.epoch = c.epoch
         /\ d.consulted = c.consulted
  <1> DEFINE e == Returned(c, b)
  <1>1. SameSearch(c, e) /\ IsCall(e) /\ e.pc = "returned"
    BY ReturnedFields DEF SameSearch, SameCall
  <1> HIDE DEF e
  <1> QED  BY <1>1 DEF IsCall, CallFields, SameSearch, SameCall, e

LEMMA AstrayFields ==
  ASSUME NEW c, IsCall(c), NEW b
  PROVE  LET d == [Returned(c, b) EXCEPT !.astray = TRUE] IN
         IsCall(d) /\ d.method = c.method /\ d.astray /\ d.pc = "returned"
  <1> DEFINE e == Returned(c, b)
  <1>1. SameSearch(c, e) /\ IsCall(e) /\ e.pc = "returned"
    BY ReturnedFields DEF SameSearch, SameCall
  <1> HIDE DEF e
  <1> QED  BY <1>1 DEF IsCall, CallFields, SameSearch, SameCall, e

----------------------------------------------------------------------------
(* What holds of a call at every await.                                    *)

HashMethods   == {"eth_getBlockByHash", "eth_getBlockTransactionCountByHash"}
NumberMethods == {"eth_getBlockByNumber", "eth_getUncleCountByBlockNumber"}
BlockMethods  == HashMethods \cup NumberMethods \cup {"eth_getLogs"}

\* A search by hash, and one by number; getLogs makes one after the other.
SeeksHash(c)   == c.method \in HashMethods \/ (c.method = "eth_getLogs" /\ c.first = <<>>)
SeeksNumber(c) == c.method \in NumberMethods \/ (c.method = "eth_getLogs" /\ c.first # <<>>)

\* The hash or number in the request.
Named(c) ==
  IF c.method = "eth_getLogs" THEN Field(Param(c.params, 1), "blockHash").means
  ELSE Param(c.params, 1).means

NumberAsked(c) == IF c.method = "eth_getLogs" THEN Number[Named(c)] ELSE Named(c)

\* What is searched is what was asked for.
SearchInv(c) ==
  /\ c.method = "eth_getLogs" => Named(c) \in Headers
  /\ SeeksHash(c) => c.seeks = Named(c) /\ c.epoch = <<>>
  /\ SeeksNumber(c) =>
       /\ c.number = NumberAsked(c) /\ Number[c.seeks] = c.number
       /\ IsChain(c.consulted) /\ c.seeks \in HashesOf(c.consulted)

\* What was found is what was searched, but for a body nobody had.
FoundInv(c) ==
  /\ SearchInv(c) /\ c.found[1].hash = c.seeks
  /\ c.found[1].body = <<c.seeks>> \/ (c.gap /\ c.found[1].body = <<>>)

\* Why no block has the number asked for.
Excused(c) ==
  \/ c.gap \/ ~ IsNumber(Param(c.params, 1))
  \/ Named(c) > Height(c.consulted) \/ Named(c) = EpochSize * Len(c.consulted.epochs)

LogsInv(c) ==
  LET h == c.found[1].hash IN
  /\ Number[h] = Number[Named(c)] /\ c.value \subseteq Logs[h]
  /\ Named(c) \in HashesOf(c.consulted) => h = Named(c)

CountInv(c, counts, h) == c.value = {counts[h]} \/ (c.gap /\ c.value = {0})

AnswerInv(c) ==
  /\ c.method = "eth_getBlockByHash" /\ c.answer = "block" => c.value = {Named(c)}
  /\ c.method = "eth_getBlockByNumber" /\ c.answer = "block" =>
       \A h \in c.value : Number[h] = Named(c) /\ h \in HashesOf(c.consulted)
  /\ c.method = "eth_getBlockTransactionCountByHash" /\ c.answer = "number" =>
       CountInv(c, TxCount, Named(c))
  /\ c.method = "eth_getUncleCountByBlockNumber" /\ c.answer = "number" =>
       \E h : Number[h] = Named(c) /\ h \in HashesOf(c.consulted) /\ CountInv(c, UncleCount, h)
  /\ c.method = "eth_getLogs" /\ c.answer = "logs" => LogsInv(c)
  /\ \/ c.method = "eth_getBlockByNumber" /\ c.answer = "not found"
     \/ c.method = "eth_getUncleCountByBlockNumber" /\ c.answer = "raw"
     => Excused(c)

\* A call that was not led astray.
StraightInv(c) ==
  /\ c.pc \in {"epoch", "header", "body"} => SearchInv(c)
  /\ c.pc = "body" => c.header = c.seeks
  /\ c.pc = "returned" /\ c.found # <<>> => FoundInv(c)
  /\ c.pc = "returned" /\ c.found = <<>> /\ c.method \in NumberMethods => Excused(c)
  /\ c.pc = "receipts" => c.first # <<>> /\ FoundInv(c)
  /\ c.pc = "answered" => AnswerInv(c)

CallInv(c) ==
  /\ IsCall(c)
  /\ c.pc \in {"epoch", "header", "body", "returned"} => c.method \in BlockMethods
  /\ c.pc = "receipts" => c.method = "eth_getLogs"
  /\ ~ c.astray => StraightInv(c)

LEMMA SameSearchKeeps ==
  ASSUME NEW c, NEW d, SameSearch(c, d)
  PROVE  /\ Named(d) = Named(c) /\ d.method = c.method /\ d.astray = c.astray /\ IsCall(d)
         /\ SearchInv(c) => SearchInv(d)
         /\ Excused(c) => Excused(d)
  <1>1. /\ IsCall(d) /\ d.method = c.method /\ d.params = c.params /\ d.first = c.first
        /\ d.gap = c.gap /\ d.astray = c.astray /\ d.number = c.number /\ d.seeks = c.seeks
        /\ d.epoch = c.epoch /\ d.consulted = c.consulted
    BY DEF SameSearch, SameCall
  <1>2. Named(d) = Named(c)
    BY <1>1 DEF Named
  <1>3. NumberAsked(d) = NumberAsked(c)
    BY <1>1, <1>2 DEF NumberAsked
  <1>4. SeeksHash(d) = SeeksHash(c) /\ SeeksNumber(d) = SeeksNumber(c)
    BY <1>1 DEF SeeksHash, SeeksNumber
  <1>5. SearchInv(c) => SearchInv(d)
    BY <1>1, <1>2, <1>3, <1>4 DEF SearchInv
  <1>6. Excused(c) => Excused(d)
    BY <1>1, <1>2 DEF Excused
  <1> QED  BY <1>1, <1>2, <1>5, <1>6

\* A call that ends with an error.
LEMMA FailsInv ==
  ASSUME NEW c, IsCall(c),
         NEW answer \in {"invalid", "text", "internal", "lost", "raw", "not found"},
         c.method \in NumberMethods /\ answer \in {"raw", "not found"} => c.astray \/ Excused(c)
  PROVE  CallInv(Fails(c, answer)) /\ Fails(c, answer).pc = "answered"
  <1> DEFINE d == Fails(c, answer)
  <1>1. SameSearch(c, d) /\ d.pc = "answered" /\ d.answer = answer
    BY FailsFields
  <1> HIDE DEF d
  <1>2. d.method = c.method /\ d.astray = c.astray /\ IsCall(d) /\ (Excused(c) => Excused(d))
    BY <1>1, SameSearchKeeps
  <1>3. ~ d.astray => AnswerInv(d)
    <2>1. d.answer \notin {"block", "number", "logs"}
      BY <1>1
    <2>2. ~ d.astray /\ d.method \in NumberMethods /\ d.answer \in {"raw", "not found"} => Excused(d)
      BY <1>1, <1>2
    <2> QED  BY <2>1, <2>2 DEF AnswerInv, NumberMethods
  <1>4. ~ d.astray => StraightInv(d)
    BY <1>1, <1>3 DEF StraightInv
  <1>5. CallInv(d)
    BY <1>1, <1>2, <1>4 DEF CallInv
  <1> QED  BY <1>1, <1>5 DEF d

\* A search by hash begins.
LEMMA FindByHashInv ==
  ASSUME NEW c, IsCall(c), NEW h, NEW full, c.method \in BlockMethods, SeeksHash(c),
         h = Named(c), c.epoch = <<>>, c.method = "eth_getLogs" => h \in Headers
  PROVE  CallInv(FindByHash(c, h, full))
  <1> DEFINE d == FindByHash(c, h, full)
  <1>1. /\ SameCall(c, d) /\ d.epoch = c.epoch /\ d.seeks = h /\ d.pc = "header"
    BY FindByHashFields
  <1> HIDE DEF d
  <1>2. /\ IsCall(d) /\ d.method = c.method /\ d.params = c.params /\ d.first = c.first
    BY <1>1 DEF SameCall
  <1>3. Named(d) = h
    BY <1>2 DEF Named
  <1>4. SeeksHash(d) /\ ~ SeeksNumber(d)
    BY <1>2 DEF SeeksHash, SeeksNumber, HashMethods, NumberMethods
  <1>5. SearchInv(d)
    BY <1>1, <1>2, <1>3, <1>4 DEF SearchInv
  <1>6. StraightInv(d)
    BY <1>1, <1>5 DEF StraightInv
  <1>7. CallInv(d)
    BY <1>1, <1>2, <1>6 DEF CallInv
  <1> QED  BY <1>7 DEF d

\* A search by number goes by what the accumulator says, whatever call it is for.
LEMMA FindByNumberFields ==
  ASSUME NEW c, IsCall(c), NEW n, NEW full
  PROVE  LET d    == FindByNumber(c, n, full)
             hash == HashOfNumber(acc, n) IN
         /\ SameCall(c, d) /\ d.number = n /\ d.consulted = acc
         /\ \/ hash = <<>> /\ d.pc = "returned" /\ d.found = <<>>
            \/ hash # <<>> /\ d.pc \in {"header", "epoch"} /\ d.seeks = hash[1]
  <1> DEFINE hash == HashOfNumber(acc, n)
             named == [c EXCEPT !.number = n, !.consulted = acc, !.epoch = <<>>]
             sealed == [named EXCEPT !.pc = "epoch", !.seeks = hash[1], !.full = full,
                                     !.epoch = acc.epochs[EpochIndex(n)]]
             d == FindByNumber(c, n, full)
  <1>1. /\ SameCall(c, named) /\ IsCall(named) /\ named.number = n /\ named.consulted = acc
        /\ named.epoch = <<>>
    BY DEF IsCall, CallFields, SameCall
  <1>2. d = IF hash = <<>> THEN Returned(named, <<>>)
            ELSE IF n > EpochSize * Len(acc.epochs) THEN FindByHash(named, hash[1], full)
            ELSE sealed
    BY DEF FindByNumber
  <1> HIDE DEF hash, d
  <1>3. /\ SameCall(named, sealed) /\ sealed.number = named.number
        /\ sealed.consulted = named.consulted
        /\ sealed.pc = "epoch" /\ sealed.seeks = hash[1]
    <2> HIDE DEF named
    <2> QED  BY <1>1 DEF IsCall, CallFields, SameCall
  <1> HIDE DEF named, sealed
  <1>4. CASE hash = <<>>
    <2>1. d = Returned(named, <<>>)
      BY <1>2, <1>4
    <2>2. SameSearch(named, d) /\ d.pc = "returned" /\ d.found = <<>>
      BY <1>1, <2>1, ReturnedFields
    <2> QED  BY <1>1, <1>4, <2>2 DEF SameSearch, SameCall, d, hash
  <1>5. CASE hash # <<>> /\ n > EpochSize * Len(acc.epochs)
    <2>1. d = FindByHash(named, hash[1], full)
      BY <1>2, <1>5
    <2>2. SameCall(named, d) /\ d.number = named.number /\ d.consulted = named.consulted
          /\ d.seeks = hash[1] /\ d.pc = "header"
      BY <1>1, <2>1, FindByHashFields
    <2> QED  BY <1>1, <1>5, <2>2 DEF SameCall, d, hash
  <1>6. CASE hash # <<>> /\ ~ (n > EpochSize * Len(acc.epochs))
    <2>1. d = sealed
      BY <1>2, <1>6
    <2> QED  BY <1>1, <1>3, <1>6, <2>1 DEF SameCall, d, hash
  <1> QED  BY <1>4, <1>5, <1>6

LEMMA FindByNumberInv ==
  ASSUME Number[Genesis] = 0, acc = Empty \/ IsChain(acc),
         NEW c, IsCall(c), NEW n, NEW full, c.method \in BlockMethods,
         ~ c.astray => /\ SeeksNumber(c) /\ n = NumberAsked(c) /\ n \in Nat
                       /\ c.method = "eth_getLogs" => Named(c) \in Headers
  PROVE  CallInv(FindByNumber(c, n, full))
  <1> DEFINE d == FindByNumber(c, n, full)
             hash == HashOfNumber(acc, n)
  <1>1. /\ SameCall(c, d) /\ d.number = n /\ d.consulted = acc
        /\ \/ hash = <<>> /\ d.pc = "returned" /\ d.found = <<>>
           \/ hash # <<>> /\ d.pc \in {"header", "epoch"} /\ d.seeks = hash[1]
    BY FindByNumberFields
  <1> HIDE DEF d, hash
  <1>2. /\ IsCall(d) /\ d.method = c.method /\ d.params = c.params /\ d.first = c.first
        /\ d.astray = c.astray /\ Named(d) = Named(c) /\ NumberAsked(d) = NumberAsked(c)
    BY <1>1 DEF SameCall, Named, NumberAsked
  <1>3. ASSUME ~ d.astray PROVE StraightInv(d)
    <2>1. /\ SeeksNumber(d) /\ ~ SeeksHash(d) /\ n = NumberAsked(d) /\ n \in Nat
          /\ d.method = "eth_getLogs" => Named(d) \in Headers
      BY <1>2, <1>3 DEF SeeksNumber, SeeksHash, NumberMethods, HashMethods
    <2>2. \/ hash = <<>> /\ (n > Height(acc) \/ n = EpochSize * Len(acc.epochs))
          \/ \E h \in HashesOf(acc) : hash = <<h>> /\ Number[h] = n
      BY <2>1, NumberLookedUp DEF hash
    <2>3. CASE hash = <<>>
      <3>1. n > Height(acc) \/ n = EpochSize * Len(acc.epochs)
        BY <2>2, <2>3
      <3>2. d.method \in NumberMethods => Named(d) = n
        BY <2>1 DEF NumberAsked, NumberMethods
      <3>3. d.method \in NumberMethods => Excused(d)
        BY <1>1, <3>1, <3>2 DEF Excused
      <3>4. d.pc = "returned" /\ d.found = <<>>
        BY <1>1, <2>3
      <3> QED  BY <3>3, <3>4 DEF StraightInv
    <2>4. CASE hash # <<>>
      <3>1. PICK h \in HashesOf(acc) : hash = <<h>> /\ Number[h] = n
        BY <2>2, <2>4
      <3>2. d.seeks = h /\ d.pc \in {"header", "epoch"}
        BY <1>1, <2>4, <3>1
      <3>3. IsChain(acc)
        <4>1. HashesOf(Empty) = {}
          BY DEF HashesOf, Empty, EpochCount, Epoch, Hashes
        <4> QED  BY <3>1, <4>1
      <3>4. SearchInv(d)
        BY <1>1, <2>1, <3>1, <3>2, <3>3 DEF SearchInv
      <3> QED  BY <3>2, <3>4 DEF StraightInv
    <2> QED  BY <2>3, <2>4
  <1>4. CallInv(d)
    BY <1>1, <1>2, <1>3 DEF CallInv
  <1> QED  BY <1>4 DEF d

----------------------------------------------------------------------------
(* Every step of a call.                                                   *)

\* An answer to a method that does not look for a block.
LEMMA OtherAnswerInv ==
  ASSUME NEW c, IsCall(c), c.method \notin BlockMethods, NEW answer, NEW value
  PROVE  CallInv(Answer(c, answer, value))
  <1> DEFINE d == Answer(c, answer, value)
  <1>1. SameSearch(c, d) /\ d.pc = "answered"
    BY AnswerFields
  <1> HIDE DEF d
  <1>2. IsCall(d) /\ d.method \notin BlockMethods
    BY <1>1 DEF SameSearch, SameCall
  <1>3. AnswerInv(d)
    BY <1>2 DEF AnswerInv, BlockMethods, HashMethods, NumberMethods
  <1>4. CallInv(d)
    BY <1>1, <1>2, <1>3 DEF CallInv, StraightInv
  <1> QED  BY <1>4 DEF d

LEMMA WaitsInv ==
  ASSUME NEW c, IsCall(c) PROVE CallInv([c EXCEPT !.pc = "network"])
  <1> DEFINE d == [c EXCEPT !.pc = "network"]
  <1>1. IsCall(d) /\ d.pc = "network"
    BY DEF IsCall, CallFields
  <1> HIDE DEF d
  <1>2. CallInv(d)
    BY <1>1 DEF CallInv, StraightInv
  <1> QED  BY <1>2 DEF d

LEMMA StartPortalInv ==
  ASSUME NEW c, IsCall(c), c.method \in PortalMethods \ Adding
  PROVE  CallInv(StartPortal(c))
  <1> DEFINE waits == [c EXCEPT !.pc = "network"]
  <1>1. CallInv(waits)
    BY WaitsInv
  <1>2. \A answer \in {"text", "raw"} : CallInv(Fails(c, answer))
    <2>1. c.method \notin NumberMethods
      BY DEF PortalMethods, NumberMethods
    <2> QED  BY <2>1, FailsInv
  <1> HIDE DEF waits
  <1>3. StartPortal(c) \in {Fails(c, "text"), Fails(c, "raw"), waits}
    <2>1. c.method \in {"portal_nodeEnr", "portal_headerAccumulatorRoot",
                        "portal_history_findContent", "portal_addBootNode", "portal_ping",
                        "portal_findNodes", "portal_history_getSnapshot", "portal_nodeLookup",
                        "portal_history_offer"}
      BY DEF PortalMethods, Adding
    <2> QED  BY <2>1 DEF StartPortal, waits
  <1> QED  BY <1>1, <1>2, <1>3

\* The middleware lets pass a method of its own with parameters that are valid.
LEMMA Checked ==
  ASSUME NEW method, NEW params
  PROVE  \/ Middleware(method, params) = "invalid"
         \/ Middleware(method, params) = "exception" /\ method = "eth_getLogs"
         \/ /\ Middleware(method, params) = "passes"
            /\ method \in EthMethods => EthValid(method, params)
  BY DEF Middleware

LEMMA StartNumberInv ==
  ASSUME Number[Genesis] = 0, acc = Empty \/ IsChain(acc),
         NEW c, IsCall(c), c.method \in NumberMethods, NEW full,
         IsNumber(Param(c.params, 1)) => Param(c.params, 1).means \in Nat
  PROVE  CallInv(StartNumber(c, Param(c.params, 1), full))
  <1> DEFINE v == Param(c.params, 1)
  <1>0. c.method # "eth_getLogs" /\ c.method \in BlockMethods
    BY DEF NumberMethods, BlockMethods
  <1>1. CASE IsNumber(v)
    <2>1. SeeksNumber(c) /\ v.means = NumberAsked(c) /\ v.means \in Nat
      BY <1>0, <1>1 DEF SeeksNumber, NumberAsked, Named
    <2>2. CallInv(FindByNumber(c, v.means, full))
      BY <1>0, <2>1, FindByNumberInv
    <2> QED  BY <1>1, <2>2 DEF StartNumber
  <1>2. CASE ~ IsNumber(v)
    <2> DEFINE d == Returned(c, <<>>)
    <2>1. SameSearch(c, d) /\ d.pc = "returned" /\ d.found = <<>>
      BY ReturnedFields
    <2> HIDE DEF d
    <2>2. IsCall(d) /\ d.method = c.method /\ d.params = c.params
      BY <2>1 DEF SameSearch, SameCall
    <2>3. Excused(d)
      BY <1>2, <2>2 DEF Excused
    <2>4. CallInv(d)
      BY <1>0, <2>1, <2>2, <2>3 DEF CallInv, StraightInv
    <2> QED  BY <1>2, <2>4 DEF StartNumber, d
  <1> QED  BY <1>1, <1>2

LEMMA StartLogsInv ==
  ASSUME NEW c, IsCall(c), c.method = "eth_getLogs", c.epoch = <<>>, c.first = <<>>,
         Filter(Param(c.params, 1)),
         LET hash == Field(Param(c.params, 1), "blockHash") IN
         BlockHash(hash) => hash.means \in Headers
  PROVE  CallInv(StartLogs(c))
  <1> DEFINE hash == Field(Param(c.params, 1), "blockHash")
  <1>1. c.method \notin NumberMethods /\ c.method \in BlockMethods /\ SeeksHash(c)
    BY DEF NumberMethods, BlockMethods, SeeksHash
  <1>2. \A answer \in {"invalid", "raw"} : CallInv(Fails(c, answer))
    BY <1>1, FailsInv
  <1>3. ~ IsFalsy(hash) => hash.means \in Headers /\ hash.means = Named(c)
    BY DEF Filter, Given, Named
  <1>4. ~ IsFalsy(hash) => CallInv(FindByHash(c, hash.means, TRUE))
    <2> HIDE DEF hash
    <2> QED  BY <1>1, <1>3, FindByHashInv
  <1>5. StartLogs(c) \in {Fails(c, "invalid"), Fails(c, "raw")}
        \/ (~ IsFalsy(hash) /\ StartLogs(c) = FindByHash(c, hash.means, TRUE))
    BY DEF StartLogs
  <1> QED  BY <1>2, <1>4, <1>5

LEMMA HandledInv ==
  ASSUME Number[Genesis] = 0, acc = Empty \/ IsChain(acc), NEW r \in Requests, r[1] \notin Adding
  PROVE  CallInv(Handled(NewCall(r)))
  <1> DEFINE c == NewCall(r)
             p1 == Param(c.params, 1)
             p2 == Param(c.params, 2)
  <1>1. /\ IsCall(c) /\ c.method = r[1] /\ c.params = r[2]
        /\ c.epoch = <<>> /\ c.first = <<>> /\ ~ c.gap /\ ~ c.astray
    BY NewCallFields
  <1>2. /\ c.method \in EthMethods \cup (PortalMethods \ Adding)
        /\ BlockHash(p1) => p1.means \in Headers
        /\ IsNumber(p1) => p1.means \in Nat
        /\ LET hash == Field(p1, "blockHash") IN BlockHash(hash) => hash.means \in Headers
    BY <1>1, RequestsAssumption
  <1> HIDE DEF c
  <1>3. CASE Middleware(c.method, c.params) = "invalid"
    <2>1. Handled(c) = Fails(c, "invalid")
      BY <1>3 DEF Handled
    <2> QED  BY <1>1, <2>1, FailsInv DEF c
  <1>4. CASE Middleware(c.method, c.params) = "exception" /\ c.method = "eth_getLogs"
    <2>1. Handled(c) = Fails(c, "raw")
      BY <1>4 DEF Handled
    <2>2. c.method \notin NumberMethods
      BY <1>4 DEF NumberMethods
    <2> QED  BY <1>1, <2>1, <2>2, FailsInv DEF c
  <1>5. CASE Middleware(c.method, c.params) = "passes" /\ c.method \notin EthMethods
    <2>1. Handled(c) = StartPortal(c)
      BY <1>5 DEF Handled
    <2> QED  BY <1>1, <1>2, <1>5, <2>1, StartPortalInv DEF c
  <1>6. CASE /\ Middleware(c.method, c.params) = "passes" /\ c.method \in EthMethods
             /\ EthValid(c.method, c.params)
    <2>1. Handled(c) = StartEth(c)
      BY <1>6 DEF Handled
    <2>2. CASE c.method \in {"eth_blockNumber", "eth_chainId"}
      <3>1. c.method \notin BlockMethods
        BY <2>2 DEF BlockMethods, HashMethods, NumberMethods
      <3>2. StartEth(c) \in {Answer(c, "number", {Height(acc)}), Answer(c, "number", {1})}
        BY <2>2 DEF StartEth
      <3> QED  BY <1>1, <2>1, <3>1, <3>2, OtherAnswerInv DEF c
    <2>3. CASE c.method \in HashMethods
      <3>1. c.method \in BlockMethods /\ SeeksHash(c) /\ p1.means = Named(c) /\ c.method # "eth_getLogs"
        BY <2>3 DEF BlockMethods, SeeksHash, Named, HashMethods
      <3>2. \A full : CallInv(FindByHash(c, p1.means, full))
        BY <1>1, <3>1, FindByHashInv
      <3>3. \E full : StartEth(c) = FindByHash(c, p1.means, full)
        BY <2>3 DEF StartEth, HashMethods
      <3> QED  BY <2>1, <3>2, <3>3 DEF c
    <2>4. CASE c.method \in NumberMethods
      <3>1. \A full : CallInv(StartNumber(c, p1, full))
        BY <1>1, <1>2, <2>4, StartNumberInv
      <3>2. \E full : StartEth(c) = StartNumber(c, p1, full)
        BY <2>4 DEF StartEth, NumberMethods
      <3> QED  BY <2>1, <3>1, <3>2 DEF c
    <2>5. CASE c.method = "eth_getLogs"
      <3>1. Filter(p1)
        BY <1>6, <2>5 DEF EthValid
      <3>2. StartEth(c) = StartLogs(c)
        BY <2>5 DEF StartEth
      <3> QED  BY <1>1, <1>2, <2>1, <2>5, <3>1, <3>2, StartLogsInv DEF c
    <2> QED  BY <1>6, <2>2, <2>3, <2>4, <2>5 DEF EthMethods, HashMethods, NumberMethods
  <1> QED  BY <1>2, <1>3, <1>4, <1>5, <1>6, Checked DEF c

\* A search that gave no block because a lookup gave nothing.
LEMMA GapInv ==
  ASSUME NEW c, IsCall(c), c.method \in BlockMethods
  PROVE  CallInv([Returned(c, <<>>) EXCEPT !.gap = TRUE])
  <1> DEFINE d == [Returned(c, <<>>) EXCEPT !.gap = TRUE]
  <1>1. /\ IsCall(d) /\ d.method = c.method /\ d.gap /\ d.pc = "returned"
        /\ d.found = Returned(c, <<>>).found
    BY GapFields
  <1>2. d.found = <<>>
    BY <1>1, ReturnedFields
  <1> HIDE DEF d
  <1>3. CallInv(d)
    BY <1>1, <1>2 DEF CallInv, StraightInv, Excused
  <1> QED  BY <1>3 DEF d

\* The block with the header and the body that were searched is not given up:
\* it has the number it was searched by.
LEMMA NotGivenUp ==
  ASSUME NEW c, IsCall(c), c.method \in BlockMethods, SearchInv(c), c.header = c.seeks, NEW body
  PROVE  LET b == <<[hash |-> c.header, body |-> body]>> IN Returned(c, b).found = b
  <1> DEFINE b == <<[hash |-> c.header, body |-> body]>>
  <1>1. b[1].hash = c.seeks
    OBVIOUS
  <1>2. CASE SeeksHash(c)
    <2>1. c.epoch = <<>>
      BY <1>2 DEF SearchInv
    <2> HIDE DEF b
    <2>2. Returned(c, b).found = b
      BY <2>1, ReturnedFields
    <2> QED  BY <2>2 DEF b
  <1>3. CASE SeeksNumber(c)
    <2>1. Number[c.seeks] = c.number
      BY <1>3 DEF SearchInv
    <2> HIDE DEF b
    <2>2. Returned(c, b).found = b
      BY <1>1, <2>1, ReturnedFields
    <2> QED  BY <2>2 DEF b
  <1>4. SeeksHash(c) \/ SeeksNumber(c)
    BY DEF SeeksHash, SeeksNumber, BlockMethods
  <1> QED  BY <1>2, <1>3, <1>4

\* A block with the body, or without if there is a gap.
LEMMA BlockFoundInv ==
  ASSUME NEW c, CallInv(c), c.pc = "body"
  PROVE  /\ CallInv(Returned(c, <<[hash |-> c.header, body |-> <<c.seeks>>]>>))
         /\ CallInv([Returned(c, <<[hash |-> c.header, body |-> <<>>]>>) EXCEPT !.gap = TRUE])
  <1>1. /\ IsCall(c) /\ c.method \in BlockMethods
        /\ ~ c.astray => SearchInv(c) /\ c.header = c.seeks
    BY DEF CallInv, StraightInv
  <1>2. CallInv(Returned(c, <<[hash |-> c.header, body |-> <<c.seeks>>]>>))
    <2> DEFINE b == <<[hash |-> c.header, body |-> <<c.seeks>>]>>
               d == Returned(c, b)
    <2>1. SameSearch(c, d) /\ d.pc = "returned"
      BY <1>1, ReturnedFields
    <2>2. ~ c.astray => d.found = b
      BY <1>1, NotGivenUp
    <2>3. b # <<>> /\ b[1].hash = c.header /\ b[1].body = <<c.seeks>>
      OBVIOUS
    <2> HIDE DEF b, d
    <2>4. d.method = c.method /\ d.astray = c.astray /\ IsCall(d) /\ (SearchInv(c) => SearchInv(d))
      BY <2>1, SameSearchKeeps
    <2>5. d.seeks = c.seeks
      BY <2>1 DEF SameSearch
    <2>6. ~ d.astray => FoundInv(d) /\ d.found # <<>>
      BY <1>1, <2>2, <2>3, <2>4, <2>5 DEF FoundInv
    <2>7. CallInv(d)
      BY <1>1, <2>1, <2>4, <2>6 DEF CallInv, StraightInv
    <2> QED  BY <2>7 DEF d, b
  <1>3. CallInv([Returned(c, <<[hash |-> c.header, body |-> <<>>]>>) EXCEPT !.gap = TRUE])
    <2> DEFINE b == <<[hash |-> c.header, body |-> <<>>]>>
               e == Returned(c, b)
               d == [e EXCEPT !.gap = TRUE]
    <2>1. /\ IsCall(d) /\ d.method = c.method /\ d.params = c.params /\ d.first = c.first
          /\ d.astray = c.astray /\ d.gap /\ d.pc = "returned" /\ d.found = e.found
          /\ d.number = c.number /\ d.seeks = c.seeks /\ d.epoch = c.epoch
          /\ d.consulted = c.consulted
      BY <1>1, GapFields
    <2>2. ~ c.astray => e.found = b
      BY <1>1, NotGivenUp
    <2>3. b # <<>> /\ b[1].hash = c.header /\ b[1].body = <<>>
      OBVIOUS
    <2> HIDE DEF b, d, e
    <2>4. SearchInv(c) => SearchInv(d)
      BY <2>1 DEF SearchInv, SeeksHash, SeeksNumber, Named, NumberAsked
    <2>6. ~ d.astray => FoundInv(d) /\ d.found # <<>>
      BY <1>1, <2>1, <2>2, <2>3, <2>4 DEF FoundInv
    <2>7. CallInv(d)
      BY <1>1, <2>1, <2>6 DEF CallInv, StraightInv
    <2> QED  BY <2>7 DEF d, e, b
  <1> QED  BY <1>2, <1>3

LEMMA AstrayInv ==
  ASSUME NEW c, IsCall(c), c.method \in BlockMethods, NEW b
  PROVE  CallInv([Returned(c, b) EXCEPT !.astray = TRUE])
  <1> DEFINE d == [Returned(c, b) EXCEPT !.astray = TRUE]
  <1>1. IsCall(d) /\ d.method = c.method /\ d.astray /\ d.pc = "returned"
    BY AstrayFields
  <1> HIDE DEF d
  <1>2. CallInv(d)
    BY <1>1 DEF CallInv
  <1> QED  BY <1>2 DEF d

LEMMA EpochInv ==
  ASSUME CallInv(call), EpochLookedUp PROVE CallInv(call')
  <1>1. /\ call.pc = "epoch" /\ IsCall(call) /\ call.method \in BlockMethods
        /\ ~ call.astray => SearchInv(call)
    BY DEF EpochLookedUp, CallInv, StraightInv
  <1>2. \/ call' = FindByHash(call, call.seeks, call.full)
        \/ call' = [Returned(call, <<>>) EXCEPT !.gap = TRUE]
    BY DEF EpochLookedUp
  <1>3. CASE call' = FindByHash(call, call.seeks, call.full)
    <2> DEFINE d == FindByHash(call, call.seeks, call.full)
    <2>1. /\ SameCall(call, d) /\ d.number = call.number /\ d.epoch = call.epoch
          /\ d.consulted = call.consulted /\ d.seeks = call.seeks /\ d.pc = "header"
      BY <1>1, FindByHashFields
    <2>2. call' = d
      BY <1>3
    <2> HIDE DEF d
    <2>3. SameSearch(call, d)
      BY <2>1 DEF SameSearch
    <2>4. d.method = call.method /\ d.astray = call.astray /\ IsCall(d)
          /\ (SearchInv(call) => SearchInv(d))
      BY <2>3, SameSearchKeeps
    <2>5. CallInv(d)
      BY <1>1, <2>1, <2>4 DEF CallInv, StraightInv
    <2> QED  BY <2>2, <2>5
  <1>4. CASE call' = [Returned(call, <<>>) EXCEPT !.gap = TRUE]
    BY <1>1, <1>4, GapInv
  <1> QED  BY <1>2, <1>3, <1>4

LEMMA HeaderInv ==
  ASSUME CallInv(call), HeaderLookedUp PROVE CallInv(call')
  <1>1. /\ call.pc = "header" /\ IsCall(call) /\ call.method \in BlockMethods
        /\ ~ call.astray => SearchInv(call)
    BY DEF HeaderLookedUp, CallInv, StraightInv
  <1>2. \/ call' = [Returned(call, <<>>) EXCEPT !.gap = TRUE]
        \/ call' = [call EXCEPT !.pc = "body", !.header = call.seeks]
        \/ \E h : call' = [call EXCEPT !.pc = "body", !.header = h, !.astray = TRUE]
    BY DEF HeaderLookedUp
  <1>3. CASE call' = [Returned(call, <<>>) EXCEPT !.gap = TRUE]
    BY <1>1, <1>3, GapInv
  <1>4. CASE call' = [call EXCEPT !.pc = "body", !.header = call.seeks]
    <2>1. SameSearch(call, call') /\ call'.pc = "body" /\ call'.header = call.seeks
      BY <1>1, <1>4 DEF IsCall, CallFields, SameSearch, SameCall
    <2>2. /\ call'.method = call.method /\ call'.astray = call.astray /\ IsCall(call')
          /\ SearchInv(call) => SearchInv(call')
      <3> DEFINE d == call'
      <3>1. SameSearch(call, d)
        BY <2>1
      <3> HIDE DEF d
      <3>2. /\ d.method = call.method /\ d.astray = call.astray /\ IsCall(d)
            /\ SearchInv(call) => SearchInv(d)
        BY <3>1, SameSearchKeeps
      <3> QED  BY <3>2 DEF d
    <2>3. call'.seeks = call.seeks
      BY <2>1 DEF SameSearch
    <2> QED  BY <1>1, <2>1, <2>2, <2>3 DEF CallInv, StraightInv
  <1>5. CASE \E h : call' = [call EXCEPT !.pc = "body", !.header = h, !.astray = TRUE]
    <2>1. IsCall(call') /\ call'.pc = "body" /\ call'.astray /\ call'.method = call.method
      BY <1>1, <1>5 DEF IsCall, CallFields
    <2> QED  BY <1>1, <2>1 DEF CallInv
  <1> QED  BY <1>2, <1>3, <1>4, <1>5

LEMMA BodyInv ==
  ASSUME CallInv(call), BodyLookedUp PROVE CallInv(call')
  <1>1. call.pc = "body" /\ IsCall(call) /\ call.method \in BlockMethods
    BY DEF BodyLookedUp, CallInv
  <1>2. \/ call' = Returned(call, <<[hash |-> call.header, body |-> <<call.seeks>>]>>)
        \/ call' = [Returned(call, <<[hash |-> call.header, body |-> <<>>]>>) EXCEPT !.gap = TRUE]
        \/ call' = [Returned(call, <<>>) EXCEPT !.gap = TRUE]
        \/ \E b : call' = [Returned(call, b) EXCEPT !.astray = TRUE]
    BY DEF BodyLookedUp
  <1>3. CASE call' = Returned(call, <<[hash |-> call.header, body |-> <<call.seeks>>]>>)
    BY <1>1, <1>3, BlockFoundInv
  <1>4. CASE call' = [Returned(call, <<[hash |-> call.header, body |-> <<>>]>>) EXCEPT !.gap = TRUE]
    BY <1>1, <1>4, BlockFoundInv
  <1>5. CASE call' = [Returned(call, <<>>) EXCEPT !.gap = TRUE]
    BY <1>1, <1>5, GapInv
  <1>6. CASE \E b : call' = [Returned(call, b) EXCEPT !.astray = TRUE]
    BY <1>1, <1>6, AstrayInv
  <1> QED  BY <1>2, <1>3, <1>4, <1>5, <1>6

LEMMA ReceiptsInv ==
  ASSUME Number[Genesis] = 0, CallInv(call), ReadReceipts PROVE CallInv(call')
  <1>1. /\ call.pc = "receipts" /\ IsCall(call) /\ call.method = "eth_getLogs"
        /\ ~ call.astray => call.first # <<>> /\ FoundInv(call)
    BY DEF ReadReceipts, CallInv, StraightInv
  <1> DEFINE h == call.found[1].hash
             value == {log \in Logs[h] : FromAddress(log) /\ Matches(log)}
  <1>2. \/ call' = Fails(call, "internal")
        \/ call' = Answer(call, "logs", value)
    BY DEF ReadReceipts
  <1>3. CASE call' = Fails(call, "internal")
    <2>1. call.method \notin NumberMethods
      BY <1>1 DEF NumberMethods
    <2> QED  BY <1>1, <1>3, <2>1, FailsInv
  <1>4. CASE call' = Answer(call, "logs", value)
    <2> DEFINE d == Answer(call, "logs", value)
    <2>0. value \subseteq Logs[h]
      OBVIOUS
    <2> HIDE DEF value
    <2>1. SameSearch(call, d) /\ d.found = call.found /\ d.pc = "answered" /\ d.value = value
      BY <1>1, AnswerFields
    <2>2. call' = d
      BY <1>4
    <2> HIDE DEF d
    <2>3. /\ d.method = call.method /\ d.astray = call.astray /\ IsCall(d)
          /\ Named(d) = Named(call) /\ d.consulted = call.consulted
      <3>1. d.consulted = call.consulted
        BY <2>1 DEF SameSearch
      <3> QED  BY <2>1, <3>1, SameSearchKeeps
    <2>4. ASSUME ~ d.astray PROVE LogsInv(d)
      <3>1. FoundInv(call) /\ SeeksNumber(call)
        BY <1>1, <2>3, <2>4 DEF SeeksNumber
      <3>2. /\ h = call.seeks /\ Number[h] = Number[Named(call)]
            /\ IsChain(call.consulted) /\ h \in HashesOf(call.consulted)
        BY <1>1, <3>1 DEF FoundInv, SearchInv, NumberAsked
      <3>3. Named(call) \in HashesOf(call.consulted) => h = Named(call)
        <4> HIDE DEF h
        <4> QED  BY <3>2, NumbersAreUnique
      <3> QED  BY <2>0, <2>1, <2>3, <3>2, <3>3 DEF LogsInv
    <2>5. CallInv(d)
      <3>1. ~ d.astray => AnswerInv(d)
        BY <1>1, <2>3, <2>4 DEF AnswerInv
      <3> QED  BY <2>1, <2>3, <3>1 DEF CallInv, StraightInv
    <2> QED  BY <2>2, <2>5
  <1> QED  BY <1>2, <1>3, <1>4

\* The block getLogs is about is there, and is searched for again by its number.
LEMMA FirstFoundInv ==
  ASSUME Number[Genesis] = 0, acc = Empty \/ IsChain(acc), CallInv(call),
         call.pc = "returned", call.method = "eth_getLogs", call.first = <<>>
  PROVE  CallInv(FirstFound(call))
  <1>1. IsCall(call) /\ (~ call.astray /\ call.found # <<>> => FoundInv(call))
    BY DEF CallInv, StraightInv
  <1>2. \A answer \in {"raw", "internal"} : CallInv(Fails(call, answer))
    <2>1. call.method \notin NumberMethods
      BY DEF NumberMethods
    <2> QED  BY <1>1, <2>1, FailsInv
  <1> DEFINE c == [call EXCEPT !.first = call.found]
             n == Number[call.found[1].hash]
  <1>3. /\ IsCall(c) /\ c.method = "eth_getLogs" /\ c.astray = call.astray
        /\ c.first = call.found /\ c.params = call.params
    BY <1>1 DEF IsCall, CallFields
  <1> HIDE DEF c
  <1>4. call.found # <<>> => CallInv(FindByNumber(c, n, TRUE))
    <2> SUFFICES ASSUME call.found # <<>> PROVE CallInv(FindByNumber(c, n, TRUE))
      OBVIOUS
    <2>1. c.method \in BlockMethods
      BY <1>3 DEF BlockMethods
    <2>2. ASSUME ~ c.astray
          PROVE  SeeksNumber(c) /\ n = NumberAsked(c) /\ n \in Nat /\ Named(c) \in Headers
      <3>1. FoundInv(call) /\ SeeksHash(call)
        BY <1>1, <1>3, <2>2 DEF SeeksHash
      <3>2. call.found[1].hash = Named(call) /\ Named(call) \in Headers
        BY <3>1 DEF FoundInv, SearchInv
      <3>3. Named(c) = Named(call)
        BY <1>3 DEF Named
      <3>4. n \in Nat
        BY <3>2, AccumulatorAssumption
      <3> QED  BY <1>3, <3>2, <3>3, <3>4 DEF SeeksNumber, NumberAsked
    <2> HIDE DEF n
    <2> QED  BY <1>3, <2>1, <2>2, FindByNumberInv
  <1>5. \/ FirstFound(call) \in {Fails(call, "raw"), Fails(call, "internal")}
        \/ (call.found # <<>> /\ FirstFound(call) = FindByNumber(c, n, TRUE))
    BY DEF FirstFound, c
  <1> QED  BY <1>2, <1>4, <1>5

LEMMA ResumeInv ==
  ASSUME Number[Genesis] = 0, acc = Empty \/ IsChain(acc), CallInv(call), Resume
  PROVE  CallInv(call')
  <1>1. /\ call.pc = "returned" /\ IsCall(call) /\ call.method \in BlockMethods
        /\ ~ call.astray /\ call.found # <<>> => FoundInv(call)
        /\ ~ call.astray /\ call.found = <<>> /\ call.method \in NumberMethods => Excused(call)
    BY DEF Resume, CallInv, StraightInv
  <1>2. CASE call.found = <<>> /\ (call.method = "eth_getLogs" => call.first # <<>>)
    <2>1. \E answer \in {"not found", "invalid", "raw", "internal"} : call' = Fails(call, answer)
      BY <1>1, <1>2 DEF Resume, BlockMethods, HashMethods, NumberMethods
    <2>2. \A answer \in {"not found", "invalid", "raw", "internal"} : CallInv(Fails(call, answer))
      BY <1>1, <1>2, FailsInv
    <2> QED  BY <2>1, <2>2
  <1>3. CASE call.method = "eth_getLogs" /\ call.first = <<>>
    <2>1. call' = FirstFound(call)
      BY <1>3 DEF Resume
    <2> QED  BY <1>1, <1>3, <2>1, FirstFoundInv
  <1>4. CASE call.method = "eth_getLogs" /\ call.first # <<>> /\ call.found # <<>>
    <2>1. call' = [call EXCEPT !.pc = "receipts"]
      BY <1>4 DEF Resume
    <2> DEFINE d == [call EXCEPT !.pc = "receipts"]
    <2>2. SameSearch(call, d) /\ d.pc = "receipts" /\ d.found = call.found
      BY <1>1 DEF IsCall, CallFields, SameSearch, SameCall
    <2>3. call' = d
      BY <2>1
    <2> HIDE DEF d
    <2>4. /\ IsCall(d) /\ d.method = call.method /\ d.first = call.first /\ d.gap = call.gap
          /\ d.astray = call.astray /\ d.seeks = call.seeks
      BY <2>2 DEF SameSearch, SameCall
    <2>5. FoundInv(call) => FoundInv(d)
      BY <2>2, <2>4, SameSearchKeeps DEF FoundInv
    <2>6. CallInv(d)
      BY <1>1, <1>4, <2>2, <2>4, <2>5 DEF CallInv, StraightInv
    <2> QED  BY <2>3, <2>6
  <1>5. CASE call.found # <<>> /\ call.method # "eth_getLogs"
    <2> DEFINE b == call.found[1]
    <2>1. PICK answer, value :
             /\ call' = Answer(call, answer, value)
             /\ call.method \in {"eth_getBlockByHash", "eth_getBlockByNumber"} =>
                  answer = "block" /\ value = {b.hash}
             /\ call.method = "eth_getBlockTransactionCountByHash" =>
                  answer = "number" /\ value = {Count(TxCount, b)}
             /\ call.method = "eth_getUncleCountByBlockNumber" =>
                  answer = "number" /\ value = {Count(UncleCount, b)}
      <3>1. CASE call.method \in {"eth_getBlockByHash", "eth_getBlockByNumber"}
        <4>1. call' = Answer(call, "block", {b.hash})
          BY <1>5, <3>1 DEF Resume
        <4> HIDE DEF b
        <4> QED  BY <3>1, <4>1
      <3>2. CASE call.method = "eth_getBlockTransactionCountByHash"
        <4>1. call' = Answer(call, "number", {Count(TxCount, b)})
          BY <1>5, <3>2 DEF Resume
        <4> HIDE DEF b
        <4> QED  BY <3>2, <4>1
      <3>3. CASE call.method = "eth_getUncleCountByBlockNumber"
        <4>1. call' = Answer(call, "number", {Count(UncleCount, b)})
          BY <1>5, <3>3 DEF Resume
        <4> HIDE DEF b
        <4> QED  BY <3>3, <4>1
      <3> QED  BY <1>1, <1>5, <3>1, <3>2, <3>3 DEF BlockMethods, HashMethods, NumberMethods
    <2> DEFINE d == Answer(call, answer, value)
    <2>2. SameSearch(call, d) /\ d.pc = "answered" /\ d.answer = answer /\ d.value = value
      BY <1>1, AnswerFields
    <2>3. call' = d
      BY <2>1
    <2> HIDE DEF d
    <2>4. /\ IsCall(d) /\ d.method = call.method /\ d.astray = call.astray /\ d.gap = call.gap
          /\ d.consulted = call.consulted /\ d.params = call.params
      BY <2>2 DEF SameSearch, SameCall
    <2>5. Named(d) = Named(call)
      BY <2>4 DEF Named
    <2>6. ASSUME ~ d.astray PROVE AnswerInv(d)
      <3>1. SearchInv(call) /\ b.hash = call.seeks
            /\ (b.body = <<call.seeks>> \/ (call.gap /\ b.body = <<>>))
        BY <1>1, <1>5, <2>4, <2>6 DEF FoundInv
      <3> HIDE DEF b
      <3>2. ASSUME NEW counts, value = {Count(counts, b)} PROVE CountInv(d, counts, call.seeks)
        <4>1. \/ Count(counts, b) = counts[call.seeks]
              \/ (call.gap /\ Count(counts, b) = 0)
          BY <3>1 DEF Count
        <4> QED  BY <2>2, <2>4, <3>2, <4>1 DEF CountInv
      <3>3. CASE call.method \in HashMethods
        <4>1. call.seeks = Named(d)
          BY <2>5, <3>1, <3>3 DEF SearchInv, SeeksHash
        <4>2. call.method = "eth_getBlockByHash" => d.value = {Named(d)}
          BY <2>1, <2>2, <3>1, <4>1
        <4>3. call.method = "eth_getBlockTransactionCountByHash" => CountInv(d, TxCount, Named(d))
          BY <2>1, <3>2, <4>1
        <4> QED  BY <2>4, <3>3, <4>2, <4>3 DEF AnswerInv, HashMethods
      <3>4. CASE call.method \in NumberMethods
        <4>1. Number[call.seeks] = Named(d) /\ call.seeks \in HashesOf(d.consulted)
          BY <2>4, <2>5, <3>1, <3>4 DEF SearchInv, SeeksNumber, NumberAsked, NumberMethods
        <4>2. call.method = "eth_getBlockByNumber" => d.value = {call.seeks} /\ d.answer = "block"
          BY <2>1, <2>2, <3>1
        <4>3. call.method = "eth_getUncleCountByBlockNumber" =>
                CountInv(d, UncleCount, call.seeks) /\ d.answer = "number"
          BY <2>1, <2>2, <3>2
        <4> QED  BY <2>4, <3>4, <4>1, <4>2, <4>3 DEF AnswerInv, NumberMethods
      <3> QED  BY <1>1, <1>5, <3>3, <3>4 DEF BlockMethods
    <2>7. CallInv(d)
      BY <2>2, <2>4, <2>6 DEF CallInv, StraightInv
    <2> QED  BY <2>3, <2>7
  <1> QED  BY <1>1, <1>2, <1>3, <1>4, <1>5

----------------------------------------------------------------------------
(* The invariant of the server: that of the store, and of the call.        *)

RpcInv == HistoryInv /\ CallInv(call)

LEMMA InitRpc == RpcInit => RpcInv
  <1> SUFFICES ASSUME RpcInit PROVE RpcInv
    OBVIOUS
  <1>1. HistoryInv
    BY InitHistory DEF RpcInit
  <1>2. call = NoCall
    BY DEF RpcInit
  <1>3. IsCall(NoCall) /\ NoCall.pc = "idle"
    BY DEF NoCall, IsCall, CallFields
  <1>4. CallInv(call)
    BY <1>2, <1>3 DEF CallInv, StraightInv
  <1> QED  BY <1>1, <1>4 DEF RpcInv

LEMMA ContentReceived ==
  ASSUME HistoryInv, NEW r \in Requests, ReceiveContent(r)
  PROVE  HistoryInv' /\ CallInv(call')
  <1> DEFINE k == Param(r[2], 1).means
             h == Param(r[2], 2).means
             passes == Middleware(r[1], r[2]) = "passes"
  <1>1. CallInv(call')
    <2>1. \E answer \in {"invalid", "lost", "text"} : call' = Fails(NewCall(r), answer)
      BY DEF ReceiveContent
    <2>2. IsCall(NewCall(r)) /\ NewCall(r).method \notin NumberMethods
      BY NewCallFields DEF ReceiveContent, Adding, NumberMethods
    <2> QED  BY <2>1, <2>2, FailsInv
  <1>2. passes => k \in Headers
    <2>1. r[1] \in Adding
      BY DEF ReceiveContent
    <2>2. passes => PortalValid(r[1], r[2])
      BY <2>1 DEF Middleware, Adding, EthMethods
    <2>3. passes => BlockHash(Param(r[2], 1))
      BY <2>1, <2>2 DEF PortalValid, Adding
    <2> QED  BY <2>3, RequestsAssumption
  <1>3. \/ (passes /\ k = h /\ AddHeader(k, h))
        \/ Crash
        \/ UNCHANGED vars
    BY DEF ReceiveContent
  <1> HIDE DEF k, h, passes
  <1>4. CASE passes /\ k = h /\ AddHeader(k, h)
    BY <1>1, <1>2, <1>4, AddHeaderHistory
  <1>5. CASE Crash
    BY <1>1, <1>5, CrashHistory
  <1>6. CASE UNCHANGED vars
    BY <1>1, <1>6, HistoryStep
  <1> QED  BY <1>3, <1>4, <1>5, <1>6

LEMMA RpcStep == Number[Genesis] = 0 /\ RpcInv /\ [RpcNext]_rpcVars => RpcInv'
  <1> SUFFICES ASSUME Number[Genesis] = 0, RpcInv, [RpcNext]_rpcVars
               PROVE  HistoryInv' /\ CallInv(call')
    BY DEF RpcInv, CallInv, IsCall, StraightInv
  <1>1. HistoryInv /\ CallInv(call) /\ (acc = Empty \/ IsChain(acc))
    BY DEF RpcInv, HistoryInv, AccumulatorIsChain
  <1>2. UNCHANGED vars => HistoryInv'
    BY <1>1, HistoryStep
  <1>3. ASSUME NEW r \in Requests, Receive(r) PROVE HistoryInv' /\ CallInv(call')
    BY <1>1, <1>2, <1>3, HandledInv DEF Receive
  <1>4. ASSUME NEW r \in Requests, ReceiveContent(r) PROVE HistoryInv' /\ CallInv(call')
    BY <1>1, <1>4, ContentReceived
  <1>5. CASE NetworkAnswers
    <2>1. call.method \in BlockMethods \/ call.method \notin BlockMethods
      OBVIOUS
    <2>2. IsCall(call) /\ call' = Fails(call, "text")
      BY <1>1, <1>5 DEF NetworkAnswers, CallInv
    <2>3. CallInv(Fails(call, "text"))
      BY <2>2, FailsInv
    <2> QED  BY <1>2, <1>5, <2>2, <2>3 DEF NetworkAnswers
  <1>6. CASE Resume
    BY <1>1, <1>2, <1>6, ResumeInv DEF Resume
  <1>7. CASE EpochLookedUp
    BY <1>1, <1>2, <1>7, EpochInv DEF EpochLookedUp
  <1>8. CASE HeaderLookedUp
    BY <1>1, <1>2, <1>8, HeaderInv DEF HeaderLookedUp
  <1>9. CASE BodyLookedUp
    BY <1>1, <1>2, <1>9, BodyInv DEF BodyLookedUp
  <1>10. CASE ReadReceipts
    BY <1>1, <1>2, <1>10, ReceiptsInv DEF ReadReceipts
  <1>11. CASE StoreStep
    <2>1. HistoryInv'
      BY <1>1, <1>11, HistoryStep DEF StoreStep
    <2> QED  BY <1>1, <1>11, <2>1 DEF StoreStep
  <1>12. CASE UNCHANGED rpcVars
    BY <1>1, <1>2, <1>12 DEF rpcVars
  <1> QED
    BY <1>3, <1>4, <1>5, <1>6, <1>7, <1>8, <1>9, <1>10, <1>11, <1>12 DEF RpcNext, CallStep

LEMMA RpcInvariant == ASSUME Number[Genesis] = 0 PROVE RpcSpec => []RpcInv
  <1>1. RpcInv /\ [RpcNext]_rpcVars => RpcInv'
    BY RpcStep
  <1> QED  BY <1>1, InitRpc, PTL DEF RpcSpec

\* When the genesis has number 0, a block, a count or logs are answered of the
\* block asked for, whatever calls are made, whatever lookups give and however
\* headers, snapshots and crashes change the accumulator meanwhile.
THEOREM AnswerIsOfBlockAlways ==
  ASSUME Number[Genesis] = 0 PROVE RpcSpec => []AnswerIsOfBlock
  <1>1. RpcInv => AnswerIsOfBlock
    <2> SUFFICES ASSUME CallInv(call), ~ call.astray PROVE AnswerIsOfBlock
      BY DEF RpcInv, AnswerIsOfBlock
    <2>1. call.pc = "answered" => AnswerInv(call)
      BY DEF CallInv, StraightInv
    <2>2. Named(call) = IF call.method = "eth_getLogs" THEN FilterField("blockHash").means ELSE P(1).means
      BY DEF Named, FilterField, P
    <2>3. Answered("eth_getBlockByHash", "block") => call.value = {P(1).means}
      BY <2>1, <2>2 DEF Answered, AnswerInv
    <2>4. Answered("eth_getBlockByNumber", "block") =>
            \A h \in call.value : Number[h] = P(1).means /\ OnChain(h, call.consulted)
      BY <2>1, <2>2 DEF Answered, AnswerInv, OnChain
    <2>5. Answered("eth_getBlockTransactionCountByHash", "number") =>
            call.value = {TxCount[P(1).means]} \/ (call.gap /\ call.value = {0})
      BY <2>1, <2>2 DEF Answered, AnswerInv, CountInv
    <2>6. Answered("eth_getUncleCountByBlockNumber", "number") =>
            \/ call.gap /\ call.value = {0}
            \/ \E h \in HashesOf(call.consulted) :
                 Number[h] = P(1).means /\ call.value = {UncleCount[h]}
      BY <2>1, <2>2 DEF Answered, AnswerInv, CountInv
    <2>7. Answered("eth_getLogs", "logs") =>
            LET k == FilterField("blockHash").means
                h == call.found[1].hash IN
            /\ Number[h] = Number[k] /\ call.value \subseteq Logs[h]
            /\ OnChain(k, call.consulted) => h = k
      BY <2>1, <2>2 DEF Answered, AnswerInv, LogsInv, OnChain
    <2> QED  BY <2>3, <2>4, <2>5, <2>6, <2>7 DEF AnswerIsOfBlock
  <1> QED  BY <1>1, RpcInvariant, PTL

\* A number is refused for the reasons NotFoundHasReason names and no other.
THEOREM NotFoundHasReasonAlways ==
  ASSUME Number[Genesis] = 0 PROVE RpcSpec => []NotFoundHasReason
  <1>1. RpcInv => NotFoundHasReason
    <2> SUFFICES ASSUME CallInv(call) PROVE NotFoundHasReason
      BY DEF RpcInv
    <2>1. call.pc = "answered" /\ ~ call.astray => AnswerInv(call)
      BY DEF CallInv, StraightInv
    <2>2. \/ Answered("eth_getBlockByNumber", "not found")
          \/ Answered("eth_getUncleCountByBlockNumber", "raw")
          => call.astray \/ (Excused(call) /\ Named(call) = P(1).means)
      BY <2>1 DEF Answered, AnswerInv, Named, P
    <2> QED  BY <2>2 DEF NotFoundHasReason, Excused, P
  <1> QED  BY <1>1, RpcInvariant, PTL
=============================================================================
