------------------------- MODULE HeaderAccumulator -------------------------
(***************************************************************************)
(* The header accumulator of the history network: a record of the hash and *)
(* total difficulty of every header of the chain, the newest EpochSize of  *)
(* them one by one, the older ones in sealed epochs known by their hash.   *)
(*                                                                         *)
(* A header is its hash, a sealed epoch is the sequence of its records.    *)
(***************************************************************************)
EXTENDS Integers, Sequences

CONSTANTS
  EpochSize,    \* EPOCH_SIZE, 8192
  Headers,      \* headers that reach the node, on the chain or not
  Genesis,      \* the header every accumulator begins with
  Number,       \* Number[h], Parent[h], Difficulty[h]: fields of header h,
  Parent,       \* true to each other or not
  Difficulty

ASSUME AccumulatorAssumption ==
  /\ EpochSize \in Nat \ {0}
  /\ Genesis \in Headers
  /\ Number \in [Headers -> Nat] /\ Difficulty \in [Headers -> Nat]

Record      == [hash : Headers, td : Nat]
Accumulator == [epochs : Seq(Seq(Record)), current : Seq(Record)]

\* new HeaderAccumulator({}): what a node has until it has read its own.
Empty == [epochs |-> <<>>, current |-> <<>>]

Last(acc) == acc.current[Len(acc.current)]

LastTd(acc) == IF acc.current = <<>> THEN 0 ELSE Last(acc).td

IsFull(acc) == Len(acc.current) = EpochSize

NewRecord(h, td) == [hash |-> h, td |-> td + Difficulty[h]]

\* A slip of Update: the total difficulty is read after the epoch was reset.
UpdateAfterReset(acc, h) ==
  IF IsFull(acc)
  THEN [epochs |-> Append(acc.epochs, acc.current), current |-> <<NewRecord(h, 0)>>]
  ELSE [acc EXCEPT !.current = Append(@, NewRecord(h, LastTd(acc)))]

\* A slip of Update: the header an epoch is sealed for is left out.
UpdateSealing(acc, h) ==
  IF IsFull(acc)
  THEN [epochs |-> Append(acc.epochs, acc.current), current |-> <<>>]
  ELSE [acc EXCEPT !.current = Append(@, NewRecord(h, LastTd(acc)))]

\* updateAccumulator: a full epoch is sealed by the header after it.
Update(acc, h) ==
  LET record == NewRecord(h, LastTd(acc)) IN
  IF IsFull(acc)
  THEN [epochs |-> Append(acc.epochs, acc.current), current |-> <<record>>]
  ELSE [acc EXCEPT !.current = Append(@, record)]

GenesisAccumulator == Update(Empty, Genesis)

Height(acc) == Len(acc.epochs) * EpochSize + Len(acc.current) - 1

\* The index of number n in its epoch, and of its epoch if it is sealed.
BlockIndex(n) == (n % EpochSize) + 1

\* A slip of EpochIndex: rounded up.
EpochIndexUp(n) == ((n + EpochSize - 1) \div EpochSize) + 1

EpochIndex(n) == (n \div EpochSize) + 1

\* The hash getBlockByNumber looks for, <<>> if it gives up.  The code compares
\* with 8192 where EPOCH_SIZE is meant; the two are equal.
HashOfNumber(acc, n) ==
  IF n > Height(acc) THEN <<>>
  ELSE IF n > EpochSize * Len(acc.epochs)
  THEN <<acc.current[BlockIndex(n)].hash>>
  ELSE IF EpochIndex(n) <= Len(acc.epochs)
  THEN <<acc.epochs[EpochIndex(n)][BlockIndex(n)].hash>>
  ELSE <<>>

----------------------------------------------------------------------------
(* What an accumulator should be.                                          *)

\* The epochs with the current one as the last.
EpochCount(acc) == Len(acc.epochs) + 1

Epoch(acc, e) == IF e <= Len(acc.epochs) THEN acc.epochs[e] ELSE acc.current

WellFormed(acc) ==
  /\ acc \in Accumulator
  /\ \A i \in 1..Len(acc.epochs) : Len(acc.epochs[i]) = EpochSize
  /\ Len(acc.current) \in 1..EpochSize

\* Record `next' continues the chain after record r at number n.
Continues(r, next, n) ==
  /\ Number[next.hash] = n
  /\ Parent[next.hash] = r.hash
  /\ next.td = r.td + Difficulty[next.hash]

BeginsAtGenesis(acc) == Epoch(acc, 1)[1] = NewRecord(Genesis, 0)

LinkedInEpochs(acc) ==
  \A e \in 1..EpochCount(acc) : \A i \in 2..Len(Epoch(acc, e)) :
    Continues(Epoch(acc, e)[i - 1], Epoch(acc, e)[i], (e - 1) * EpochSize + i - 1)

LinkedAcrossEpochs(acc) ==
  \A e \in 1..Len(acc.epochs) :
    Continues(Epoch(acc, e)[EpochSize], Epoch(acc, e + 1)[1], e * EpochSize)

\* One chain from the genesis to the newest header, through all epochs.
IsChain(acc) ==
  /\ WellFormed(acc) /\ BeginsAtGenesis(acc)
  /\ LinkedInEpochs(acc) /\ LinkedAcrossEpochs(acc)

Hashes(records) == {records[i].hash : i \in 1..Len(records)}

HashesOf(acc) == UNION {Hashes(Epoch(acc, e)) : e \in 1..EpochCount(acc)}
=============================================================================
