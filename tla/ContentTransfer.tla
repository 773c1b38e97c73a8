-------------------------- MODULE ContentTransfer --------------------------
(***************************************************************************)
(* What a uTP stream promises about the content it carries, whichever end  *)
(* opened it.  The promise depends on what the network did: a content is   *)
(* handed on once, and again at most once for every packet that arrived    *)
(* twice; it is whole if no packet was lost or overtaken, and the content  *)
(* with some chunks left out if no packet arrived twice.                   *)
(***************************************************************************)
EXTENDS Integers, Sequences

CONSTANTS N, MaxLost, MaxDups, MaxOvertaken

VARIABLES delivered, lost, dups, overtaken

vars == <<delivered, lost, dups, overtaken>>

Covers(d)  == \A c \in 1..N : \E k \in DOMAIN d : d[k] = c
Ordered(d) == \A j, k \in DOMAIN d : j < k => d[j] < d[k]

Init == delivered = <<>> /\ lost = 0 /\ dups = 0 /\ overtaken = 0

\* The network may lose, double or let one packet overtake others.
Disturb ==
  /\ lost' \in {lost, lost + 1} /\ lost' <= MaxLost
  /\ dups' \in {dups, dups + 1} /\ dups' <= MaxDups
  /\ overtaken' \in {overtaken, overtaken + 1} /\ overtaken' <= MaxOvertaken

\* The reader hands on d.
HandOn(d) ==
  /\ Len(delivered) <= dups'
  /\ \A k \in DOMAIN d : d[k] \in 1..N
  /\ dups' = 0 => Ordered(d)
  /\ lost' = 0 /\ dups' = 0 /\ overtaken' = 0 => Covers(d)
  /\ delivered' = Append(delivered, d)

Next ==
  /\ Disturb
  /\ \/ UNCHANGED delivered
     \/ /\ Len(delivered') = Len(delivered) + 1
        /\ HandOn(delivered'[Len(delivered')])

Spec == Init /\ [][Next]_vars
=============================================================================
