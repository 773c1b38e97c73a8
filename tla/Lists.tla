------------------------------- MODULE Lists -------------------------------
(***************************************************************************)
(* What is done to the sequences of this project besides the operators of  *)
(* Sequences and Functions.                                                *)
(***************************************************************************)
EXTENDS Integers, Sequences, Functions

\* s without its i-th element.
Without(s, i) == [j \in 1 .. Len(s) - 1 |-> IF j < i THEN s[j] ELSE s[j+1]]
=============================================================================
