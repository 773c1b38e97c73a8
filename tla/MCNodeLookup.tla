---------------------------- MODULE MCNodeLookup ----------------------------
(* Instances of NodeLookup with ids of three bits. *)
EXTENDS NodeLookup

Bit(a, i) == (a \div 2^i) % 2

MCDistance(a, b) ==
  LET D(i) == IF Bit(a, i) = Bit(b, i) THEN 0 ELSE 2^i IN D(0) + D(1) + D(2)

MCLogDistance(a, b) ==
  LET d == MCDistance(a, b) IN IF d = 0 THEN 0 ELSE IF d = 1 THEN 1 ELSE IF d < 4 THEN 2 ELSE 3
=============================================================================
