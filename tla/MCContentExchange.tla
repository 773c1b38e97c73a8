-------------------------- MODULE MCContentExchange --------------------------
(* Instances of ContentExchange with digits below 2. *)
EXTENDS ContentExchange

CONSTANTS h, b, d, r, e

MCKind     == [k \in Keys |-> CASE k = h -> "header" [] k \in {b, d} -> "body" [] k = r -> "receipt" [] k = e -> "epoch"]
MCHeaderOf == [k \in Keys |-> h]
MCBytes    == [k \in Keys |-> CASE k = h -> <<1>> [] k = b -> <<0, 3>> [] k = d -> <<3>> [] k = r -> <<2, 0, 1>> [] k = e -> <<3, 3, 3, 3>>]
MCGarbage  == <<2>>
=============================================================================
