----------------------------- MODULE UtpNetwork -----------------------------
(***************************************************************************)
(* What carries uTP packets between the two ends of a stream.  A packet is *)
(* the payload of a discv5 TALKREQ over UDP that nobody waits for and      *)
(* nobody repeats on behalf of uTP: it can be lost, it can be overtaken,   *)
(* and discv5 sends a request again when its response is late, so that it  *)
(* can arrive twice.  Each of the three happens a bounded number of times; *)
(* with all three bounds 0 the packets arrive once each, in order.         *)
(***************************************************************************)
EXTENDS UtpSocket, Lists

CONSTANTS
  MaxLost,        \* packets the network may lose
  MaxDups,        \* packets it may deliver once more than they were sent
  MaxOvertaken    \* deliveries of a packet while an older one is in flight

ASSUME NetworkAssumption ==
  MaxLost \in Nat /\ MaxDups \in Nat /\ MaxOvertaken \in Nat

VARIABLES
  chan,           \* chan[r]: the packets on their way to role r, oldest first
  lost, dups, overtaken

net == <<chan, lost, dups, overtaken>>

Roles == {"writer", "reader"}
Other(r) == IF r = "writer" THEN "reader" ELSE "writer"

NetTypeOK ==
  /\ chan \in [Roles -> Seq(Packet)]
  /\ lost \in 0..MaxLost
  /\ dups \in 0..MaxDups
  /\ overtaken \in 0..MaxOvertaken

NetInit ==
  /\ chan = [r \in Roles |-> <<>>]
  /\ lost = 0 /\ dups = 0 /\ overtaken = 0

InFlight(r) == Range(chan[r])

\* Role r sends the packets of `out', in their order.
Send(r, out) ==
  /\ chan' = [chan EXCEPT ![Other(r)] = @ \o out]
  /\ UNCHANGED <<lost, dups, overtaken>>

\* Role r receives the i-th packet on its way to it and sends `out'.
Deliver(r, i, keep, out) ==
  /\ i > 1 => overtaken < MaxOvertaken
  /\ keep => dups < MaxDups
  /\ overtaken' = IF i > 1 THEN overtaken + 1 ELSE overtaken
  /\ dups' = IF keep THEN dups + 1 ELSE dups
  /\ chan' = [chan EXCEPT ![r] = IF keep THEN @ ELSE Without(@, i),
                          ![Other(r)] = @ \o out]
  /\ UNCHANGED lost

Lose(r) ==
  \E i \in 1 .. Len(chan[r]) :
    /\ lost < MaxLost
    /\ lost' = lost + 1
    /\ chan' = [chan EXCEPT ![r] = Without(@, i)]
    /\ UNCHANGED <<dups, overtaken>>
=============================================================================
