----------------------------- MODULE LossyStream -----------------------------
(***************************************************************************)
(* What the video link promises to the program behind it: items (blocks)   *)
(* may get lost, but what is delivered was sent, and it is delivered once  *)
(* and in the order of sending, whatever the adapters received twice, late *)
(* or not at all.  A receiver that takes very old items for a new stream   *)
(* may start over, which it reports; the order then begins anew.           *)
(***************************************************************************)
EXTENDS Naturals, Sequences

VARIABLES
    sent,       \* number of items sent; they are numbered from 1 on
    delivered   \* the numbers of the items delivered since it started over

Init == sent = 0 /\ delivered = <<>>

Send == sent' = sent + 1 /\ UNCHANGED delivered

\* An item that is newer than all the others.
Newer(n) == \A i \in 1 .. Len(delivered) : delivered[i] < n

Deliver(n) ==
    /\ Newer(n)
    /\ delivered' = Append(delivered, n)
    /\ UNCHANGED sent

StartOver == delivered' = <<>> /\ UNCHANGED sent

Next == Send \/ (\E n \in 1 .. sent : Deliver(n)) \/ StartOver

Spec == Init /\ [][Next]_<<sent, delivered>>
=============================================================================
