----------------------------- MODULE ByteChannel -----------------------------
(***************************************************************************)
(* What either direction of a buffered stream promises: the bytes that go  *)
(* in come out once each and in the order in which they went in, however   *)
(* they are grouped on the way.  The n-th byte to go in is the number n.   *)
(***************************************************************************)
EXTENDS Integers, Sequences

CONSTANT MaxInside  \* how many bytes can be under way after a step

VARIABLES
  accepted,   \* how many bytes have gone in
  inside,     \* the bytes under way, oldest first
  delivered   \* the bytes that have come out, in order

chan == <<accepted, inside, delivered>>

Init == accepted = 0 /\ inside = <<>> /\ delivered = <<>>

Accept == inside \o <<accepted + 1>>

(* Any number of the oldest bytes come out, after a byte has gone in or    *)
(* without one.                                                            *)
Move(queue) ==
  \E n \in 0 .. Len(queue) :
    /\ delivered' = delivered \o SubSeq(queue, 1, n)
    /\ inside' = SubSeq(queue, n + 1, Len(queue))
    /\ Len(inside') <= MaxInside

Next ==
  \/ accepted' = accepted + 1 /\ Move(Accept)
  \/ accepted' = accepted /\ Move(inside)

Spec == Init /\ [][Next]_chan
=============================================================================
