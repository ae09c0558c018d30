----------------------------- MODULE MCSkPing -----------------------------
(* Instances of SkPing: a reply is longer than a request, as it is in the  *)
(* source, so that one can need more than one datagram; the put area holds *)
(* all that is written, as 32768 bytes do for 585 requests.                *)
EXTENDS SkPing
=============================================================================
