----------------------------- MODULE MCSkRelay -----------------------------
(* Instances of SkRelay: lines longer than the put area, and a get area     *)
(* that takes copy() two chunks to empty.                                   *)
EXTENDS SkRelay
=============================================================================
