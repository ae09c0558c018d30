------------------------------ MODULE MCSkCat ------------------------------
(* Instances of SkCat: two descriptors and two lists are one more of each  *)
(* than the client ever holds, so that losing one does not block it.       *)
EXTENDS SkCat
=============================================================================
