------------------------------ MODULE MCSkPoll ------------------------------
(* An instance of SkPoll: two objects and two descriptors, so that a number *)
(* one object has given up comes back in the other.                         *)
EXTENDS SkPoll, TLC

Symmetry == Permutations(Obj) \cup Permutations(Event)
=============================================================================
