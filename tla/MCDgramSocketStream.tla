------------------------- MODULE MCDgramSocketStream -------------------------
(* Instances of DgramSocketStream: areas of two bytes, and datagrams that   *)
(* are empty, that fit and that do not.                                     *)
EXTENDS DgramSocketStream, TLC

Symmetry == Permutations(Peer)
=============================================================================
