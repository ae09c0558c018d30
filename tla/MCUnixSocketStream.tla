------------------------- MODULE MCUnixSocketStream -------------------------
(* An instance of UnixSocketStream: a third descriptor is there for the    *)
(* other threads to take.                                                  *)
EXTENDS UnixSocketStream, TLC

Symmetry == Permutations(Fd)
=============================================================================
