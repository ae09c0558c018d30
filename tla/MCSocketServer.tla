--------------------------- MODULE MCSocketServer ---------------------------
(* Instances of SocketServer.  Descriptors are interchangeable.             *)
EXTENDS SocketServer, TLC

Symmetry == Permutations(Fd)
=============================================================================
