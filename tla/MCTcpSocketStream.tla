------------------------- MODULE MCTcpSocketStream -------------------------
(* Small instances of TcpSocketStream.                                     *)
EXTENDS TcpSocketStream, TLC

(* Descriptors and heap blocks are interchangeable: no definition names    *)
(* one.  Sound for safety, which is all these instances check.             *)
Symmetry == Permutations(Fd) \cup Permutations(AddrList)
=============================================================================
