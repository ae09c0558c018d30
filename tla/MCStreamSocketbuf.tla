------------------------- MODULE MCStreamSocketbuf -------------------------
(* Instances of StreamSocketbuf: areas of two bytes, so that a partial send *)
(* leaves something over and a refill can bring more than one byte.         *)
EXTENDS StreamSocketbuf
=============================================================================
