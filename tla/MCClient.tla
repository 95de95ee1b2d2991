------------------------------ MODULE MCClient ------------------------------
(* Instances of Client for TLC: three threads calling execute(). *)
EXTENDS Client

CONSTANTS c1, c2, c3
=============================================================================
