----------------------------- MODULE MCTransport -----------------------------
(* Model of Transport for TLC: what the SLs send.                             *)
EXTENDS Transport

TwoToAll == [n \in Node |-> IF n < 2 THEN <<Node>> ELSE <<>>]
ToLeader == [n \in Node |-> IF n = 0 THEN <<>> ELSE <<{0}>>]
==============================================================================
