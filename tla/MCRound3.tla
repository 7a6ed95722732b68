------------------------------- MODULE MCRound3 -------------------------------
(* Model of Round3 for TLC: how many batches the clients of each group have.  *)
EXTENDS Round3

CONSTANTS b0, b1, b2

OneEach == [b \in BG |-> 1]
TwoAndOne == [b \in BG |-> IF b = b0 THEN 2 ELSE 1]
==============================================================================
