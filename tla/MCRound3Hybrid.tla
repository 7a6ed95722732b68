---------------------------- MODULE MCRound3Hybrid ----------------------------
(* Model of Round3Hybrid for TLC: how many batches the clients have.          *)
EXTENDS Round3Hybrid

CONSTANTS b0, b1

TwoAndOne == [b \in BG |-> IF b = b0 THEN 2 ELSE 1]
==============================================================================
