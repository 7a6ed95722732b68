--------------------------- MODULE MCRound3Baseline ---------------------------
(* Model of Round3Baseline for TLC: how many batches the clients have.        *)
EXTENDS Round3Baseline

CONSTANTS b0, b1

TwoAndOne == [b \in BG |-> IF b = b0 THEN 2 ELSE 1]
==============================================================================
