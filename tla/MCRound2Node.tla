----------------------------- MODULE MCRound2Node -----------------------------
(* Model of Round2Node for TLC.                                               *)
EXTENDS Round2Node
==============================================================================
