------------------------------- MODULE MCRound2 ------------------------------
(* Model of Round2 for TLC.                                                  *)
EXTENDS Round2
==============================================================================
