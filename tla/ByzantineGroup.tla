---------------------------- MODULE ByzantineGroup ----------------------------
(* A Byzantine group (BG) of RCanopus: N super-leaves (SLs), of which SL 0 is *)
(* the leader.  There is no view change.                                      *)
EXTENDS Integers

CONSTANT N    \* number of SLs in the group

ASSUME NAssumption == N \in Nat \ {0}

SL == 0..(N - 1)
Leader == 0

==============================================================================
