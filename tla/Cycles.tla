-------------------------------- MODULE Cycles --------------------------------
(***************************************************************************)
(* What a cycle of RCanopus promises, whichever of the three versions of   *)
(* Round 3 is built: a group produces at most one result for a cycle, its  *)
(* SLs learn the results of the other groups, and an SL finishes a cycle   *)
(* once, holding the result of every group.  No messages, no stages.       *)
(***************************************************************************)
EXTENDS Integers

CONSTANTS
    BG,       \* the Byzantine groups
    NumSL,    \* number of SLs in a group
    MaxCycle  \* bound: the last cycle

Node == BG \X (0..(NumSL - 1))
Cycle == 1..MaxCycle
Result == BG \X Cycle

VARIABLES
    produced,  \* the results the groups have proposed
    held,      \* held[n]: the results SL n has applied
    finished   \* finished[n]: the cycles SL n has put into its storage

vars == <<produced, held, finished>>

Init ==
    /\ produced = {}
    /\ held = [n \in Node |-> {}]
    /\ finished = [n \in Node |-> {}]

(* A group may or may not propose its next result. *)
Produce(b) ==
    \E c \in Cycle :
        /\ <<b, c>> \notin produced
        /\ \A d \in 1..(c - 1) : <<b, d>> \in produced
        /\ produced' = produced \union {<<b, c>>}

Learn(n) ==
    \E r \in produced \ held[n] : held' = [held EXCEPT ![n] = @ \union {r}]

Finish(n) ==
    \E c \in Cycle \ finished[n] :
        /\ BG \X {c} \subseteq held'[n]
        /\ finished' = [finished EXCEPT ![n] = @ \union {c}]

(* One handler may apply a result, finish the cycle with it, and start the *)
(* next instance with a new result of its own group.                       *)
Next ==
    \E n \in Node :
        /\ UNCHANGED held \/ Learn(n)
        /\ UNCHANGED finished \/ Finish(n)
        /\ UNCHANGED produced \/ Produce(n[1])

Spec == Init /\ [][Next]_vars

==============================================================================
