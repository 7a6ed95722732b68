------------------------------- MODULE GroupLog -------------------------------
(***************************************************************************)
(* A Byzantine group as the other groups see it: a log that its SLs apply  *)
(* in order.  The leader extends the log when it has applied all of it; an *)
(* SL applies the next entry only when nobody in the group is behind it.   *)
(* The votes of BGLog are gone: BGLog implements this module, and every    *)
(* group of Round3 is an instance of it.                                   *)
(***************************************************************************)
EXTENDS ByzantineGroup, Sequences

CONSTANT Entry    \* what the log is made of

VARIABLES
    log,       \* the entries the leader sent out
    delivered  \* delivered[n]: how many entries SL n applied

vars == <<log, delivered>>

Init ==
    /\ log = <<>>
    /\ delivered = [n \in SL |-> 0]

Deliver(n) ==
    /\ delivered[n] < Len(log)
    /\ \A m \in SL : delivered[m] >= delivered[n]
    /\ delivered' = [delivered EXCEPT ![n] = @ + 1]

Extend ==
    /\ delivered'[Leader] = Len(log)
    /\ \E e \in Entry : log' = Append(log, e)

Next ==
    \/ Extend /\ UNCHANGED delivered
    \/ \E n \in SL : Deliver(n) /\ (UNCHANGED log \/ (n = Leader /\ Extend))

Spec == Init /\ [][Next]_vars

==============================================================================
