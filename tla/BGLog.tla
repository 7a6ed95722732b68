-------------------------------- MODULE BGLog --------------------------------
(***************************************************************************)
(* What the second round of RCanopus promises to the third: the super-     *)
(* leaves (SLs) of one Byzantine group (BG) agree on a log.  The leader,   *)
(* SL 0, adds an entry only when it has delivered the whole log, an SL     *)
(* votes for an entry only after it delivered all entries before it, and   *)
(* an SL delivers an entry only after every SL voted for it.               *)
(* No messages and no queues: Round2 implements this module.               *)
(***************************************************************************)
EXTENDS ByzantineGroup, Sequences

CONSTANTS
    Entry,    \* what the leader may put in the log
    MaxSeq    \* bound: the log stops growing at this length

VARIABLES
    log,       \* the entries the leader sent a Preprepare for
    voted,     \* voted[n]: how many entries SL n sent a PartialCommit for
    delivered  \* delivered[n]: how many entries SL n applied on a FullCommit

vars == <<log, voted, delivered>>

TypeOK ==
    /\ log \in Seq(Entry)
    /\ voted \in [SL -> 0..Len(log)]
    /\ delivered \in [SL -> 0..Len(log)]

Init ==
    /\ log = <<>>
    /\ voted = [n \in SL |-> 0]
    /\ delivered = [n \in SL |-> 0]

Extend(e) ==
    /\ Len(log) < MaxSeq
    /\ log' = Append(log, e)

(* The leader has nothing in flight and work arrives. *)
Propose(e) ==
    /\ delivered[Leader] = Len(log)
    /\ Extend(e)
    /\ UNCHANGED <<voted, delivered>>

Vote(n) ==
    /\ delivered[n] = voted[n]
    /\ voted[n] < Len(log)
    /\ voted' = [voted EXCEPT ![n] = @ + 1]
    /\ UNCHANGED <<log, delivered>>

Certified(n) ==
    /\ delivered[n] < voted[n]
    /\ \A m \in SL : voted[m] > delivered[n]
    /\ delivered' = [delivered EXCEPT ![n] = @ + 1]
    /\ UNCHANGED voted

Deliver(n) == Certified(n) /\ UNCHANGED log

(* The leader starts the next instance in the step that ends the last one. *)
DeliverAndPropose(e) ==
    /\ delivered[Leader] + 1 = Len(log)
    /\ Certified(Leader)
    /\ Extend(e)

Next ==
    \/ \E e \in Entry : Propose(e) \/ DeliverAndPropose(e)
    \/ \E n \in SL : Vote(n) \/ Deliver(n)

Spec == Init /\ [][Next]_vars

(* Every SL keeps voting and delivering; nobody owes the log a next entry. *)
Fairness ==
    /\ \A n \in SL : WF_vars(Vote(n))
    /\ \A n \in SL : WF_vars(Deliver(n) \/ \E e \in Entry : n = Leader /\ DeliverAndPropose(e))

FairSpec == Spec /\ Fairness

-----------------------------------------------------------------------------
(* No SL is more than one entry behind another.  Round 3 depends on it: a   *)
(* membership request may reach any SL of the group, and the handler takes  *)
(* "cycle unknown" to mean "cycle finished", never "cycle not begun".       *)
LagAtMostOne ==
    \A m, n \in SL : delivered[m] <= delivered[n] + 1

(* At the end of the log at most two entries are undelivered by some SL:    *)
(* the open one and, at an SL that lags, the one before it.                 *)
TwoOpenEntries ==
    \A n \in SL : Len(log) <= delivered[n] + 2

(* Each entry the leader sends out is applied by every SL in the end.       *)
EveryEntryDelivered ==
    \A i \in 1..MaxSeq : Len(log) >= i ~> \A n \in SL : delivered[n] >= i

(* Without its votes the log is that of GroupLog, which Round3 builds on.   *)
Unvoted == INSTANCE GroupLog
ImplementsGroupLog == Unvoted!Spec

==============================================================================
