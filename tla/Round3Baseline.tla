---------------------------- MODULE Round3Baseline ----------------------------
(***************************************************************************)
(* The third round as ConnManager_Baseline.cpp builds it, for comparison:  *)
(* every SL fetches for itself, as in the hybrid version, but the groups   *)
(* do not exchange connectivity and membership.  The global leader sends a *)
(* Preprepare to the leaders of all groups, a collector picked at random   *)
(* gathers their PartialCommits and sends the FullCommit that ends the     *)
(* cycle at the leaders; the other SLs end it before that, when their own  *)
(* group has agreed on its connectivity.                                   *)
(*                                                                         *)
(* What comes too early is juggled, and stays in net or in the log here.   *)
(* What finds its cycle unknown throws: the SL is in failed from then on.  *)
(***************************************************************************)
EXTENDS Integers, Sequences, FiniteSets

CONSTANTS BG, NumSL, NumEnvoys, FirstEnvoy, Batches,
    GlobalBG   \* BG 0, whose leader is the global leader

ASSUME GlobalAssumption == GlobalBG \in BG

(* As in Round3. *)
ASSUME SizeAssumption == IsFiniteSet(BG) /\ Cardinality(BG) > 1 /\ NumSL \in Nat \ {0}
ASSUME EnvoysAssumption == NumEnvoys \in 1..NumSL /\ FirstEnvoy \in 0..(NumSL - 1)
ASSUME BatchesAssumption == Batches \in [BG -> Nat]

VARIABLES log, applied, pending, next_cycle, envoys_rr, status, waiting, storage, net,
    failed     \* SLs whose dispatcher has thrown

Original == INSTANCE Round3

scheduler == <<pending, next_cycle, envoys_rr>>
vars == <<log, applied, scheduler, status, waiting, storage, net, failed>>

NumBG == Cardinality(BG)
Node == Original!Node
Cycle == Original!Cycle
Leader(b) == Original!Leader(b)
Known(n, c) == Original!Known(n, c)

States == {"NONE", "REPLICATED_RESULTS", "LOCAL_CONNECTIVITY", "PREPREPARE_BASELINE",
           "PARTIALCOMMITS_BASELINE", "FULLCOMMIT_BASELINE"}

(* answered: the groups whose answer is kept in rgMsgRound3FetchResponse.   *)
Status == [state: States, counter: 0..(NumBG - 1), answered: SUBSET BG]

Unknown == [state |-> "NONE", counter |-> 0, answered |-> {}]

Messages ==
    [type: {"REQUEST"}, kind: {"RESULT"}, cycle: Cycle, from: Node, to: Node]
    \union [type: {"RESPONSE"}, kind: {"RESULT", "FAKE"}, cycle: Cycle, bg: BG, to: Node]
    \union [type: {"PREPREPARE_BASELINE"}, cycle: Cycle, collector: BG, to: Node]
    \union [type: {"PARTIAL_COMMIT_BASELINE"}, cycle: Cycle, bg: BG, to: Node]
    \union [type: {"FULL_COMMIT_BASELINE"}, cycle: Cycle, to: Node]

TypeOK ==
    /\ log \in [BG -> Seq(Original!Entry)]
    /\ applied \in [Node -> Nat]
    /\ pending \in [BG -> SUBSET Original!Entry]
    /\ next_cycle \in [BG -> 1..(Original!MaxCycle + 1)]
    /\ envoys_rr \in [BG -> Original!SL]
    /\ status \in [Node -> [Cycle -> Status]]
    /\ waiting \in [Node -> SUBSET ({"RESULT"} \X Cycle \X Node)]
    /\ storage \in [Node -> SUBSET Cycle]
    /\ net \subseteq Messages
    /\ failed \subseteq Node

Init ==
    /\ log = [b \in BG |-> <<>>]
    /\ applied = [n \in Node |-> 0]
    /\ pending = [b \in BG |-> {}]
    /\ next_cycle = [b \in BG |-> 1]
    /\ envoys_rr = [b \in BG |-> FirstEnvoy]
    /\ status = [n \in Node |-> [c \in Cycle |-> Unknown]]
    /\ waiting = [n \in Node |-> {}]
    /\ storage = [n \in Node |-> {}]
    /\ net = {}
    /\ failed = {}

-----------------------------------------------------------------------------
(* FullCommit of an entry of the group's log.                               *)

(* Every SL asks for the results of the other groups.                       *)
CommitFromClient(n, e) ==
    /\ e.requestType = Original!FROM_CLIENT
    /\ ~Known(n, e.cycle)
    /\ Original!SetStatus(n, e.cycle, [state |-> "REPLICATED_RESULTS", counter |-> 0,
                                       answered |-> {n[1]}])
    /\ Original!AskAndAnswer(n, "RESULT", e.cycle, TRUE)
    /\ UNCHANGED storage
    /\ Original!Finally(n, pending[n[1]])

PreprepareTo(c, collector, leaders) ==
    {[type |-> "PREPREPARE_BASELINE", cycle |-> c, collector |-> collector, to |-> l] : l \in leaders}

Leaders == {Leader(b) : b \in BG}

(* Mutant: the FullCommit is not juggled until the results are there.       *)
IsKnown(s) == s.state # "NONE"

HasAllAnswers(s) == s.state = "LOCAL_CONNECTIVITY"

(* The connectivity of the group: the leader goes on to the Baseline's own  *)
(* Preprepare, the global leader sends it, the others are done.             *)
CommitLocalConnectivity(n, e) ==
    LET s == status[n][e.cycle]
    IN  /\ e.requestType = Original!LOCAL_CONNECTIVITY
        /\ HasAllAnswers(s)
        /\ IF n = Leader(GlobalBG)
           THEN \E collector \in BG : net' = net \union PreprepareTo(e.cycle, collector, Leaders)
           ELSE UNCHANGED net
        /\ IF n = Leader(n[1])
           THEN /\ Original!SetStatus(n, e.cycle, [s EXCEPT !.state = "PREPREPARE_BASELINE", !.counter = 0])
                /\ UNCHANGED storage
           ELSE /\ Original!SetStatus(n, e.cycle, Unknown)
                /\ storage' = [storage EXCEPT ![n] = @ \union {e.cycle}]
        /\ UNCHANGED waiting
        /\ Original!Finally(n, pending[n[1]])

Commit(n) ==
    /\ n \notin failed
    /\ Original!CanCommit(n)
    /\ LET e == log[n[1]][applied[n] + 1]
       IN  CommitFromClient(n, e) \/ CommitLocalConnectivity(n, e)
    /\ UNCHANGED failed

ReceiveBatch(b) ==
    /\ Leader(b) \notin failed
    /\ Original!ReceiveBatch(b)
    /\ UNCHANGED failed

-----------------------------------------------------------------------------
(* Fetching of results.                                                     *)

Answer(m, kind) ==
    /\ net' = (net \ {m}) \union {[type |-> "RESPONSE", kind |-> kind, cycle |-> m.cycle,
                                   bg |-> m.to[1], to |-> m.from]}
    /\ UNCHANGED waiting

(* Mutant: the answer does not wait for the group's own agreement.          *)
AnswerAtOnce(m) ==
    /\ m.type = "REQUEST"
    /\ Answer(m, "RESULT")
    /\ UNCHANGED <<log, applied, scheduler, status, storage, failed>>

(* A stale request is answered with the fake response.                      *)
HandleFetchRequest(m) ==
    /\ m.type = "REQUEST"
    /\ \/ Known(m.to, m.cycle) /\ Answer(m, "RESULT")
       \/ ~Known(m.to, m.cycle) /\ m.cycle \in storage[m.to] /\ Answer(m, "FAKE")
       \/ ~Known(m.to, m.cycle) /\ m.cycle \notin storage[m.to] /\ Original!KeepWaiting(m)
    /\ UNCHANGED <<log, applied, scheduler, status, storage, failed>>

AllAnswered(answered) == answered = BG

HandleFetchResponse(m) ==
    LET n    == m.to
        s    == status[n][m.cycle]
        held == [s EXCEPT !.answered = @ \union {m.bg}]
        done == AllAnswered(held.answered)
        work == IF done THEN {Original!Work(Original!LOCAL_CONNECTIVITY, m.cycle, n[1])} ELSE {}
    IN  /\ m.type = "RESPONSE"
        /\ Known(n, m.cycle)
        /\ net' = net \ {m}
        /\ Original!SetStatus(n, m.cycle,
              IF done THEN [held EXCEPT !.state = "LOCAL_CONNECTIVITY", !.counter = 0] ELSE held)
        /\ IF n = Leader(n[1])
           THEN Original!Queue(n[1], pending[n[1]] \union work)
           ELSE UNCHANGED <<log, scheduler>>
        /\ UNCHANGED <<applied, waiting, storage, failed>>

-----------------------------------------------------------------------------
(* The Baseline's own agreement between the leaders.                        *)

TakesPreprepare(s) == s.state = "PREPREPARE_BASELINE"

HandlePreprepare(m) ==
    LET b == m.to[1]
        s == status[m.to][m.cycle]
    IN  /\ m.type = "PREPREPARE_BASELINE"
        /\ TakesPreprepare(s)
        /\ Original!SetStatus(m.to, m.cycle, [s EXCEPT !.counter = 0, !.state =
              IF m.collector = b THEN "PARTIALCOMMITS_BASELINE" ELSE "FULLCOMMIT_BASELINE"])
        /\ net' = (net \ {m}) \union {[type |-> "PARTIAL_COMMIT_BASELINE", cycle |-> m.cycle,
                                       bg |-> b, to |-> Leader(m.collector)]}
        /\ UNCHANGED storage

(* Mutant: the collector does not wait for its own PartialCommit.           *)
AllOthersCommitted(s) == s.counter + 1 >= NumBG - 1

(* Mutant: the counter is compared before it is incremented.                *)
OneMoreCommitted(s) == s.counter = NumBG

AllCommitted(s) == s.counter + 1 = NumBG

HandlePartialCommit(m) ==
    LET s    == status[m.to][m.cycle]
        full == {[type |-> "FULL_COMMIT_BASELINE", cycle |-> m.cycle, to |-> l] : l \in Leaders}
    IN  /\ m.type = "PARTIAL_COMMIT_BASELINE"
        /\ s.state = "PARTIALCOMMITS_BASELINE"
        /\ Original!SetStatus(m.to, m.cycle,
              IF AllCommitted(s) THEN [s EXCEPT !.state = "FULLCOMMIT_BASELINE", !.counter = 0]
              ELSE [s EXCEPT !.counter = @ + 1])
        /\ net' = (net \ {m}) \union (IF AllCommitted(s) THEN full ELSE {})
        /\ UNCHANGED storage

HandleFullCommit(m) ==
    /\ m.type = "FULL_COMMIT_BASELINE"
    /\ status[m.to][m.cycle].state = "FULLCOMMIT_BASELINE"
    /\ Original!SetStatus(m.to, m.cycle, Unknown)
    /\ storage' = [storage EXCEPT ![m.to] = @ \union {m.cycle}]
    /\ net' = net \ {m}

HandleBaseline(m) ==
    /\ HandlePreprepare(m) \/ HandlePartialCommit(m) \/ HandleFullCommit(m)
    /\ UNCHANGED <<log, applied, scheduler, waiting, failed>>

(* None of these handlers can wait for a cycle it does not know, nor can    *)
(* that of a FetchResponse: EXCEPTION_CYCLE_NOT_IN_ROUND3.                  *)
Throw(m) ==
    /\ m.type # "REQUEST"
    /\ ~Known(m.to, m.cycle)
    /\ failed' = failed \union {m.to}
    /\ UNCHANGED <<log, applied, scheduler, status, waiting, storage, net>>

Handle(m) ==
    /\ m.to \notin failed
    /\ HandleFetchRequest(m) \/ HandleFetchResponse(m) \/ HandleBaseline(m) \/ Throw(m)

Next ==
    \/ \E b \in BG : ReceiveBatch(b)
    \/ \E n \in Node : Commit(n)
    \/ \E m \in net : Handle(m)

Spec == Init /\ [][Next]_vars

Fairness ==
    /\ \A b \in BG : WF_vars(ReceiveBatch(b))
    /\ \A n \in Node : WF_vars(Commit(n))
    /\ \A n \in Node : WF_vars(\E m \in net : m.to = n /\ Handle(m))

FairSpec == Spec /\ Fairness

-----------------------------------------------------------------------------
(* A FetchResponse never comes too late: whatever the leaders do, an SL     *)
(* keeps the cycle until all groups have answered it.                       *)
ResponsesFindTheirCycle ==
    \A m \in net : m.type = "RESPONSE" =>
        Known(m.to, m.cycle) /\ m.bg \notin status[m.to][m.cycle].answered

(* Once the leader of any group has finished a cycle, the leaders of all    *)
(* groups have committed their connectivity and sent their PartialCommit:   *)
(* none of them can go back to waiting for another group.                   *)
LeadersFinishTogether ==
    \A b, d \in BG, c \in Cycle : c \in storage[Leader(b)] =>
        c \in storage[Leader(d)] \/ status[Leader(d)][c].state = "FULLCOMMIT_BASELINE"

(* Juggled or not, every cycle is finished at every SL, unless somebody     *)
(* throws.                                                                  *)
EveryCycleFinishesOrThrows ==
    \A n \in Node, c \in Cycle :
        (\A b \in BG : c <= Batches[b]) => <>(c \in storage[n] \/ failed # {})

Abstract == INSTANCE Cycles WITH
    MaxCycle <- Original!MaxCycle,
    produced <- {r \in BG \X Cycle : r[2] < next_cycle[r[1]]},
    held <- [n \in Node |-> {r \in BG \X Cycle :
                r[2] \in storage[n] \/ r[1] \in status[n][r[2]].answered}],
    finished <- storage

(* The comparison is fair: the baseline implements the same abstract        *)
(* cycles, if a fake answer is counted as the result it stands for.         *)
ImplementsCycles == Abstract!Spec

==============================================================================
