----------------------------- MODULE Round3Hybrid -----------------------------
(***************************************************************************)
(* The third round as ConnManager_Hybrid.cpp builds it.  Every SL fetches  *)
(* the results of the other groups for itself, so they do not go through   *)
(* the log of the group.  What keeps the SLs together is the vote: an SL   *)
(* juggles the Preprepare of the group's connectivity until it holds every *)
(* result.  Votes therefore matter here, and a group is a BGLog; the rest  *)
(* is shared with Round3, whose operators are used where the files agree.  *)
(***************************************************************************)
EXTENDS Integers, Sequences, FiniteSets

CONSTANTS BG, NumSL, NumEnvoys, FirstEnvoy, Batches

ASSUME SizeAssumption == IsFiniteSet(BG) /\ Cardinality(BG) > 1 /\ NumSL \in Nat \ {0}
ASSUME EnvoysAssumption == NumEnvoys \in 1..NumSL
ASSUME FirstEnvoyAssumption == FirstEnvoy \in {(k * NumEnvoys) % NumSL : k \in 0..NumSL}
ASSUME BatchesAssumption == Batches \in [BG -> Nat]

VARIABLES log, applied, pending, next_cycle, envoys_rr, status, waiting, storage, net,
    voted      \* voted[n]: entries of the log SL n has sent a PartialCommit for

Original == INSTANCE Round3

scheduler == <<pending, next_cycle, envoys_rr>>
vars == <<log, applied, scheduler, status, waiting, storage, net, voted>>

SL == Original!SL
Node == Original!Node
Cycle == Original!Cycle
Leader(b) == Original!Leader(b)
Known(n, c) == Original!Known(n, c)

TypeOK ==
    /\ Original!TypeOK
    /\ voted \in [Node -> Nat]
    /\ \A n \in Node : applied[n] <= voted[n] /\ voted[n] <= Len(log[n[1]])

Init ==
    /\ Original!Init
    /\ voted = [n \in Node |-> 0]

-----------------------------------------------------------------------------
(* Round 2: the vote and the commit.                                        *)

(* Mutant: that the cycle is known is enough.                               *)
IsKnown(s) == s.state # "NONE"

(* Mutant: the state asked for is the one after.                            *)
IsConnected(s) == s.state = "REPLICATED_CONNECTIVITY"

HasAllResults(s) == s.state = "LOCAL_CONNECTIVITY"

(* The Preprepare of the connectivity is juggled until the SL has all       *)
(* results.                                                                 *)
Vote(n) ==
    /\ applied[n] = voted[n]
    /\ voted[n] < Len(log[n[1]])
    /\ LET e == log[n[1]][voted[n] + 1]
       IN  e.requestType = Original!LOCAL_CONNECTIVITY => HasAllResults(status[n][e.cycle])
    /\ voted' = [voted EXCEPT ![n] = @ + 1]
    /\ UNCHANGED <<log, applied, scheduler, status, waiting, storage, net>>

(* Mutant: the collector does not wait for the last PartialCommit.          *)
CertifiedByAllButOne(n) ==
    /\ applied[n] < voted[n]
    /\ \E s \in SL : \A r \in SL \ {s} : voted[<<n[1], r>>] > applied[n]

Certified(n) ==
    /\ applied[n] < voted[n]
    /\ \A s \in SL : voted[<<n[1], s>>] > applied[n]

(* The cycle enters Round 3: every SL asks, not the envoy alone.            *)
CommitFromClient(n, e) ==
    /\ e.requestType = Original!FROM_CLIENT
    /\ ~Known(n, e.cycle)
    /\ Original!SetStatus(n, e.cycle,
          [Original!Unknown EXCEPT !.state = "REPLICATED_RESULTS",
                                   !.slots["RESULT"] = {n[1]}, !.envoy = e.envoy])
    /\ Original!AskAndAnswer(n, "RESULT", e.cycle, TRUE)
    /\ UNCHANGED storage
    /\ Original!Finally(n, pending[n[1]])

CommitLocalConnectivity(n, e) ==
    /\ HasAllResults(status[n][e.cycle])
    /\ Original!CommitLocalConnectivity(n, e)

CommitLocalMembership(n, e) == Original!CommitLocalMembership(n, e)

CommitFullMembership(n, e) == Original!CommitFullMembership(n, e)

Commit(n) ==
    /\ Certified(n)
    /\ LET e == log[n[1]][applied[n] + 1]
       IN  \/ CommitFromClient(n, e)
           \/ CommitLocalConnectivity(n, e)
           \/ CommitLocalMembership(n, e)
           \/ CommitFullMembership(n, e)
    /\ UNCHANGED voted

ReceiveBatch(b) == Original!ReceiveBatch(b) /\ UNCHANGED voted

-----------------------------------------------------------------------------
(* Messages of other groups.                                                *)

HandleFetchRequest(m) == Original!HandleFetchRequest(m)

HandleConnectivityRequest(m) == Original!HandleConnectivityRequest(m)

HandleMembershipRequest(m) == Original!HandleMembershipRequest(m)

HandleRequest(m) ==
    /\ m.type = "REQUEST"
    /\ HandleFetchRequest(m) \/ HandleConnectivityRequest(m) \/ HandleMembershipRequest(m)
    /\ UNCHANGED <<log, applied, scheduler, status, storage>>

AllFetched(slots) == slots = BG

(* Kept at the SL that asked; with the last one the leader proposes the     *)
(* group's connectivity.                                                    *)
HandleFetchResponse(m) ==
    LET n    == m.to
        s    == status[n][m.cycle]
        held == [s EXCEPT !.slots["RESULT"] = @ \union {m.bg}]
        done == AllFetched(held.slots["RESULT"])
        work == IF done THEN {Original!Work(Original!LOCAL_CONNECTIVITY, m.cycle, n[1])} ELSE {}
    IN  /\ m.type = "RESPONSE"
        /\ m.kind = "RESULT"
        /\ Known(n, m.cycle)
        /\ net' = net \ {m}
        /\ Original!SetStatus(n, m.cycle,
              IF done THEN [held EXCEPT !.state = "LOCAL_CONNECTIVITY", !.counter = 0] ELSE held)
        /\ IF n = Leader(n[1])
           THEN Original!Queue(n[1], pending[n[1]] \union work)
           ELSE UNCHANGED <<log, scheduler>>
        /\ UNCHANGED <<applied, waiting, storage>>

ForwardResponse(m) ==
    /\ m.kind # "RESULT"
    /\ Original!ForwardResponse(m)

HandleConnectivityResponse(m) == Original!HandleConnectivityResponse(m)

HandleMembershipResponse(m) == Original!HandleMembershipResponse(m)

Handle(m) ==
    /\ \/ HandleRequest(m)
       \/ HandleFetchResponse(m)
       \/ ForwardResponse(m)
       \/ HandleConnectivityResponse(m)
       \/ HandleMembershipResponse(m)
    /\ UNCHANGED voted

Next ==
    \/ \E b \in BG : ReceiveBatch(b)
    \/ \E n \in Node : Vote(n) \/ Commit(n)
    \/ \E m \in net : Handle(m)

Spec == Init /\ [][Next]_vars

(* As in Round3; that the vote is retried is the juggle queue's pass, which *)
(* follows the FetchResponse that makes the Preprepare acceptable.          *)
Fairness ==
    /\ \A b \in BG : WF_vars(ReceiveBatch(b))
    /\ \A n \in Node : WF_vars(Vote(n)) /\ WF_vars(Commit(n))
    /\ \A n \in Node : WF_vars(\E m \in net : m.to = n /\ Handle(m))

FairSpec == Spec /\ Fairness

-----------------------------------------------------------------------------
(* An answer finds its cycle: at the SL that asked for a result (line 1607  *)
(* throws), at the leader for the rest, whose slot is empty.                *)
ResponsesFindTheirCycle ==
    /\ Original!ResponsesFindTheirCycle
    /\ \A m \in net : m.type = "RESPONSE" /\ m.kind = "RESULT" =>
           /\ Known(m.to, m.cycle)
           /\ m.bg \notin status[m.to][m.cycle].slots["RESULT"]

(* A committed entry finds its cycle in the stage before it (line 1183      *)
(* asserts it of the connectivity), and the Preprepare of the connectivity  *)
(* waits for results, never for the cycle (line 844 asserts it).            *)
StagesInOrder ==
    /\ \A n \in Node : applied[n] = voted[n] /\ voted[n] < Len(log[n[1]]) =>
           LET e == log[n[1]][voted[n] + 1]
           IN  e.requestType = Original!LOCAL_CONNECTIVITY => Known(n, e.cycle)
    /\ \A n \in Node : Certified(n) =>
           LET e == log[n[1]][applied[n] + 1]
           IN  IF e.requestType = Original!FROM_CLIENT
               THEN ~Known(n, e.cycle) /\ e.cycle \notin storage[n]
               ELSE status[n][e.cycle].state = Original!StageOf(e.requestType)

(* No assertion of a Round 3 handler trips and none of them throws.  Every  *)
(* SL asks now instead of one, so that a request must not come after the    *)
(* end of the cycle (line 1571) even from the slowest of them, nor before   *)
(* its beginning where an unknown cycle is taken for a finished one (1833). *)
AssertionsHold ==
    /\ Original!NoStaleRequest
    /\ Original!FinishedNotUnbegun
    /\ ResponsesFindTheirCycle
    /\ StagesInOrder

(* Every SL finishes every cycle for which all groups have batches: the     *)
(* juggled votes do not wait for each other.                                *)
EveryCycleFinishes == Original!EveryCycleFinishes

(* Each group is a log with votes.                                          *)
Group(b) == INSTANCE BGLog WITH
    N <- NumSL, Entry <- Original!Entry, MaxSeq <- 5 * Original!MaxCycle, log <- log[b],
    voted <- [s \in SL |-> voted[<<b, s>>]], delivered <- [s \in SL |-> applied[<<b, s>>]]

ImplementsBGLogs ==
    /\ \A b \in BG : Group(b)!Init
    /\ [][\A b \in BG : [Group(b)!Next]_(Group(b)!vars)]_vars

==============================================================================
