-------------------------------- MODULE Round3 --------------------------------
(***************************************************************************)
(* The third round of RCanopus as ConnManager.cpp builds it: what the      *)
(* Byzantine groups (BGs) tell each other in a cycle.  Every group agrees  *)
(* on the batch of its clients, fetches the results of the other groups,   *)
(* exchanges who is connected to whom, exchanges the membership that       *)
(* follows, and finishes the cycle.  What a group learns goes through its  *)
(* own log first, so that its super-leaves (SLs) apply it in one order.    *)
(*                                                                         *)
(* Agreement inside a group is taken from GroupLog: log[b] is the log of   *)
(* group b, applied[n] how far SL n has applied it.  A message stays in    *)
(* net until a handler consumes it, juggled or not; a request kept in one  *)
(* of the three maps of pending requests is in waiting.                    *)
(***************************************************************************)
EXTENDS Integers, Sequences, FiniteSets

CONSTANTS
    BG,        \* the Byzantine groups
    NumSL,     \* number of SLs in a BG
    NumEnvoys, \* Round 3 participants of a cycle: NumSL less the failures tolerated
    FirstEnvoy,\* where the round robin of envoys stands when the run begins
    Batches    \* Batches[b]: for how many cycles the clients of BG b submit

NumBG == Cardinality(BG)
SL == 0..(NumSL - 1)

(* A group without others finishes a cycle when it has committed its batch: *)
(* it has no Round 3, and Round2Node models it with NumRemote = 0.          *)
ASSUME SizeAssumption == IsFiniteSet(BG) /\ NumBG > 1 /\ NumSL \in Nat \ {0}
ASSUME EnvoysAssumption == NumEnvoys \in 1..NumSL
ASSUME FirstEnvoyAssumption == FirstEnvoy \in {(k * NumEnvoys) % NumSL : k \in 0..NumSL}
ASSUME BatchesAssumption == Batches \in [BG -> Nat]

Node == BG \X SL
Leader(b) == <<b, 0>>
Remote(b) == BG \ {b}
MaxCycle == CHOOSE c \in {Batches[b] : b \in BG} : \A b \in BG : Batches[b] <= c
Cycle == 1..MaxCycle

FROM_CLIENT        == 0
FETCHED_RESULT     == 1
LOCAL_CONNECTIVITY == 2
LOCAL_MEMBERSHIP   == 4
FULL_MEMBERSHIP    == 5
RequestType == {FROM_CLIENT, FETCHED_RESULT, LOCAL_CONNECTIVITY, LOCAL_MEMBERSHIP, FULL_MEMBERSHIP}

(* What one group asks another for. *)
Kind == {"RESULT", "CONNECTIVITY", "MEMBERSHIP"}

(* An entry of a log: origin is the group a fetched result comes from,     *)
(* envoy the first of the Round 3 participants the leader chose.           *)
Entry == [requestType: RequestType, cycle: Cycle, origin: BG, envoy: SL]

Request  == [type: {"REQUEST"}, kind: Kind, cycle: Cycle, from: Node, to: Node]
Response == [type: {"RESPONSE"}, kind: Kind, cycle: Cycle, bg: BG, to: Node]

VARIABLES
    log,        \* log[b]: the instances of Round 2 in group b
    applied,    \* applied[n]: entries of its group's log SL n has applied
    pending,    \* pending[b]: pLeaderRound2PendingPreprepareRaw of the leader
    next_cycle, \* next_cycle[b]: leader_round2_next_rcanopus_cycle
    envoys_rr,  \* envoys_rr[b]: leader_envoys_rr
    status,     \* status[n][c]: mapRound3Status[c] of SL n
    waiting,    \* waiting[n]: the three maps of pending requests of SL n
    storage,    \* storage[n]: the cycles in pStorage of SL n
    net         \* messages between SLs, sent and not consumed

scheduler == <<pending, next_cycle, envoys_rr>>
vars == <<log, applied, scheduler, status, waiting, storage, net>>

States == {"NONE", "REPLICATED_RESULTS", "LOCAL_CONNECTIVITY", "REPLICATED_CONNECTIVITY",
           "REPLICATED_MEMBERSHIP"}

(* Status of a cycle: what it waits for, how many answers of that kind it  *)
(* has, and the groups whose answer of each kind is kept.                  *)
Status == [state: States, counter: 0..NumBG, slots: [Kind -> SUBSET BG], envoy: SL]

Unknown == [state |-> "NONE", counter |-> 0, slots |-> [k \in Kind |-> {}], envoy |-> 0]

Known(n, c) == status[n][c].state # "NONE"

TypeOK ==
    /\ log \in [BG -> Seq(Entry)]
    /\ applied \in [Node -> Nat]
    /\ pending \in [BG -> SUBSET Entry]
    /\ next_cycle \in [BG -> 1..(MaxCycle + 1)]
    /\ envoys_rr \in [BG -> SL]
    /\ status \in [Node -> [Cycle -> Status]]
    /\ waiting \in [Node -> SUBSET (Kind \X Cycle \X Node)]
    /\ storage \in [Node -> SUBSET Cycle]
    /\ net \subseteq (Request \union Response)

Init ==
    /\ log = [b \in BG |-> <<>>]
    /\ applied = [n \in Node |-> 0]
    /\ pending = [b \in BG |-> {}]
    /\ next_cycle = [b \in BG |-> 1]
    /\ envoys_rr = [b \in BG |-> FirstEnvoy]
    /\ status = [n \in Node |-> [c \in Cycle |-> Unknown]]
    /\ waiting = [n \in Node |-> {}]
    /\ storage = [n \in Node |-> {}]
    /\ net = {}

-----------------------------------------------------------------------------
(* The leader's scheduler: leader_round2_sendPreprepare.                    *)

Work(t, c, origin) == [requestType |-> t, cycle |-> c, origin |-> origin, envoy |-> 0]

(* cmpRequestType: the latest stage first, in any order within a stage.     *)
Top(work) == {e \in work : \A f \in work : f.requestType <= e.requestType}

SendPending(b, work) ==
    \E e \in Top(work) :
        /\ log' = [log EXCEPT ![b] = Append(@, e)]
        /\ pending' = [pending EXCEPT ![b] = work \ {e}]
        /\ UNCHANGED <<next_cycle, envoys_rr>>

(* The envoy of the next cycle: the participants of this one take NumEnvoys *)
(* turns of the round robin.                                                *)
NextEnvoy(rr) == (rr + NumEnvoys) % NumSL

(* Every SL of the group has submitted its batch for the cycle.             *)
SendBatch(b) ==
    /\ next_cycle[b] <= Batches[b]
    /\ log' = [log EXCEPT ![b] = Append(@,
          [requestType |-> FROM_CLIENT, cycle |-> next_cycle[b], origin |-> b,
           envoy |-> envoys_rr[b]])]
    /\ next_cycle' = [next_cycle EXCEPT ![b] = @ + 1]
    /\ envoys_rr' = [envoys_rr EXCEPT ![b] = NextEnvoy(@)]

(* The end of a handler of the leader that leaves the slot free; work is    *)
(* the priority queue as the handler leaves it.  If it is empty, a batch    *)
(* may or may not be ready.                                                 *)
SpawnRound2(b, work) ==
    \/ work # {} /\ SendPending(b, work)
    \/ work = {} /\ SendBatch(b) /\ pending' = [pending EXCEPT ![b] = {}]
    \/ work = {} /\ pending' = [pending EXCEPT ![b] = {}]
       /\ UNCHANGED <<log, next_cycle, envoys_rr>>

SlotFree(b) == applied[Leader(b)] = Len(log[b])

(* Mutant: the handler adds to the queue and does not look at the slot.     *)
QueueOnly(b, work) ==
    pending' = [pending EXCEPT ![b] = work] /\ UNCHANGED <<log, next_cycle, envoys_rr>>

Queue(b, work) ==
    IF SlotFree(b) THEN SpawnRound2(b, work)
    ELSE pending' = [pending EXCEPT ![b] = work] /\ UNCHANGED <<log, next_cycle, envoys_rr>>

(* The last missing batch arrives, as a request or as a wake-up.            *)
ReceiveBatch(b) ==
    /\ SlotFree(b)
    /\ pending[b] = {}
    /\ SendBatch(b)
    /\ UNCHANGED <<applied, pending, status, waiting, storage, net>>

-----------------------------------------------------------------------------
(* Messages between groups.                                                 *)

ResponseTo(m) == [type |-> "RESPONSE", kind |-> m.kind, cycle |-> m.cycle,
                  bg |-> m.to[1], to |-> m.from]

(* round3_respondToPending...: an answer to everyone who asked too early.   *)
PendingResponses(n, kind, c) ==
    {[type |-> "RESPONSE", kind |-> kind, cycle |-> c, bg |-> n[1], to |-> w[3]] :
        w \in {v \in waiting[n] : v[1] = kind /\ v[2] = c}}

NoLongerWaiting(n, kind, c) ==
    [waiting EXCEPT ![n] = {v \in @ : v[1] # kind \/ v[2] # c}]

(* getOneSLFromEveryRemoteBG, for the requests of SL n.                     *)
EnvoyRequests(n, kind, c, pick) ==
    {[type |-> "REQUEST", kind |-> kind, cycle |-> c, from |-> n, to |-> <<b, pick[b]>>] :
        b \in Remote(n[1])}

(* isPrimaryEnvoyRound3; the other participants do nothing.                 *)
IsPrimaryEnvoy(n, envoy) == n[2] = envoy

(* SL n enters a stage in which the other groups' answers of a kind are     *)
(* missing: it answers those who asked before, and if it is one of those    *)
(* that ask, it asks one SL of every other group.                           *)
AskAndAnswer(n, kind, c, asks) ==
    /\ waiting' = NoLongerWaiting(n, kind, c)
    /\ \E pick \in [Remote(n[1]) -> SL] :
          net' = net \union PendingResponses(n, kind, c)
                 \union (IF asks THEN EnvoyRequests(n, kind, c, pick) ELSE {})

-----------------------------------------------------------------------------
(* FullCommit of an entry at SL n: dispatcher_round2_fullCommit.            *)

(* Mutant: an SL applies an entry before the others voted for it.           *)
CanCommitAhead(n) == applied[n] < Len(log[n[1]])

CanCommit(n) ==
    /\ applied[n] < Len(log[n[1]])
    /\ \A s \in SL : applied[<<n[1], s>>] >= applied[n]

(* The commit frees the slot of the leader, and only the leader has work.   *)
Finally(n, work) ==
    /\ applied' = [applied EXCEPT ![n] = @ + 1]
    /\ IF n = Leader(n[1]) THEN SpawnRound2(n[1], work) ELSE UNCHANGED <<log, scheduler>>

SetStatus(n, c, s) == status' = [status EXCEPT ![n][c] = s]

(* The batch of the group's own clients: the cycle enters Round 3.          *)
CommitFromClient(n, e) ==
    /\ e.requestType = FROM_CLIENT
    /\ ~Known(n, e.cycle)
    /\ SetStatus(n, e.cycle, [Unknown EXCEPT !.state = "REPLICATED_RESULTS",
                              !.slots["RESULT"] = {n[1]}, !.envoy = e.envoy])
    /\ AskAndAnswer(n, "RESULT", e.cycle, IsPrimaryEnvoy(n, e.envoy))
    /\ UNCHANGED storage
    /\ Finally(n, pending[n[1]])

(* Mutant: the connectivity follows one result too early.                   *)
LastButOneResult(s) == s.counter + 2 >= NumBG - 1

LastResult(s) == s.counter + 1 = NumBG - 1

CommitFetchedResult(n, e) ==
    LET s    == status[n][e.cycle]
        held == [s EXCEPT !.slots["RESULT"] = @ \union {e.origin}, !.counter = @ + 1]
    IN  /\ e.requestType = FETCHED_RESULT
        /\ s.state = "REPLICATED_RESULTS"
        /\ e.origin \notin s.slots["RESULT"]
        /\ SetStatus(n, e.cycle,
              IF LastResult(s) THEN [held EXCEPT !.state = "LOCAL_CONNECTIVITY", !.counter = 0]
              ELSE held)
        /\ UNCHANGED <<waiting, storage, net>>
        /\ Finally(n, pending[n[1]] \union
              IF LastResult(s) THEN {Work(LOCAL_CONNECTIVITY, e.cycle, n[1])} ELSE {})

(* Connectivity and membership: the group's own answer is kept, the other   *)
(* groups' answers are awaited.                                             *)
CommitLocal(n, e, t, kind, state) ==
    LET s == status[n][e.cycle]
    IN  /\ e.requestType = t
        /\ Known(n, e.cycle)
        /\ n[1] \notin s.slots[kind]
        /\ SetStatus(n, e.cycle, [s EXCEPT !.state = state, !.counter = 0,
                                  !.slots[kind] = @ \union {n[1]}])
        /\ AskAndAnswer(n, kind, e.cycle, IsPrimaryEnvoy(n, s.envoy))
        /\ UNCHANGED storage
        /\ Finally(n, pending[n[1]])

CommitLocalConnectivity(n, e) ==
    CommitLocal(n, e, LOCAL_CONNECTIVITY, "CONNECTIVITY", "REPLICATED_CONNECTIVITY")

CommitLocalMembership(n, e) ==
    CommitLocal(n, e, LOCAL_MEMBERSHIP, "MEMBERSHIP", "REPLICATED_MEMBERSHIP")

(* round3_committed: the status is erased and the cycle stored.             *)
CommitFullMembership(n, e) ==
    /\ e.requestType = FULL_MEMBERSHIP
    /\ Known(n, e.cycle)
    /\ SetStatus(n, e.cycle, Unknown)
    /\ storage' = [storage EXCEPT ![n] = @ \union {e.cycle}]
    /\ UNCHANGED <<waiting, net>>
    /\ Finally(n, pending[n[1]])

Commit(n) ==
    /\ CanCommit(n)
    /\ LET e == log[n[1]][applied[n] + 1]
       IN  \/ CommitFromClient(n, e)
           \/ CommitFetchedResult(n, e)
           \/ CommitLocalConnectivity(n, e)
           \/ CommitLocalMembership(n, e)
           \/ CommitFullMembership(n, e)

-----------------------------------------------------------------------------
(* Requests of other groups.                                                *)

Reply(m) ==
    /\ net' = (net \ {m}) \union {ResponseTo(m)}
    /\ UNCHANGED waiting

KeepWaiting(m) ==
    /\ waiting' = [waiting EXCEPT ![m.to] = @ \union {<<m.kind, m.cycle, m.from>>}]
    /\ net' = net \ {m}

(* Of the group's own answer to m.                                          *)
IsReady(m) == m.to[1] \in status[m.to][m.cycle].slots[m.kind]

(* Mutant: the answer does not wait for the group's own agreement.          *)
AnswerAtOnce(m) == m.kind = "RESULT" /\ Reply(m)

(* An unknown cycle has not begun: a stale request is an assertion.         *)
HandleFetchRequest(m) ==
    /\ m.kind = "RESULT"
    /\ \/ Known(m.to, m.cycle) /\ Reply(m)
       \/ ~Known(m.to, m.cycle) /\ m.cycle \notin storage[m.to] /\ KeepWaiting(m)

(* Mutant: asked too early, the request is thrown away.                     *)
DropConnectivityRequest(m) ==
    /\ m.kind = "CONNECTIVITY"
    /\ Known(m.to, m.cycle)
    /\ IF IsReady(m) THEN Reply(m) ELSE net' = net \ {m} /\ UNCHANGED waiting

(* Juggled while the cycle is unknown.                                      *)
HandleConnectivityRequest(m) ==
    /\ m.kind = "CONNECTIVITY"
    /\ Known(m.to, m.cycle)
    /\ IF IsReady(m) THEN Reply(m) ELSE KeepWaiting(m)

(* An unknown cycle is a finished one, and the answer is made up.           *)
HandleMembershipRequest(m) ==
    /\ m.kind = "MEMBERSHIP"
    /\ \/ ~Known(m.to, m.cycle) /\ m.cycle \in storage[m.to] /\ Reply(m)
       \/ Known(m.to, m.cycle) /\ IsReady(m) /\ Reply(m)
       \/ Known(m.to, m.cycle) /\ ~IsReady(m) /\ KeepWaiting(m)

HandleRequest(m) ==
    /\ m.type = "REQUEST"
    /\ HandleFetchRequest(m) \/ HandleConnectivityRequest(m) \/ HandleMembershipRequest(m)
    /\ UNCHANGED <<log, applied, scheduler, status, storage>>

-----------------------------------------------------------------------------
(* Answers of other groups.                                                 *)

(* Mutant: the answer handed on is juggled besides.                         *)
ForwardAndKeep(m) ==
    /\ m.type = "RESPONSE"
    /\ m.to # Leader(m.to[1])
    /\ net' = net \union {[m EXCEPT !.to = Leader(m.to[1])]}
    /\ UNCHANGED <<log, applied, scheduler, status, waiting, storage>>

(* An envoy that is not the leader hands the answer on to the leader.       *)
ForwardResponse(m) ==
    /\ m.type = "RESPONSE"
    /\ m.to # Leader(m.to[1])
    /\ net' = (net \ {m}) \union {[m EXCEPT !.to = Leader(m.to[1])]}
    /\ UNCHANGED <<log, applied, scheduler, status, waiting, storage>>

ForLeader(m, kind) ==
    /\ m.type = "RESPONSE"
    /\ m.kind = kind
    /\ m.to = Leader(m.to[1])

HandleFetchResponse(m) ==
    /\ ForLeader(m, "RESULT")
    /\ net' = net \ {m}
    /\ Queue(m.to[1], pending[m.to[1]] \union {Work(FETCHED_RESULT, m.cycle, m.bg)})
    /\ UNCHANGED <<applied, status, waiting, storage>>

(* Mutant: the counter is not advanced by an answer that fills a slot.      *)
KeptNotCounted(m, s) == [s EXCEPT !.slots[m.kind] = @ \union {m.bg}]
Counted(m, s) == [s EXCEPT !.slots[m.kind] = @ \union {m.bg}, !.counter = @ + 1]

LastAnswer(s) == s.counter + 1 = NumBG - 1

(* Juggled until the cycle awaits connectivity.                             *)
HandleConnectivityResponse(m) ==
    LET b == m.to[1]
        s == status[m.to][m.cycle]
    IN  /\ ForLeader(m, "CONNECTIVITY")
        /\ s.state = "REPLICATED_CONNECTIVITY"
        /\ SetStatus(m.to, m.cycle, Counted(m, s))
        /\ net' = net \ {m}
        /\ Queue(b, pending[b] \union
              IF LastAnswer(s) THEN {Work(LOCAL_MEMBERSHIP, m.cycle, m.bg)} ELSE {})
        /\ UNCHANGED <<applied, waiting, storage>>

AcceptsMembership(s) == s.state = "REPLICATED_MEMBERSHIP"

(* Juggled until the cycle awaits membership; only the last one spawns.     *)
HandleMembershipResponse(m) ==
    LET b == m.to[1]
        s == status[m.to][m.cycle]
    IN  /\ ForLeader(m, "MEMBERSHIP")
        /\ AcceptsMembership(s)
        /\ m.bg \notin s.slots["MEMBERSHIP"]
        /\ SetStatus(m.to, m.cycle, Counted(m, s))
        /\ net' = net \ {m}
        /\ IF LastAnswer(s)
           THEN Queue(b, pending[b] \union {Work(FULL_MEMBERSHIP, m.cycle, b)})
           ELSE UNCHANGED <<log, scheduler>>
        /\ UNCHANGED <<applied, waiting, storage>>

Handle(m) ==
    \/ HandleRequest(m)
    \/ ForwardResponse(m)
    \/ HandleFetchResponse(m)
    \/ HandleConnectivityResponse(m)
    \/ HandleMembershipResponse(m)

Next ==
    \/ \E b \in BG : ReceiveBatch(b)
    \/ \E n \in Node : Commit(n)
    \/ \E m \in net : Handle(m)

Spec == Init /\ [][Next]_vars

(* Clients keep submitting; Round 2 delivers every entry (EveryEntryDelivered *)
(* of BGLog); each SL goes on handling what it can handle.                  *)
Fairness ==
    /\ \A b \in BG : WF_vars(ReceiveBatch(b))
    /\ \A n \in Node : WF_vars(Commit(n))
    /\ \A n \in Node : WF_vars(\E m \in net : m.to = n /\ Handle(m))

FairSpec == Spec /\ Fairness

-----------------------------------------------------------------------------
(* An SL asked for its result or its connectivity has not finished the      *)
(* cycle: line 1548 asserts it of the result, and a request for the         *)
(* connectivity of a finished cycle would be juggled for ever (line 1706).  *)
NoStaleRequest ==
    \A m \in net : m.type = "REQUEST" /\ m.kind # "MEMBERSHIP" => m.cycle \notin storage[m.to]

(* An answer never comes too late or twice: the leader still has the cycle  *)
(* (lines 1748 and 1876 throw) and has no such answer (line 1884 asserts).  *)
ResponsesFindTheirCycle ==
    \A m \in net : m.type = "RESPONSE" /\ m.kind # "RESULT" =>
        LET leader == Leader(m.to[1])
        IN  /\ Known(leader, m.cycle)
            /\ m.bg \notin status[leader][m.cycle].slots[m.kind]

(* The stage before that of an entry.                                       *)
StageOf(t) == CASE t = FETCHED_RESULT -> "REPLICATED_RESULTS"
                [] t = LOCAL_CONNECTIVITY -> "LOCAL_CONNECTIVITY"
                [] t = LOCAL_MEMBERSHIP -> "REPLICATED_CONNECTIVITY"
                [] t = FULL_MEMBERSHIP -> "REPLICATED_MEMBERSHIP"

(* Whatever order the leader's queue puts the work of several cycles in,    *)
(* an SL applies a stage of a cycle when the cycle is in the stage before   *)
(* it (FullCommit asserts or throws otherwise, lines 1053 to 1300).         *)
CommitFindsItsStage ==
    \A n \in Node : CanCommit(n) =>
        LET e == log[n[1]][applied[n] + 1]
            s == status[n][e.cycle]
        IN  IF e.requestType = FROM_CLIENT
            THEN ~Known(n, e.cycle) /\ e.cycle \notin storage[n]
            ELSE /\ s.state = StageOf(e.requestType)
                 /\ e.requestType = FETCHED_RESULT => e.origin \notin s.slots["RESULT"]

(* No assertion of a Round 3 handler trips and none of them throws: every   *)
(* request, answer and committed entry meets its cycle in the stage it is   *)
(* meant for, although the groups never acknowledge anything.               *)
AssertionsHold == NoStaleRequest /\ ResponsesFindTheirCycle /\ CommitFindsItsStage

(* An SL asked for the membership of a cycle it does not know has finished  *)
(* the cycle, and is not one that has not begun it (line 1807).             *)
FinishedNotUnbegun ==
    \A m \in net : m.type = "REQUEST" /\ m.kind = "MEMBERSHIP" =>
        Known(m.to, m.cycle) \/ m.cycle \in storage[m.to]

(* message_received_counter, compared with the number of remote groups,     *)
(* counts groups and not messages: it is the number of slots that are       *)
(* filled.                                                                  *)
CountedOnce ==
    \A n \in Node, c \in Cycle :
        LET s == status[n][c]
            Filled(kind) == Cardinality(s.slots[kind] \ {n[1]})
        IN  s.counter = CASE s.state = "REPLICATED_RESULTS" -> Filled("RESULT")
                          [] s.state = "REPLICATED_CONNECTIVITY" -> Filled("CONNECTIVITY")
                          [] s.state = "REPLICATED_MEMBERSHIP" -> Filled("MEMBERSHIP")
                          [] OTHER -> 0

(* When any SL has finished a cycle, every SL of every group has applied    *)
(* the results of all groups.  Nobody waits for acknowledgements across     *)
(* groups: that a group answers with its membership has to imply it.        *)
FinishedMeansReplicated ==
    \A n \in Node : \A c \in storage[n] :
        \A m \in Node : c \in storage[m] \/ status[m][c].slots["RESULT"] = BG

(* Work of Round 3 never waits for a leader that has nothing to do: every   *)
(* handler that adds work or frees the slot looks at the other.             *)
WorkNeverWaits ==
    \A b \in BG : pending[b] # {} => ~SlotFree(b)

(* Every SL finishes every cycle for which all groups have batches.         *)
EveryCycleFinishes ==
    \A n \in Node, c \in Cycle :
        (\A b \in BG : c <= Batches[b]) => <>(c \in storage[n])

(* Each group is a replicated log.                                          *)
Group(b) == INSTANCE GroupLog WITH
    N <- NumSL, log <- log[b], delivered <- [s \in SL |-> applied[<<b, s>>]]

ImplementsGroupLogs ==
    /\ \A b \in BG : Group(b)!Init
    /\ [][\A b \in BG : [Group(b)!Next]_(Group(b)!vars)]_vars

(* All groups together implement the abstract cycles.                       *)
Abstract == INSTANCE Cycles WITH
    produced <- {r \in BG \X Cycle : r[2] < next_cycle[r[1]]},
    held <- [n \in Node |-> {r \in BG \X Cycle :
                r[2] \in storage[n] \/ r[1] \in status[n][r[2]].slots["RESULT"]}],
    finished <- storage

ImplementsCycles == Abstract!Spec

==============================================================================
