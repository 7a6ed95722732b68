------------------------- MODULE Round3HybridProofs -------------------------
(* Proofs about Round3Hybrid, for any number of groups and SLs, any round     *)
(* robin of envoys and any number of cycles.                                  *)
(*                                                                            *)
(* Every SL asks for results, so that the answer it waits for is its own and  *)
(* nobody's but the vote's: no SL applies the connectivity of a cycle before  *)
(* all SLs of the group have voted for it, and none votes before it has all   *)
(* results.  The inductive invariant IInv relates the votes to the statuses,  *)
(* and says of every question in flight who keeps its answer, that it is not  *)
(* there yet, and which SL of the other group gave it.                        *)
EXTENDS Round3Hybrid, FiniteSetTheorems, WellFoundedInduction, TLAPS

-----------------------------------------------------------------------------
(* What the variants share, by its own name; these names are always expanded. *)
NumBG == Original!NumBG
Remote(b) == Original!Remote(b)
MaxCycle == Original!MaxCycle

FROM_CLIENT == Original!FROM_CLIENT
FETCHED_RESULT == Original!FETCHED_RESULT
LOCAL_CONNECTIVITY == Original!LOCAL_CONNECTIVITY
LOCAL_MEMBERSHIP == Original!LOCAL_MEMBERSHIP
FULL_MEMBERSHIP == Original!FULL_MEMBERSHIP

Kind == Original!Kind
Entry == Original!Entry
Request == Original!Request
Response == Original!Response
States == Original!States
Status == Original!Status
Unknown == Original!Unknown
StageOf(t) == Original!StageOf(t)

SlotFree(b) == Original!SlotFree(b)
NextEnvoy(rr) == Original!NextEnvoy(rr)
Work(t, c, origin) == Original!Work(t, c, origin)
SendPending(b, work) == Original!SendPending(b, work)
SendBatch(b) == Original!SendBatch(b)
SpawnRound2(b, work) == Original!SpawnRound2(b, work)
Queue(b, work) == Original!Queue(b, work)
CanCommit(n) == Original!CanCommit(n)
Finally(n, work) == Original!Finally(n, work)
SetStatus(n, c, s) == Original!SetStatus(n, c, s)
IsPrimaryEnvoy(n, envoy) == Original!IsPrimaryEnvoy(n, envoy)
ResponseTo(m) == Original!ResponseTo(m)
PendingResponses(n, kind, c) == Original!PendingResponses(n, kind, c)
NoLongerWaiting(n, kind, c) == Original!NoLongerWaiting(n, kind, c)
EnvoyRequests(n, kind, c, pick) == Original!EnvoyRequests(n, kind, c, pick)
AskAndAnswer(n, kind, c, asks) == Original!AskAndAnswer(n, kind, c, asks)
CommitLocal(n, e, t, kind, state) == Original!CommitLocal(n, e, t, kind, state)
Reply(m) == Original!Reply(m)
KeepWaiting(m) == Original!KeepWaiting(m)
IsReady(m) == Original!IsReady(m)
Counted(m, s) == Original!Counted(m, s)
LastAnswer(s) == Original!LastAnswer(s)

USE DEF NumBG, Remote, MaxCycle, FROM_CLIENT, FETCHED_RESULT, LOCAL_CONNECTIVITY, LOCAL_MEMBERSHIP,
        FULL_MEMBERSHIP, Kind, Entry, Request, Response, States, Status, Unknown, StageOf,
        SlotFree, NextEnvoy, Work, SendPending, SendBatch, SpawnRound2, Queue, CanCommit, Finally,
        SetStatus, IsPrimaryEnvoy, ResponseTo, PendingResponses, NoLongerWaiting, EnvoyRequests,
        AskAndAnswer, CommitLocal, Reply, KeepWaiting, IsReady, Counted, LastAnswer,
        SL, Node, Cycle, Leader, Known

-----------------------------------------------------------------------------
(* Entry e is what the requests of type t are about in cycle c.               *)
Is(e, t, c) == e.requestType = t /\ e.cycle = c
Same(e, f) == Is(e, f.requestType, f.cycle)

(* Such an entry is among the first k of group b's log, has been applied by   *)
(* SL n, or is in the log or on its way there.                                *)
Before(b, k, t, c) == \E i \in 1..k : Is(log[b][i], t, c)
Has(n, t, c) == Before(n[1], applied[n], t, c)
InLog(b, t, c) == Before(b, Len(log[b]), t, c)
Planned(b, t, c) == InLog(b, t, c) \/ \E e \in pending[b] : Is(e, t, c)

(* SLs of a group apply its log in step, and the leader extends what it has   *)
(* applied.                                                                   *)
InStep(b) ==
    /\ \A s \in SL : applied[<<b, s>>] <= Len(log[b])
    /\ \A r, s \in SL : applied[<<b, s>>] <= applied[<<b, r>>] + 1
    /\ Len(log[b]) <= applied[Leader(b)] + 1

(* What has to come before an entry: the stages of a cycle follow each other. *)
(* Results do not go through the log, so that the connectivity comes after    *)
(* the batch, and the votes see to the results.                               *)
Enabled(b, k, e) ==
    /\ e.requestType # FETCHED_RESULT
    /\ e.requestType # FROM_CLIENT => Before(b, k, FROM_CLIENT, e.cycle)
    /\ e.requestType = LOCAL_MEMBERSHIP => Before(b, k, LOCAL_CONNECTIVITY, e.cycle)
    /\ e.requestType = FULL_MEMBERSHIP => Before(b, k, LOCAL_MEMBERSHIP, e.cycle)

Ordered(b) ==
    /\ \A i \in 1..Len(log[b]) : Enabled(b, i - 1, log[b][i])
    /\ \A e \in pending[b] : e.requestType # FROM_CLIENT /\ Enabled(b, Len(log[b]), e)

(* Nothing is sent out or planned twice.                                      *)
NoRepetition(b) ==
    /\ \A i, j \in 1..Len(log[b]) : Same(log[b][i], log[b][j]) => i = j
    /\ \A e \in pending[b] : \A i \in 1..Len(log[b]) : ~Same(log[b][i], e)
    /\ \A e, f \in pending[b] : Same(e, f) => e = f
    /\ \A c \in Cycle : InLog(b, FROM_CLIENT, c) => c < next_cycle[b]

(* Work waits only while an instance is open.                                 *)
NoIdleWork(b) == pending[b] # {} => ~SlotFree(b)

(* The log of a group.                                                        *)
LogOK(b) == InStep(b) /\ Ordered(b) /\ NoRepetition(b) /\ NoIdleWork(b)

(* SL n keeps the results of all groups of cycle c.                           *)
Complete(n, c) == status[n][c].slots["RESULT"] = BG

(* An SL votes for one entry more than it has applied at most, and applies    *)
(* what all SLs of the group have voted for.                                  *)
VotesOK(b) ==
    /\ \A s \in SL : /\ applied[<<b, s>>] <= voted[<<b, s>>]
                     /\ voted[<<b, s>>] <= applied[<<b, s>>] + 1
                     /\ voted[<<b, s>>] <= Len(log[b])
    /\ \A r, s \in SL : applied[<<b, s>>] <= voted[<<b, r>>]

(* An SL that has voted for the connectivity of a cycle has all results of    *)
(* the cycle, or has finished it.                                             *)
VoteOK(n) ==
    \A i \in 1..voted[n] : \A c \in Cycle :
        Is(log[n[1]][i], LOCAL_CONNECTIVITY, c) => Has(n, FULL_MEMBERSHIP, c) \/ Complete(n, c)

(* The stage of a cycle at an SL, read off the entries it has applied and the *)
(* results it has.                                                            *)
StateOf(n, c) ==
    IF ~Has(n, FROM_CLIENT, c) \/ Has(n, FULL_MEMBERSHIP, c) THEN "NONE"
    ELSE IF Has(n, LOCAL_MEMBERSHIP, c) THEN "REPLICATED_MEMBERSHIP"
    ELSE IF Has(n, LOCAL_CONNECTIVITY, c) THEN "REPLICATED_CONNECTIVITY"
    ELSE IF Complete(n, c) THEN "LOCAL_CONNECTIVITY"
    ELSE "REPLICATED_RESULTS"

(* The batch of cycle c in the log of group b names v as the first envoy.     *)
EnvoyIs(b, c, v) == \E i \in 1..Len(log[b]) : Is(log[b][i], FROM_CLIENT, c) /\ log[b][i].envoy = v

(* The answers an SL has of a cycle: its own group's with the entry of that   *)
(* stage.                                                                     *)
SlotsOK(n, c) ==
    LET b == n[1]
        slots == status[n][c].slots
    IN  /\ b \in slots["RESULT"]
        /\ Has(n, LOCAL_CONNECTIVITY, c) => slots["RESULT"] = BG
        /\ b \in slots["CONNECTIVITY"] <=> Has(n, LOCAL_CONNECTIVITY, c)
        /\ b \in slots["MEMBERSHIP"] <=> Has(n, LOCAL_MEMBERSHIP, c)
        /\ slots["CONNECTIVITY"] # {} => b \in slots["CONNECTIVITY"]
        /\ slots["MEMBERSHIP"] # {} => b \in slots["MEMBERSHIP"]

(* The number of other groups that have answered, and what the counter of a   *)
(* status says of it; results are not counted.                                *)
Filled(n, c, kind) == Cardinality(status[n][c].slots[kind] \ {n[1]})

CounterOf(n, c) ==
    CASE status[n][c].state = "REPLICATED_CONNECTIVITY" -> Filled(n, c, "CONNECTIVITY")
      [] status[n][c].state = "REPLICATED_MEMBERSHIP" -> Filled(n, c, "MEMBERSHIP")
      [] OTHER -> 0

(* The status of a cycle and the storage agree with the entries applied.      *)
StageOK(n, c) ==
    /\ status[n][c].state = StateOf(n, c)
    /\ status[n][c].state = "NONE" => status[n][c] = Unknown
    /\ status[n][c].state # "NONE" => SlotsOK(n, c) /\ EnvoyIs(n[1], c, status[n][c].envoy)
    /\ status[n][c].counter = CounterOf(n, c)
    /\ c \in storage[n] <=> Has(n, FULL_MEMBERSHIP, c)

(* The entry whose commit makes an SL ask for this kind of answer.            *)
AskType(k) == CASE k = "RESULT" -> FROM_CLIENT [] k = "CONNECTIVITY" -> LOCAL_CONNECTIVITY [] OTHER -> LOCAL_MEMBERSHIP

(* Some SL of group d has applied the entry.                                  *)
Some(d, t, c) == \E s \in SL : Has(<<d, s>>, t, c)

(* An SL keeps the results it has asked for itself; every other answer is     *)
(* kept by the leader of the group.                                           *)
Holds(n, k) == k = "RESULT" \/ n = Leader(n[1])

(* The questions whose answer n keeps have been asked: the results by n, the  *)
(* others by the envoy.                                                       *)
AskedFor(n, k, c) ==
    IF k = "RESULT" THEN Has(n, FROM_CLIENT, c)
    ELSE \E v \in SL : EnvoyIs(n[1], c, v) /\ Has(<<n[1], v>>, AskType(k), c)

(* SL n has the answer of group d.                                            *)
Have(n, d, k, c) == Has(n, FULL_MEMBERSHIP, c) \/ d \in status[n][c].slots[k]

(* The leader plans a stage of a cycle only with every answer of the stage    *)
(* before it.                                                                 *)
PlanOK(b, c) ==
    /\ Planned(b, LOCAL_CONNECTIVITY, c) =>
          Has(Leader(b), FROM_CLIENT, c) /\ \A d \in Remote(b) : Have(Leader(b), d, "RESULT", c)
    /\ Planned(b, LOCAL_MEMBERSHIP, c) =>
          Has(Leader(b), LOCAL_CONNECTIVITY, c) /\ \A d \in Remote(b) : Have(Leader(b), d, "CONNECTIVITY", c)
    /\ Planned(b, FULL_MEMBERSHIP, c) =>
          Has(Leader(b), LOCAL_MEMBERSHIP, c) /\ \A d \in Remote(b) : Have(Leader(b), d, "MEMBERSHIP", c)

(* An answer an SL has was asked for, and some SL of the other group was able *)
(* to give it.                                                                *)
HaveOK(n, d, k, c) == Have(n, d, k, c) => AskedFor(n, k, c) /\ Some(d, AskType(k), c)

(* What is in flight: messages, and requests kept until the SL has the        *)
(* answer.                                                                    *)
KeptBy(n, w) == [type |-> "KEPT", kind |-> w[1], cycle |-> w[2], from |-> w[3], to |-> n]
Flight == net \union UNION {{KeptBy(n, w) : w \in waiting[n]} : n \in Node}

(* The SL that waits for an answer, the one that will keep it, and the group  *)
(* that is asked.                                                             *)
Asker(x) == IF x.type = "RESPONSE" THEN x.to ELSE x.from
Holder(x) == IF x.kind = "RESULT" THEN Asker(x) ELSE Leader(Asker(x)[1])
Askee(x) == IF x.type = "RESPONSE" THEN x.bg ELSE x.to[1]
SameQuestion(x, y) == x.kind = y.kind /\ x.cycle = y.cycle /\ Holder(x) = Holder(y) /\ Askee(x) = Askee(y)

(* A question in flight was asked, its answer is not there yet, and an answer *)
(* was given by a group that has it.                                          *)
FlightOK(x) ==
    /\ Askee(x) \in Remote(Holder(x)[1])
    /\ AskedFor(Holder(x), x.kind, x.cycle)
    /\ ~Have(Holder(x), Askee(x), x.kind, x.cycle)
    /\ x.type = "RESPONSE" => Some(Askee(x), AskType(x.kind), x.cycle)

(* No question is in flight twice, as a request, a kept request or an         *)
(* answer.                                                                    *)
AskedOnce == \A x, y \in Flight : SameQuestion(x, y) => x = y

(* The inductive invariant.                                                   *)
IInv ==
    /\ TypeOK
    /\ \A b \in BG : LogOK(b) /\ VotesOK(b)
    /\ \A n \in Node : VoteOK(n)
    /\ \A n \in Node, c \in Cycle : StageOK(n, c)
    /\ \A b \in BG, c \in Cycle : PlanOK(b, c)
    /\ \A n \in Node, c \in Cycle, k \in Kind : \A d \in Remote(n[1]) : Holds(n, k) => HaveOK(n, d, k, c)
    /\ \A x \in Flight : FlightOK(x)
    /\ AskedOnce

-----------------------------------------------------------------------------
(* The groups are counted alike in both modules.                              *)
LEMMA Count == NumBG = Cardinality(BG)
  <1>1. Original!Cardinality(BG) = Cardinality(BG)
    BY DEF Original!Cardinality, Cardinality
  <1> QED
    BY <1>1 DEF Original!NumBG

(* A finite set of groups has one with the most batches.                      *)
LEMMA MostBatches == \E b \in BG : \A a \in BG : Batches[a] <= Batches[b]
  <1> DEFINE Without == {U \in SUBSET BG : U # {} /\ ~\E b \in U : \A a \in U : Batches[a] <= Batches[b]}
  <1> SUFFICES ASSUME Without # {} PROVE FALSE
    <2>1. BG # {}
      BY SizeAssumption, FS_EmptySet
    <2> QED
      BY <2>1
  <1>1. FiniteSubsetsOf(BG) = SUBSET BG
    BY SizeAssumption, FS_FiniteSubsetsOfFinite
  <1>2. IsWellFoundedOn(StrictSubsetOrdering(BG), SUBSET BG)
    BY <1>1, FS_StrictSubsetOrderingWellFounded
  <1>3. PICK U \in Without : \A V \in Without : ~(<<V, U>> \in StrictSubsetOrdering(BG))
    <2> HIDE DEF Without
    <2>1. Without \subseteq SUBSET BG
      BY DEF Without
    <2> QED
      BY <1>2, <2>1, WFMin
  <1>4. PICK x \in U : TRUE
    OBVIOUS
  <1> DEFINE V == U \ {x}
  <1>5. <<V, U>> \in StrictSubsetOrdering(BG)
    BY DEF StrictSubsetOrdering
  <1>6. V \notin Without /\ V \in SUBSET BG
    BY <1>3, <1>5
  <1>7. \A b \in BG : Batches[b] \in Nat
    BY BatchesAssumption
  <1>8. CASE V = {}
    BY <1>7, <1>8
  <1>9. CASE V # {}
    <2>1. PICK m \in V : \A a \in V : Batches[a] <= Batches[m]
      BY <1>6, <1>9
    <2>2. CASE Batches[x] <= Batches[m]
      BY <2>1, <2>2
    <2>3. CASE Batches[m] < Batches[x]
      BY <1>7, <2>1, <2>3
    <2> QED
      BY <1>7, <2>2, <2>3
  <1> QED
    BY <1>8, <1>9

(* MaxCycle is a number and bounds the batches of every group.                *)
LEMMA MaxCycleBound == MaxCycle \in Nat /\ \A b \in BG : Batches[b] <= MaxCycle
  <1>1. \E c \in {Batches[b] : b \in BG} : \A b \in BG : Batches[b] <= c
    BY MostBatches
  <1>2. /\ MaxCycle \in {Batches[b] : b \in BG}
        /\ \A b \in BG : Batches[b] <= MaxCycle
    BY <1>1 DEF Original!MaxCycle
  <1> QED
    BY <1>2, BatchesAssumption

(* SL 0 leads, a group has others, an SL is its group and its number.          *)
LEMMA Groups ==
    /\ 0 \in SL /\ FirstEnvoy \in SL /\ \A rr \in SL : NextEnvoy(rr) \in SL
    /\ \A b \in BG : Leader(b) \in Node /\ Leader(b)[1] = b
    /\ \A b \in BG, s \in SL : <<b, s>> \in Node /\ <<b, s>>[1] = b /\ <<b, s>>[2] = s
    /\ \A n \in Node : n[1] \in BG /\ n[2] \in SL /\ n = <<n[1], n[2]>>
    /\ \A b \in BG : Remote(b) # {} /\ Remote(b) \subseteq BG /\ b \notin Remote(b)
  <1>1. 0 \in SL /\ NumSL \in Nat \ {0} /\ NumEnvoys \in Nat
    BY SizeAssumption, EnvoysAssumption DEF Original!SL
  <1>2. \A x \in Int : x % NumSL \in SL
    BY <1>1 DEF Original!SL
  <1>3. FirstEnvoy \in SL
    <2>1. PICK k \in 0..NumSL : FirstEnvoy = (k * NumEnvoys) % NumSL
      BY FirstEnvoyAssumption
    <2> DEFINE x == k * NumEnvoys
    <2>2. x \in Int
      BY <1>1
    <2> QED
      BY <1>2, <2>1, <2>2
  <1>4. \A rr \in SL : NextEnvoy(rr) \in SL
    BY <1>1, <1>2 DEF Original!NextEnvoy, Original!SL
  <1>5. \A b \in BG : Remote(b) # {}
    <2> SUFFICES ASSUME NEW b \in BG, Remote(b) = {} PROVE FALSE
      OBVIOUS
    <2>1. BG = {b}
      BY DEF Original!Remote
    <2>2. Cardinality(BG) = 1
      BY <2>1, FS_Singleton
    <2> QED
      BY <2>2, SizeAssumption
  <1> QED
    BY <1>1, <1>3, <1>4, <1>5 DEF Original!Node, Original!Leader, Original!Remote

(* The counter of answers, compared with NumBG - 1, is about the other groups. *)
LEMMA Answers ==
    ASSUME NEW b \in BG, NEW S \in SUBSET BG
    PROVE  /\ Cardinality(S \ {b}) \in 0..(NumBG - 1)
           /\ S = {b} => Cardinality(S \ {b}) = 0
           /\ S = {} => Cardinality(S \ {b}) = 0
           /\ Cardinality(S \ {b}) = NumBG - 1 <=> Remote(b) \subseteq S
           /\ Cardinality((S \union {b}) \ {b}) = Cardinality(S \ {b})
           /\ \A d \in Remote(b) : d \notin S =>
                 Cardinality((S \union {d}) \ {b}) = Cardinality(S \ {b}) + 1
  <1>1. IsFiniteSet(Remote(b)) /\ Cardinality(Remote(b)) = NumBG - 1
    BY SizeAssumption, Count, FS_RemoveElement DEF Original!Remote
  <1>2. S \ {b} \in SUBSET Remote(b)
    BY DEF Original!Remote
  <1>3. /\ IsFiniteSet(S \ {b})
        /\ Cardinality(S \ {b}) <= NumBG - 1
        /\ Cardinality(S \ {b}) = NumBG - 1 => Remote(b) = S \ {b}
    BY <1>1, <1>2, FS_Subset
  <1>4. Cardinality(S \ {b}) \in Nat /\ NumBG \in Nat
    BY <1>3, SizeAssumption, Count, FS_CardinalityType
  <1>5. S = {b} \/ S = {} => S \ {b} = {}
    OBVIOUS
  <1>6. Remote(b) \subseteq S => S \ {b} = Remote(b)
    BY DEF Original!Remote
  <1>7. (S \union {b}) \ {b} = S \ {b}
    OBVIOUS
  <1>8. ASSUME NEW d \in Remote(b), d \notin S
        PROVE  Cardinality((S \union {d}) \ {b}) = Cardinality(S \ {b}) + 1
    <2>1. (S \union {d}) \ {b} = (S \ {b}) \union {d}
      BY DEF Original!Remote
    <2> QED
      BY <1>3, <1>8, <2>1, FS_AddElement
  <1>9. Cardinality({}) = 0
    BY FS_EmptySet
  <1>10. Cardinality(S \ {b}) \in 0..(NumBG - 1)
    BY <1>3, <1>4
  <1> QED
    BY <1>1, <1>3, <1>5, <1>6, <1>7, <1>8, <1>9, <1>10
-----------------------------------------------------------------------------
(* The part of the state that is the groups' logs and schedulers.              *)
LogTypes ==
    /\ log \in [BG -> Seq(Entry)]
    /\ applied \in [Node -> Nat]
    /\ pending \in [BG -> SUBSET Entry]
    /\ next_cycle \in [BG -> 1..(MaxCycle + 1)]
    /\ envoys_rr \in [BG -> SL]

(* Work that group b may plan: of a stage that is due, and not planned before. *)
WorkOK(b, work) ==
    /\ work \in SUBSET Entry
    /\ pending[b] \subseteq work
    /\ \A e \in work : /\ e.requestType # FROM_CLIENT
                       /\ Enabled(b, Len(log[b]), e)
                       /\ \A i \in 1..Len(log[b]) : ~Same(log[b][i], e)
    /\ \A e, f \in work : Same(e, f) => e = f

(* What every handler of SL n, if it is the leader of b or not, leaves behind: *)
(* the work is in the queue, or the slot was free and an entry is sent out.    *)
Sched(b, work) ==
    \/ /\ pending' = [pending EXCEPT ![b] = work]
       /\ work # {} => applied'[Leader(b)] # Len(log[b])
       /\ UNCHANGED <<log, next_cycle, envoys_rr>>
    \/ /\ applied'[Leader(b)] = Len(log[b])
       /\ \/ work # {} /\ SendPending(b, work)
          \/ work = {} /\ SendBatch(b) /\ pending' = [pending EXCEPT ![b] = {}]

(* SL n, or nobody, applies the next entry of its group's log.                 *)
Applies(n) == CanCommit(n) /\ applied' = [applied EXCEPT ![n] = @ + 1]
NextEntry(n) == log[n[1]][applied[n] + 1]

(* What group b sends out, if anything.                                        *)
Sends(b, work, e) ==
    /\ log'[b] = Append(log[b], e)
    /\ applied'[Leader(b)] = Len(log[b])
    /\ pending'[b] = work \ {e}
    /\ Enabled(b, Len(log[b]), e)
    /\ \A i \in 1..Len(log[b]) : ~Same(log[b][i], e)
    /\ \/ e \in work /\ next_cycle'[b] = next_cycle[b]
       \/ /\ work = {} /\ e.requestType = FROM_CLIENT /\ e.cycle = next_cycle[b]
          /\ next_cycle'[b] = next_cycle[b] + 1

Keeps(b, work) ==
    /\ log'[b] = log[b] /\ pending'[b] = work /\ next_cycle'[b] = next_cycle[b]
    /\ work # {} => applied'[Leader(b)] # Len(log[b])

(* The scheduler of a group keeps the types and touches no other group; it    *)
(* either queues the work or sends one entry.                                 *)
LEMMA SchedEffect ==
    ASSUME LogTypes, NEW b \in BG, LogOK(b), NEW work, WorkOK(b, work), Sched(b, work),
           applied' \in [Node -> Nat]
    PROVE  /\ LogTypes'
           /\ \A a \in BG \ {b} : /\ log'[a] = log[a] /\ pending'[a] = pending[a]
                                  /\ next_cycle'[a] = next_cycle[a]
           /\ Keeps(b, work) \/ \E e \in Entry : Sends(b, work, e)
  <1>1. CASE /\ pending' = [pending EXCEPT ![b] = work]
             /\ work # {} => applied'[Leader(b)] # Len(log[b])
             /\ UNCHANGED <<log, next_cycle, envoys_rr>>
    <2>1. LogTypes'
      BY <1>1 DEF LogTypes, WorkOK
    <2> QED
      BY <1>1, <2>1 DEF LogTypes, Keeps
  <1>2. CASE applied'[Leader(b)] = Len(log[b]) /\ work # {} /\ SendPending(b, work)
    <2>1. PICK e \in work : /\ log' = [log EXCEPT ![b] = Append(@, e)]
                            /\ pending' = [pending EXCEPT ![b] = work \ {e}]
                            /\ UNCHANGED <<next_cycle, envoys_rr>>
      BY <1>2 DEF Original!SendPending, Original!Top
    <2>2. e \in Entry
      BY DEF WorkOK
    <2>3. LogTypes'
      BY <2>1, <2>2 DEF LogTypes, WorkOK
    <2>4. Sends(b, work, e)
      BY <1>2, <2>1 DEF Sends, LogTypes, WorkOK
    <2> QED
      BY <2>1, <2>2, <2>3, <2>4 DEF LogTypes
  <1>3. CASE /\ applied'[Leader(b)] = Len(log[b]) /\ work = {} /\ SendBatch(b)
             /\ pending' = [pending EXCEPT ![b] = {}]
    <2> DEFINE e == [requestType |-> FROM_CLIENT, cycle |-> next_cycle[b], origin |-> b,
                     envoy |-> envoys_rr[b]]
    <2>1. /\ log' = [log EXCEPT ![b] = Append(@, e)]
          /\ next_cycle' = [next_cycle EXCEPT ![b] = @ + 1]
          /\ envoys_rr' = [envoys_rr EXCEPT ![b] = NextEnvoy(@)]
          /\ next_cycle[b] <= Batches[b]
      BY <1>3 DEF Original!SendBatch
    <2>2. next_cycle[b] \in Cycle /\ next_cycle[b] + 1 \in 1..(MaxCycle + 1)
      <3>1. /\ Batches[b] \in Nat /\ MaxCycle \in Nat /\ Batches[b] <= MaxCycle
            /\ next_cycle[b] \in 1..(MaxCycle + 1)
        BY MaxCycleBound, BatchesAssumption DEF LogTypes
      <3> QED
        BY <2>1, <3>1 DEF Original!Cycle
    <2>3. e \in Entry
      BY <2>2 DEF LogTypes, Original!Entry, Original!RequestType
    <2>4. LogTypes'
      BY <1>3, <2>1, <2>2, <2>3, Groups, SMTT(30) DEF LogTypes
    <2>5. Enabled(b, Len(log[b]), e)
      BY DEF Enabled, Original!FROM_CLIENT, Original!FETCHED_RESULT, Original!LOCAL_CONNECTIVITY, Original!LOCAL_MEMBERSHIP, Original!FULL_MEMBERSHIP
    <2>6. ASSUME NEW i \in 1..Len(log[b]), Same(log[b][i], e) PROVE FALSE
      <3>1. InLog(b, FROM_CLIENT, next_cycle[b])
        BY <2>6 DEF InLog, Before, Same, Is, Original!FROM_CLIENT, Original!FETCHED_RESULT
      <3> QED
        BY <2>2, <3>1 DEF LogOK, NoRepetition, LogTypes
    <2>7. Sends(b, work, e)
      BY <1>3, <2>1, <2>5, <2>6 DEF Sends, LogTypes
    <2> QED
      BY <1>3, <2>1, <2>3, <2>4, <2>7 DEF LogTypes
  <1> QED
    BY <1>1, <1>2, <1>3 DEF Sched

(* Entries stay where they are.                                                *)
LogGrows == \A a \in BG : /\ Len(log[a]) <= Len(log'[a])
                          /\ \A i \in 1..Len(log[a]) : log'[a][i] = log[a][i]

(* Either way the logs only grow.                                             *)
LEMMA SchedGrows ==
    ASSUME LogTypes, NEW b \in BG, NEW work,
           \A a \in BG \ {b} : log'[a] = log[a],
           Keeps(b, work) \/ \E e \in Entry : Sends(b, work, e)
    PROVE  LogGrows
  <1>1. CASE Keeps(b, work)
    <2>1. \A a \in BG : log'[a] = log[a] /\ Len(log[a]) \in Nat
      BY <1>1 DEF Keeps, LogTypes
    <2> QED
      BY <2>1 DEF LogGrows
  <1>2. ASSUME NEW e \in Entry, Sends(b, work, e) PROVE LogGrows
    <2>1. log[b] \in Seq(Entry) /\ log'[b] = Append(log[b], e)
      BY <1>2 DEF LogTypes, Sends
    <2>2. Len(log'[b]) = Len(log[b]) + 1 /\ \A i \in 1..Len(log[b]) : log'[b][i] = log[b][i]
      BY <2>1
    <2>3. \A a \in BG \ {b} : log'[a] = log[a] /\ Len(log[a]) \in Nat
      BY DEF LogTypes
    <2> QED
      BY <2>1, <2>2, <2>3 DEF LogGrows
  <1> QED
    BY <1>1, <1>2

(* So what came before an entry still does, and an entry is enabled as before. *)
LEMMA BeforeStays ==
    ASSUME LogTypes, LogGrows, NEW a \in BG, NEW k \in 0..Len(log[a])
    PROVE  /\ \A t, c : Before(a, k, t, c)' <=> Before(a, k, t, c)
           /\ \A e : Enabled(a, k, e)' <=> Enabled(a, k, e)
  <1>1. \A t, c : Before(a, k, t, c)' <=> Before(a, k, t, c)
    <2>1. \A i \in 1..k : log'[a][i] = log[a][i]
      BY DEF LogGrows, LogTypes
    <2> QED
      BY <2>1 DEF Before, Is
  <1> QED
    BY <1>1 DEF Enabled

(* What is among the first k entries is among the first l, for l >= k.        *)
LEMMA MoreBefore ==
    ASSUME NEW a \in BG, NEW k \in Nat, NEW l \in Nat, k <= l
    PROVE  /\ \A t, c : Before(a, k, t, c) => Before(a, l, t, c)
           /\ \A t, c : Before(a, k, t, c)' => Before(a, l, t, c)'
           /\ \A e : Enabled(a, k, e) => Enabled(a, l, e)
           /\ \A e : Enabled(a, k, e)' => Enabled(a, l, e)'
  <1>1. /\ \A t, c : Before(a, k, t, c) => Before(a, l, t, c)
        /\ \A t, c : Before(a, k, t, c)' => Before(a, l, t, c)'
    BY DEF Before
  <1> QED
    BY <1>1 DEF Enabled

(* A step of the logs: the leader of b plans and sends, an SL of b applies.    *)
LogStep(b, work) ==
    /\ LogTypes'
    /\ \A a \in BG \ {b} : /\ log'[a] = log[a] /\ pending'[a] = pending[a]
                           /\ next_cycle'[a] = next_cycle[a]
    /\ Keeps(b, work) \/ \E e \in Entry : Sends(b, work, e)
    /\ applied' = applied \/ \E n \in Node : n[1] = b /\ Applies(n)

(* An SL that applies the next entry when nobody is behind it keeps the SLs   *)
(* of its group in step.                                                      *)
LEMMA AppliedStep ==
    ASSUME LogTypes, NEW b \in BG, InStep(b),
           applied' = applied \/ \E n \in Node : n[1] = b /\ Applies(n)
    PROVE  /\ applied' \in [Node -> Nat]
           /\ \A a \in BG \ {b} : \A s \in SL : applied'[<<a, s>>] = applied[<<a, s>>]
           /\ \A s \in SL : applied[<<b, s>>] <= applied'[<<b, s>>] /\ applied'[<<b, s>>] <= Len(log[b])
           /\ \A r, s \in SL : applied'[<<b, s>>] <= applied'[<<b, r>>] + 1
  <1>1. CASE applied' = applied
    <2>1. \A s \in SL : applied[<<b, s>>] \in Nat
      BY Groups DEF LogTypes
    <2> QED
      BY <1>1, <2>1 DEF LogTypes, InStep
  <1>2. ASSUME NEW n \in Node, n[1] = b, Applies(n)
        PROVE  /\ applied' \in [Node -> Nat]
               /\ \A a \in BG \ {b} : \A s \in SL : applied'[<<a, s>>] = applied[<<a, s>>]
               /\ \A s \in SL : applied[<<b, s>>] <= applied'[<<b, s>>] /\ applied'[<<b, s>>] <= Len(log[b])
               /\ \A r, s \in SL : applied'[<<b, s>>] <= applied'[<<b, r>>] + 1
    <2>1. /\ n[2] \in SL /\ n = <<b, n[2]>>
          /\ applied[n] < Len(log[b])
          /\ \A s \in SL : applied[<<b, s>>] >= applied[n]
          /\ applied' = [applied EXCEPT ![n] = @ + 1]
          /\ applied[n] \in Nat /\ Len(log[b]) \in Nat
      BY <1>2, Groups DEF Applies, Original!CanCommit, LogTypes
    <2>2. applied' \in [Node -> Nat] /\ applied'[n] = applied[n] + 1
      BY <2>1 DEF LogTypes
    <2>3. \A a \in BG, s \in SL : <<a, s>> # n => applied'[<<a, s>>] = applied[<<a, s>>]
      BY <2>1, Groups DEF LogTypes
    <2>4. \A a \in BG, s \in SL : applied[<<a, s>>] \in Nat
      BY Groups DEF LogTypes
    <2>5. \A a \in BG \ {b}, s \in SL : <<a, s>> # n
      BY <2>1
    <2>6. \A s \in SL : <<b, s>> = n \/ applied'[<<b, s>>] = applied[<<b, s>>]
      BY <2>3
    <2>7. \A r, s \in SL : applied[<<b, s>>] <= applied[<<b, r>>] + 1 /\ applied[<<b, s>>] <= Len(log[b])
      BY DEF InStep
    <2>8. \A s \in SL : applied[<<b, s>>] <= applied'[<<b, s>>] /\ applied'[<<b, s>>] <= Len(log[b])
      BY <2>1, <2>2, <2>4, <2>6, <2>7
    <2>9. \A r, s \in SL : applied'[<<b, s>>] <= applied'[<<b, r>>] + 1
      BY <2>1, <2>2, <2>4, <2>6, <2>7
    <2> QED
      BY <2>2, <2>3, <2>5, <2>8, <2>9
  <1> QED
    BY <1>1, <1>2

(* A step of the log keeps the SLs of the group in step.                      *)
LEMMA LogStepInStep ==
    ASSUME LogTypes, NEW b \in BG, InStep(b), NEW work, LogStep(b, work)
    PROVE  InStep(b)' /\ Len(log[b]) <= Len(log'[b])
  <1>1. /\ \A s \in SL : applied[<<b, s>>] <= applied'[<<b, s>>] /\ applied'[<<b, s>>] <= Len(log[b])
        /\ \A r, s \in SL : applied'[<<b, s>>] <= applied'[<<b, r>>] + 1
        /\ applied' \in [Node -> Nat]
    BY AppliedStep DEF LogStep
  <1>2. /\ Leader(b) \in Node /\ Leader(b) = <<b, 0>> /\ 0 \in SL
        /\ \A s \in SL : <<b, s>> \in Node
    BY Groups DEF Original!Leader
  <1>3. Len(log[b]) \in Nat /\ Len(log[b]) <= applied[Leader(b)] + 1
    BY DEF LogTypes, InStep
  <1>4. CASE Keeps(b, work)
    BY <1>1, <1>2, <1>3, <1>4 DEF Keeps, InStep, LogTypes
  <1>5. ASSUME NEW e \in Entry, Sends(b, work, e) PROVE InStep(b)' /\ Len(log[b]) <= Len(log'[b])
    <2>1. Len(log'[b]) = Len(log[b]) + 1 /\ applied'[Leader(b)] = Len(log[b])
      BY <1>5 DEF Sends, LogTypes
    <2> QED
      BY <1>1, <1>2, <1>3, <2>1 DEF InStep
  <1> QED
    BY <1>4, <1>5 DEF LogStep

(* A step of the log keeps the order of the stages, repeats nothing and       *)
(* leaves no work idle.                                                       *)
LEMMA LogStepOrdered ==
    ASSUME LogTypes, NEW b \in BG, LogOK(b), NEW work, WorkOK(b, work), LogStep(b, work)
    PROVE  Ordered(b)' /\ NoRepetition(b)' /\ NoIdleWork(b)'
  <1>1. LogGrows
    BY SchedGrows DEF LogStep
  <1>2. PICK k \in Nat : k = Len(log[b])
    BY DEF LogTypes
  <1>3. /\ \A j \in 0..k : \A e : Enabled(b, j, e)' <=> Enabled(b, j, e)
        /\ \A c : Before(b, k, FROM_CLIENT, c)' <=> Before(b, k, FROM_CLIENT, c)
    BY <1>1, <1>2, BeforeStays
  <1>4. \A i \in 1..k : log'[b][i] = log[b][i] /\ Enabled(b, i - 1, log[b][i])
    BY <1>1, <1>2 DEF LogGrows, LogOK, Ordered
  <1>5. \A i \in 1..k : Enabled(b, i - 1, log[b][i])'
    <2> SUFFICES ASSUME NEW i \in 1..k, NEW e, e = log'[b][i] PROVE Enabled(b, i - 1, e)'
      OBVIOUS
    <2>1. i - 1 \in 0..k
      BY <1>2
    <2> QED
      BY <1>3, <1>4, <2>1
  <1>6. CASE Keeps(b, work)
    <2>1. log'[b] = log[b] /\ pending'[b] = work
      BY <1>6 DEF Keeps
    <2>2. Ordered(b)'
      BY <1>2, <1>3, <1>5, <2>1 DEF Ordered, WorkOK
    <2>3. NoRepetition(b)'
      BY <1>2, <1>3, <1>6, <2>1 DEF NoRepetition, LogOK, WorkOK, InLog, Keeps
    <2>4. NoIdleWork(b)'
      BY <1>6 DEF Keeps, NoIdleWork, Original!SlotFree
    <2> QED
      BY <2>2, <2>3, <2>4
  <1>7. ASSUME NEW e \in Entry, Sends(b, work, e)
        PROVE  Ordered(b)' /\ NoRepetition(b)' /\ NoIdleWork(b)'
    <2>1. /\ log'[b] = Append(log[b], e) /\ pending'[b] = work \ {e}
          /\ Enabled(b, k, e)
          /\ \A i \in 1..k : ~Same(log[b][i], e)
          /\ applied'[Leader(b)] = k
      BY <1>2, <1>7 DEF Sends
    <2>2. Len(log'[b]) = k + 1 /\ log'[b][k + 1] = e
      BY <1>2, <2>1 DEF LogTypes
    <2>3. \A f : Enabled(b, k, f) => Enabled(b, k, f)' /\ Enabled(b, k + 1, f)'
      BY <1>2, <1>3, MoreBefore
    <2>4. Ordered(b)'
      <3>1. \A i \in 1..(k + 1) : i \in 1..k \/ (i = k + 1 /\ i - 1 = k)
        BY <1>2
      <3>2. \A i \in 1..(k + 1) : Enabled(b, i - 1, log[b][i])'
        BY <1>5, <2>1, <2>2, <2>3, <3>1
      <3> QED
        BY <2>1, <2>2, <2>3, <3>2 DEF Ordered, WorkOK
    <2>5. \A i, j \in 1..(k + 1) : Same(log'[b][i], log'[b][j]) => i = j
      <3>1. \A i \in 1..(k + 1) : i \in 1..k \/ i = k + 1
        BY <1>2
      <3>2. \A i, j \in 1..k : Same(log[b][i], log[b][j]) => i = j
        BY <1>2 DEF LogOK, NoRepetition
      <3>3. \A i \in 1..k : ~Same(e, log[b][i])
        BY <2>1 DEF Same, Is
      <3> QED
        BY <1>4, <2>1, <2>2, <3>1, <3>2, <3>3
    <2>6. \A f \in work \ {e} : \A i \in 1..(k + 1) : ~Same(log'[b][i], f)
      <3> SUFFICES ASSUME NEW f \in work \ {e}, NEW i \in 1..(k + 1), Same(log'[b][i], f) PROVE FALSE
        OBVIOUS
      <3>1. CASE i \in 1..k
        BY <1>2, <1>4, <3>1 DEF WorkOK
      <3>2. CASE i = k + 1
        <4>1. e \in work
          BY <1>7 DEF Sends
        <4> QED
          BY <2>2, <3>2, <4>1 DEF WorkOK
      <3> QED
        BY <1>2, <3>1, <3>2
    <2>7. ASSUME NEW c \in Cycle, InLog(b, FROM_CLIENT, c)' PROVE c < next_cycle'[b]
      <3>1. PICK i \in 1..(k + 1) : Is(log'[b][i], FROM_CLIENT, c)
        BY <2>2, <2>7 DEF InLog, Before, Is
      <3>2. next_cycle[b] \in Nat /\ next_cycle'[b] \in Nat /\ next_cycle[b] <= next_cycle'[b]
        BY <1>7 DEF LogTypes, LogStep, Sends
      <3>3. CASE i \in 1..k
        <4>1. InLog(b, FROM_CLIENT, c)
          BY <1>2, <1>4, <3>1, <3>3 DEF InLog, Before
        <4>2. c < next_cycle[b] /\ c \in Nat
          BY <4>1, MaxCycleBound DEF LogOK, NoRepetition, Original!Cycle
        <4> QED
          BY <3>2, <4>2
      <3>4. CASE i = k + 1
        <4>1. e.requestType = FROM_CLIENT /\ e.cycle = c
          BY <2>2, <3>1, <3>4 DEF Is
        <4>2. e.cycle = next_cycle[b] /\ next_cycle'[b] = next_cycle[b] + 1
          BY <1>7, <4>1 DEF Sends, WorkOK
        <4> QED
          BY <3>2, <4>1, <4>2
      <3> QED
        BY <1>2, <3>3, <3>4
    <2>8. NoRepetition(b)'
      BY <2>1, <2>2, <2>5, <2>6, <2>7 DEF NoRepetition, WorkOK
    <2>9. NoIdleWork(b)'
      BY <1>2, <2>1, <2>2 DEF NoIdleWork, Original!SlotFree
    <2> QED
      BY <2>4, <2>8, <2>9
  <1> QED
    BY <1>6, <1>7 DEF LogStep

(* The two together, and the other groups do not change.                      *)
LEMMA LogStepOK ==
    ASSUME LogTypes, \A a \in BG : LogOK(a), NEW b \in BG, NEW work, WorkOK(b, work), LogStep(b, work)
    PROVE  \A a \in BG : LogOK(a)'
  <1>1. LogOK(b)'
    BY LogStepInStep, LogStepOrdered DEF LogOK
  <1>2. ASSUME NEW a \in BG \ {b} PROVE LogOK(a)'
    <2>1. log'[a] = log[a] /\ pending'[a] = pending[a] /\ next_cycle'[a] = next_cycle[a]
      BY DEF LogStep
    <2>2. \A s \in SL : applied'[<<a, s>>] = applied[<<a, s>>]
      BY AppliedStep DEF LogOK, LogStep
    <2>3. Leader(a) = <<a, 0>> /\ 0 \in SL
      BY Groups DEF Original!Leader
    <2>4. InStep(a)'
      BY <2>1, <2>2, <2>3 DEF LogOK, InStep
    <2>5. \A k : \A e : Enabled(a, k, e)' <=> Enabled(a, k, e)
      BY <2>1 DEF Enabled, Before, Is
    <2>6. Ordered(a)'
      BY <2>1, <2>5 DEF Ordered, LogOK
    <2>7. \A c : InLog(a, FROM_CLIENT, c)' <=> InLog(a, FROM_CLIENT, c)
      BY <2>1 DEF InLog, Before, Is
    <2>8. NoRepetition(a)'
      BY <2>1, <2>7 DEF LogOK, NoRepetition
    <2>9. NoIdleWork(a)'
      BY <2>1, <2>2, <2>3 DEF LogOK, NoIdleWork, Original!SlotFree
    <2> QED
      BY <2>4, <2>6, <2>8, <2>9 DEF LogOK
  <1> QED
    BY <1>1, <1>2

(* What is planned, and what is known of the logs, only grows; only the work   *)
(* handed over and a batch of the clients are new.                             *)
LEMMA PlannedStep ==
    ASSUME LogTypes, NEW b \in BG, NEW work, WorkOK(b, work), LogStep(b, work),
           NEW a \in BG, NEW t, NEW c, NEW v
    PROVE  /\ InLog(a, t, c) => InLog(a, t, c)'
           /\ EnvoyIs(a, c, v) => EnvoyIs(a, c, v)'
           /\ t # FROM_CLIENT =>
                 (Planned(a, t, c)' <=>
                     Planned(a, t, c) \/ (a = b /\ \E e \in work : Is(e, t, c)))
  <1>1. LogGrows
    BY SchedGrows DEF LogStep
  <1>2. PICK k \in Nat : k = Len(log[a])
    BY DEF LogTypes
  <1>3. \A i \in 1..k : log'[a][i] = log[a][i] /\ i \in 1..Len(log'[a])
    BY <1>1, <1>2 DEF LogGrows, LogTypes, LogStep
  <1>4. InLog(a, t, c) => InLog(a, t, c)'
    BY <1>2, <1>3 DEF InLog, Before, Is
  <1>5. EnvoyIs(a, c, v) => EnvoyIs(a, c, v)'
    BY <1>2, <1>3 DEF EnvoyIs, Is
  <1>6. ASSUME a # b
        PROVE  Planned(a, t, c)' <=> Planned(a, t, c)
    <2>1. log'[a] = log[a] /\ pending'[a] = pending[a]
      BY <1>6 DEF LogStep
    <2> QED
      BY <2>1 DEF Planned, InLog, Before, Is
  <1>7. ASSUME a = b, Keeps(b, work)
        PROVE  Planned(a, t, c)' <=> Planned(a, t, c) \/ \E e \in work : Is(e, t, c)
    <2>1. log'[a] = log[a] /\ pending'[a] = work /\ pending[a] \subseteq work
      BY <1>7 DEF Keeps, WorkOK
    <2> QED
      BY <2>1 DEF Planned, InLog, Before, Is
  <1>8. ASSUME a = b, t # FROM_CLIENT, NEW e \in Entry, Sends(b, work, e)
        PROVE  Planned(a, t, c)' <=> Planned(a, t, c) \/ \E f \in work : Is(f, t, c)
    <2>1. /\ log'[a] = Append(log[a], e) /\ pending'[a] = work \ {e} /\ pending[a] \subseteq work
          /\ e \in work \/ (work = {} /\ e.requestType = FROM_CLIENT)
      BY <1>8 DEF Sends, WorkOK
    <2>2. Len(log'[a]) = k + 1 /\ log'[a][k + 1] = e
      BY <1>2, <2>1 DEF LogTypes
    <2>3. InLog(a, t, c)' <=> InLog(a, t, c) \/ Is(e, t, c)
      <3>1. \A i \in 1..(k + 1) : i \in 1..k \/ i = k + 1
        BY <1>2
      <3>2. k + 1 \in 1..(k + 1) /\ \A i \in 1..k : i \in 1..(k + 1)
        BY <1>2
      <3> QED
        BY <1>2, <1>3, <2>2, <3>1, <3>2 DEF InLog, Before, Is
    <2>4. e \notin work => ~Is(e, t, c)
      BY <1>8, <2>1 DEF Is
    <2> QED
      BY <2>1, <2>3, <2>4 DEF Planned, Is
  <1> QED
    BY <1>4, <1>5, <1>6, <1>7, <1>8 DEF LogStep

(* SL m knows what it knew, and if it applies an entry, that entry.            *)
LEMMA HasStep ==
    ASSUME LogTypes, \A a \in BG : LogOK(a), NEW b \in BG, NEW work, LogStep(b, work),
           NEW m \in Node, NEW t, NEW c
    PROVE  /\ Has(m, t, c) => Has(m, t, c)'
           /\ applied' = applied => (Has(m, t, c)' <=> Has(m, t, c))
           /\ \A n \in Node : Applies(n) =>
                 (Has(m, t, c)' <=> Has(m, t, c) \/ (m = n /\ Is(NextEntry(n), t, c)))
  <1>1. LogGrows
    BY SchedGrows DEF LogStep
  <1>2. m[1] \in BG /\ m[2] \in SL /\ m = <<m[1], m[2]>>
    BY Groups
  <1>3. applied[m] \in 0..Len(log[m[1]]) /\ Len(log[m[1]]) \in Nat
    BY <1>2 DEF LogTypes, LogOK, InStep
  <1>4. PICK k \in Nat : k = applied[m]
    BY <1>3
  <1>5. \A i \in 1..Len(log[m[1]]) : log'[m[1]][i] = log[m[1]][i]
    BY <1>1, <1>2 DEF LogGrows
  <1>6. ASSUME applied'[m] = applied[m]
        PROVE  Has(m, t, c)' <=> Has(m, t, c)
    BY <1>3, <1>5, <1>6, SMTT(30) DEF Has, Before, Is
  <1>7. ASSUME NEW n \in Node, Applies(n)
        PROVE  Has(m, t, c)' <=> Has(m, t, c) \/ (m = n /\ Is(NextEntry(n), t, c))
    <2>1. CASE m = n
      <3>1. applied'[m] = k + 1 /\ k + 1 \in 1..Len(log[m[1]])
        BY <1>3, <1>4, <1>7, <2>1 DEF Applies, Original!CanCommit, LogTypes
      <3>2. \A i \in 1..(k + 1) : i \in 1..k \/ i = k + 1
        BY <1>4
      <3>3. k + 1 \in 1..(k + 1) /\ \A i \in 1..k : i \in 1..(k + 1)
        BY <1>4
      <3>4. \A i \in 1..(k + 1) : i \in 1..Len(log[m[1]])
        BY <1>3, <3>1
      <3>5. NextEntry(n) = log[m[1]][k + 1]
        BY <1>4, <2>1 DEF NextEntry
      <3>6. Has(m, t, c)' <=> \E i \in 1..(k + 1) : Is(log[m[1]][i], t, c)
        BY <1>5, <3>1, <3>4 DEF Has, Before, Is
      <3>7. Has(m, t, c) <=> \E i \in 1..k : Is(log[m[1]][i], t, c)
        BY <1>4 DEF Has, Before
      <3> QED
        BY <2>1, <3>2, <3>3, <3>5, <3>6, <3>7
    <2>2. CASE m # n
      <3>1. applied'[m] = applied[m]
        BY <1>7, <2>2 DEF Applies, LogTypes
      <3> QED
        BY <1>6, <2>2, <3>1
    <2> QED
      BY <2>1, <2>2
  <1>8. applied' = applied => (Has(m, t, c)' <=> Has(m, t, c))
    BY <1>6
  <1> QED
    BY <1>7, <1>8 DEF LogStep
-----------------------------------------------------------------------------
(* An SL that has applied an entry of a cycle has applied those before it.     *)
LEMMA Chain ==
    ASSUME LogTypes, \A a \in BG : LogOK(a), NEW n \in Node, NEW c
    PROVE  /\ Has(n, FULL_MEMBERSHIP, c) => Has(n, LOCAL_MEMBERSHIP, c)
           /\ Has(n, LOCAL_MEMBERSHIP, c) => Has(n, LOCAL_CONNECTIVITY, c)
           /\ ~Has(n, FETCHED_RESULT, c)
           /\ Has(n, LOCAL_CONNECTIVITY, c) => Has(n, FROM_CLIENT, c)
  <1>1. n[1] \in BG /\ n = <<n[1], n[2]>> /\ n[2] \in SL
    BY Groups
  <1>2. PICK k \in Nat : k = applied[n] /\ k <= Len(log[n[1]])
    BY <1>1 DEF LogTypes, LogOK, InStep
  <1>3. ASSUME NEW t, Has(n, t, c)
        PROVE  \E e : Is(e, t, c) /\ Enabled(n[1], k, e)
    <2>1. PICK i \in 1..k : Is(log[n[1]][i], t, c)
      BY <1>2, <1>3 DEF Has, Before
    <2>2. i \in 1..Len(log[n[1]]) /\ i - 1 \in Nat /\ i - 1 <= k
      BY <1>1, <1>2 DEF LogTypes
    <2>3. Enabled(n[1], i - 1, log[n[1]][i])
      BY <1>1, <2>2 DEF LogOK, Ordered
    <2>4. Enabled(n[1], k, log[n[1]][i])
      BY <1>1, <2>2, <2>3, MoreBefore
    <2> QED
      BY <2>1, <2>4
  <1>4. \A t : Before(n[1], k, t, c) <=> Has(n, t, c)
    BY <1>2 DEF Has
  <1> QED
    BY <1>3, <1>4 DEF Enabled, Is, Original!FROM_CLIENT, Original!FETCHED_RESULT, Original!LOCAL_CONNECTIVITY,
         Original!LOCAL_MEMBERSHIP, Original!FULL_MEMBERSHIP

(* When one SL of a group has applied an entry, all have applied the entries   *)
(* before it.                                                                  *)
LEMMA GroupChain ==
    ASSUME LogTypes, \A a \in BG : LogOK(a), NEW d \in BG, NEW c, NEW n \in Node, n[1] = d
    PROVE  /\ Some(d, LOCAL_CONNECTIVITY, c) => Has(n, FROM_CLIENT, c)
           /\ Some(d, LOCAL_MEMBERSHIP, c) => Has(n, LOCAL_CONNECTIVITY, c)
           /\ Some(d, FULL_MEMBERSHIP, c) => Has(n, LOCAL_MEMBERSHIP, c)
  <1>1. n = <<d, n[2]>> /\ n[2] \in SL
    BY Groups
  <1>2. PICK k \in Nat : k = applied[n]
    BY DEF LogTypes
  <1>3. ASSUME NEW t, Some(d, t, c)
        PROVE  \E e : Is(e, t, c) /\ Enabled(d, k, e)
    <2>1. PICK s \in SL : Has(<<d, s>>, t, c)
      BY <1>3 DEF Some
    <2>2. PICK i \in 1..applied[<<d, s>>] : Is(log[d][i], t, c)
      BY <2>1, Groups DEF Has, Before
    <2>3. /\ applied[<<d, s>>] \in Nat /\ applied[<<d, s>>] <= Len(log[d])
          /\ applied[<<d, s>>] <= k + 1 /\ Len(log[d]) \in Nat
      BY <1>1, <1>2, Groups DEF LogTypes, LogOK, InStep
    <2>4. i \in 1..Len(log[d]) /\ i - 1 \in Nat /\ i - 1 <= k
      BY <1>2, <2>3
    <2>5. Enabled(d, i - 1, log[d][i])
      BY <2>4 DEF LogOK, Ordered
    <2>6. Enabled(d, k, log[d][i])
      BY <2>4, <2>5, MoreBefore
    <2> QED
      BY <2>2, <2>6
  <1>4. \A t : Before(d, k, t, c) <=> Has(n, t, c)
    BY <1>2 DEF Has
  <1>5. \A e, t : Is(e, t, c) => e.requestType = t /\ e.cycle = c
    BY DEF Is
  <1>6. Some(d, LOCAL_CONNECTIVITY, c) => Has(n, FROM_CLIENT, c)
    BY <1>3, <1>4, <1>5 DEF Enabled, Original!FROM_CLIENT, Original!LOCAL_CONNECTIVITY
  <1>7. Some(d, LOCAL_MEMBERSHIP, c) => Has(n, LOCAL_CONNECTIVITY, c)
    BY <1>3, <1>4, <1>5 DEF Enabled
  <1>8. Some(d, FULL_MEMBERSHIP, c) => Has(n, LOCAL_MEMBERSHIP, c)
    BY <1>3, <1>4, <1>5 DEF Enabled
  <1> QED
    BY <1>6, <1>7, <1>8

(* What an SL has applied is in the log, and so was planned.                   *)
LEMMA HasIsPlanned ==
    ASSUME LogTypes, \A a \in BG : LogOK(a), NEW n \in Node, NEW t, NEW c
    PROVE  /\ Has(n, t, c) => InLog(n[1], t, c) /\ Planned(n[1], t, c)
           /\ Has(n, t, c) => Some(n[1], t, c)
           /\ Some(n[1], t, c) => InLog(n[1], t, c) /\ Planned(n[1], t, c)
  <1>1. n[1] \in BG /\ n = <<n[1], n[2]>> /\ n[2] \in SL
    BY Groups
  <1>2. ASSUME NEW m \in Node, Has(m, t, c) PROVE InLog(m[1], t, c)
    <2>1. m[1] \in BG /\ m = <<m[1], m[2]>> /\ m[2] \in SL
      BY Groups
    <2>2. applied[m] \in Nat /\ applied[m] <= Len(log[m[1]]) /\ Len(log[m[1]]) \in Nat
      BY <2>1 DEF LogTypes, LogOK, InStep
    <2> QED
      BY <1>2, <2>2 DEF Has, Before, InLog
  <1>3. Some(n[1], t, c) => InLog(n[1], t, c)
    BY <1>1, <1>2, Groups DEF Some
  <1> QED
    BY <1>1, <1>2, <1>3 DEF Some, Planned

(* The entry an SL applies next is new to it, and what it builds on is not.     *)
LEMMA NextIsNew ==
    ASSUME LogTypes, \A a \in BG : LogOK(a), NEW n \in Node, CanCommit(n)
    PROVE  /\ NextEntry(n) \in Entry
           /\ ~Has(n, NextEntry(n).requestType, NextEntry(n).cycle)
           /\ Enabled(n[1], applied[n], NextEntry(n))
           /\ InLog(n[1], NextEntry(n).requestType, NextEntry(n).cycle)
  <1>1. n[1] \in BG /\ n = <<n[1], n[2]>> /\ n[2] \in SL
    BY Groups
  <1>2. PICK k \in Nat : k = applied[n]
    BY DEF LogTypes
  <1>3. k + 1 \in 1..Len(log[n[1]]) /\ log[n[1]] \in Seq(Entry) /\ Len(log[n[1]]) \in Nat
    BY <1>1, <1>2 DEF Original!CanCommit, LogTypes
  <1> DEFINE e == log[n[1]][k + 1]
  <1>4. NextEntry(n) = e /\ e \in Entry
    BY <1>2, <1>3 DEF NextEntry
  <1>5. \A i \in 1..k : ~Same(log[n[1]][i], e)
    <2> SUFFICES ASSUME NEW i \in 1..k, Same(log[n[1]][i], e) PROVE FALSE
      OBVIOUS
    <2>1. i \in 1..Len(log[n[1]]) /\ i # k + 1
      BY <1>2, <1>3
    <2> QED
      BY <1>1, <1>3, <2>1 DEF LogOK, NoRepetition
  <1>6. ~Has(n, e.requestType, e.cycle)
    BY <1>2, <1>5 DEF Has, Before, Same
  <1>7. Enabled(n[1], (k + 1) - 1, e)
    BY <1>1, <1>3 DEF LogOK, Ordered
  <1>8. InLog(n[1], e.requestType, e.cycle)
    BY <1>3 DEF InLog, Before, Is
  <1> QED
    BY <1>2, <1>4, <1>6, <1>7, <1>8

(* A group has one batch and so one choice of envoys for a cycle.              *)
LEMMA OneEnvoy ==
    ASSUME NEW b \in BG, LogOK(b), NEW c, NEW v, NEW w, EnvoyIs(b, c, v), EnvoyIs(b, c, w)
    PROVE  v = w
  BY DEF LogOK, NoRepetition, EnvoyIs, Same, Is, Original!FROM_CLIENT, Original!FETCHED_RESULT
-----------------------------------------------------------------------------
(* Votes.                                                                      *)
VoteTypes == voted \in [Node -> Nat] /\ \A b \in BG : VotesOK(b)

(* What all SLs of the group have voted for, nobody is too far behind to see   *)
(* applied.                                                                    *)
LEMMA CertifiedCanCommit ==
    ASSUME LogTypes, VoteTypes, NEW n \in Node, Certified(n)
    PROVE  CanCommit(n)
  <1>1. n[1] \in BG /\ n[2] \in SL /\ n = <<n[1], n[2]>> /\ \A s \in SL : <<n[1], s>> \in Node
    BY Groups
  <1>2. /\ \A s \in SL : applied[<<n[1], s>>] \in Nat /\ voted[<<n[1], s>>] \in Nat
        /\ applied[n] \in Nat /\ voted[n] \in Nat /\ Len(log[n[1]]) \in Nat
    BY <1>1 DEF LogTypes, VoteTypes
  <1>3. /\ \A s \in SL : voted[<<n[1], s>>] <= applied[<<n[1], s>>] + 1
        /\ voted[n] <= Len(log[n[1]])
    BY <1>1 DEF VoteTypes, VotesOK
  <1>4. applied[n] < voted[n] /\ \A s \in SL : voted[<<n[1], s>>] > applied[n]
    BY DEF Certified
  <1>5. \A s \in SL : applied[<<n[1], s>>] >= applied[n]
    BY <1>2, <1>3, <1>4
  <1>6. applied[n] < Len(log[n[1]])
    BY <1>2, <1>3, <1>4
  <1> QED
    BY <1>5, <1>6 DEF Original!CanCommit

(* An SL that applies the connectivity of a cycle has all results: it voted.   *)
LEMMA VoteBefore ==
    ASSUME LogTypes, VoteTypes, \A a \in BG : LogOK(a), NEW n \in Node, VoteOK(n),
           CanCommit(n), applied[n] < voted[n], NextEntry(n).requestType = LOCAL_CONNECTIVITY
    PROVE  Complete(n, NextEntry(n).cycle)
  <1> DEFINE e == NextEntry(n)
  <1>1. e \in Entry /\ ~Has(n, LOCAL_CONNECTIVITY, e.cycle)
    BY NextIsNew
  <1>2. e.cycle \in Cycle
    BY <1>1 DEF Original!Entry
  <1>3. applied[n] + 1 \in 1..voted[n] /\ Is(log[n[1]][applied[n] + 1], LOCAL_CONNECTIVITY, e.cycle)
    BY DEF LogTypes, VoteTypes, Is, NextEntry
  <1>4. ~Has(n, FULL_MEMBERSHIP, e.cycle)
    BY <1>1, Chain
  <1> QED
    BY <1>2, <1>3, <1>4 DEF VoteOK
-----------------------------------------------------------------------------
(* The status of a cycle at an SL.                                             *)
StatusTypes ==
    /\ status \in [Node -> [Cycle -> Status]]
    /\ storage \in [Node -> SUBSET Cycle]

(* A status changes its stage, its counter and one kind of slot.               *)
LEMMA StatusUpdate ==
    ASSUME NEW s \in Status, NEW st \in States, NEW k \in 0..NumBG, NEW kind \in Kind,
           NEW more \in SUBSET BG
    PROVE  /\ [s EXCEPT !.state = st, !.counter = k] \in Status
           /\ [s EXCEPT !.slots[kind] = @ \union more] \in Status
           /\ [s EXCEPT !.slots[kind] = @ \union more, !.counter = k] \in Status
           /\ [s EXCEPT !.state = st, !.counter = k, !.slots[kind] = @ \union more] \in Status
  <1>1. [s EXCEPT !.state = st, !.counter = k] \in Status
    BY DEF Original!Status
  <1>2. [s.slots EXCEPT ![kind] = @ \union more] \in [Kind -> SUBSET BG]
    BY DEF Original!Status
  <1>3. [s EXCEPT !.slots[kind] = @ \union more, !.counter = k] \in Status
    BY <1>2 DEF Original!Status
  <1>4. [s EXCEPT !.state = st, !.counter = k, !.slots[kind] = @ \union more] \in Status
    BY <1>2 DEF Original!Status
  <1>5. [s EXCEPT !.slots[kind] = @ \union more] \in Status
    BY <1>2 DEF Original!Status
  <1> QED
    BY <1>1, <1>3, <1>4, <1>5

(* What SL n has applied of cycle c after a step that applies entry e of it.   *)
AppliesOf(n, c, e) ==
    \A t : Has(n, t, c)' <=> Has(n, t, c) \/ Is(e, t, c)

(* The status of a cycle stays right when neither it nor what it depends on   *)
(* changes.                                                                   *)
LEMMA StageSame ==
    ASSUME NEW n \in Node, NEW c \in Cycle, StageOK(n, c),
           \A t : Has(n, t, c)' <=> Has(n, t, c),
           \A v : EnvoyIs(n[1], c, v) => EnvoyIs(n[1], c, v)',
           status'[n][c] = status[n][c], c \in storage'[n] <=> c \in storage[n]
    PROVE  StageOK(n, c)'
  <1>1. StateOf(n, c)' = StateOf(n, c)
    BY DEF StateOf, Complete
  <1>2. SlotsOK(n, c)' <=> SlotsOK(n, c)
    BY DEF SlotsOK
  <1>3. CounterOf(n, c)' = CounterOf(n, c)
    BY DEF CounterOf, Filled
  <1>4. EnvoyIs(n[1], c, status[n][c].envoy) => EnvoyIs(n[1], c, status[n][c].envoy)'
    <2> SUFFICES ASSUME NEW v, v = status[n][c].envoy, EnvoyIs(n[1], c, v)
                 PROVE  EnvoyIs(n[1], c, status[n][c].envoy)'
      OBVIOUS
    <2>1. EnvoyIs(n[1], c, v)' /\ v = status'[n][c].envoy
      OBVIOUS
    <2> QED
      BY <2>1 DEF EnvoyIs
  <1> QED
    BY <1>1, <1>2, <1>3, <1>4 DEF StageOK

(* It stays right when the batch of the cycle is applied.                     *)
LEMMA StageFromClient ==
    ASSUME LogTypes, StatusTypes, \A a \in BG : LogOK(a), NEW n \in Node, NEW c \in Cycle,
           StageOK(n, c), CanCommit(n), NEW e, e = NextEntry(n), c = e.cycle,
           AppliesOf(n, c, e), e.requestType = FROM_CLIENT,
           EnvoyIs(n[1], c, e.envoy)',
           status'[n][c] = [Unknown EXCEPT !.state = "REPLICATED_RESULTS",
                                           !.slots["RESULT"] = {n[1]}, !.envoy = e.envoy],
           storage' = storage
    PROVE  StageOK(n, c)'
  <1>1. n[1] \in BG /\ Remote(n[1]) # {} /\ {n[1]} # BG
    BY Groups DEF Original!Remote
  <1>2. /\ ~Has(n, FROM_CLIENT, c) /\ ~Has(n, LOCAL_CONNECTIVITY, c)
        /\ ~Has(n, LOCAL_MEMBERSHIP, c) /\ ~Has(n, FULL_MEMBERSHIP, c)
    BY NextIsNew, Chain DEF Original!FROM_CLIENT, Original!FETCHED_RESULT
  <1>3. /\ Has(n, FROM_CLIENT, c)' /\ ~Has(n, LOCAL_CONNECTIVITY, c)'
        /\ ~Has(n, LOCAL_MEMBERSHIP, c)' /\ ~Has(n, FULL_MEMBERSHIP, c)'
    BY <1>2 DEF AppliesOf, Is, Original!FROM_CLIENT, Original!FETCHED_RESULT, Original!LOCAL_CONNECTIVITY,
         Original!LOCAL_MEMBERSHIP, Original!FULL_MEMBERSHIP
  <1> DEFINE s == status'[n][c]
  <1>4. /\ s.state = "REPLICATED_RESULTS" /\ s.counter = 0 /\ s.envoy = e.envoy
        /\ s.slots["RESULT"] = {n[1]} /\ s.slots["CONNECTIVITY"] = {} /\ s.slots["MEMBERSHIP"] = {}
    BY DEF Original!Unknown, Original!Kind
  <1>5. StateOf(n, c)' = "REPLICATED_RESULTS"
    BY <1>1, <1>3, <1>4 DEF StateOf, Complete
  <1>6. SlotsOK(n, c)'
    BY <1>3, <1>4 DEF SlotsOK
  <1>7. CounterOf(n, c)' = 0
    BY <1>1, <1>4, Answers DEF CounterOf, Filled
  <1>8. EnvoyIs(n[1], c, status[n][c].envoy)'
    BY <1>4 DEF EnvoyIs
  <1>9. c \notin storage'[n]
    BY <1>2 DEF StageOK
  <1> QED
    BY <1>3, <1>4, <1>5, <1>6, <1>7, <1>8, <1>9 DEF StageOK

(* The stage a cycle has to be in for a request of each type.                 *)
LEMMA Stages ==
    /\ StageOf(FETCHED_RESULT) = "REPLICATED_RESULTS"
    /\ StageOf(LOCAL_CONNECTIVITY) = "LOCAL_CONNECTIVITY"
    /\ StageOf(LOCAL_MEMBERSHIP) = "REPLICATED_CONNECTIVITY"
    /\ StageOf(FULL_MEMBERSHIP) = "REPLICATED_MEMBERSHIP"
  BY DEF Original!StageOf, Original!FETCHED_RESULT, Original!LOCAL_CONNECTIVITY, Original!LOCAL_MEMBERSHIP, Original!FULL_MEMBERSHIP

(* The state in which an entry finds its cycle.                                 *)
LEMMA StageBefore ==
    ASSUME LogTypes, \A a \in BG : LogOK(a), NEW n \in Node, CanCommit(n), NEW e, e = NextEntry(n)
    PROVE  LET c == e.cycle IN
           /\ e.requestType = FROM_CLIENT => StateOf(n, c) = "NONE" /\ ~Has(n, FULL_MEMBERSHIP, c)
           /\ e.requestType = LOCAL_CONNECTIVITY =>
                 StateOf(n, c) = IF Complete(n, c) THEN "LOCAL_CONNECTIVITY" ELSE "REPLICATED_RESULTS"
           /\ e.requestType \in {LOCAL_MEMBERSHIP, FULL_MEMBERSHIP} => StateOf(n, c) = StageOf(e.requestType)
           /\ e.requestType # FETCHED_RESULT
  <1> DEFINE c == e.cycle
  <1>1. /\ ~Has(n, e.requestType, c)
        /\ Enabled(n[1], applied[n], e)
    BY NextIsNew
  <1>2. \A t : Before(n[1], applied[n], t, c) <=> Has(n, t, c)
    BY DEF Has
  <1>3. /\ Has(n, FULL_MEMBERSHIP, c) => Has(n, LOCAL_MEMBERSHIP, c)
        /\ Has(n, LOCAL_MEMBERSHIP, c) => Has(n, LOCAL_CONNECTIVITY, c)
        /\ Has(n, LOCAL_CONNECTIVITY, c) => Has(n, FROM_CLIENT, c)
    BY Chain
  <1>4. CASE e.requestType = FROM_CLIENT
    BY <1>1, <1>3, <1>4 DEF StateOf, Enabled, Original!FROM_CLIENT, Original!LOCAL_CONNECTIVITY,
         Original!LOCAL_MEMBERSHIP, Original!FULL_MEMBERSHIP
  <1>5. CASE e.requestType = LOCAL_CONNECTIVITY
    <2>1. Has(n, FROM_CLIENT, c) /\ ~Has(n, LOCAL_CONNECTIVITY, c)
      BY <1>1, <1>2, <1>5 DEF Enabled, Original!FROM_CLIENT, Original!LOCAL_CONNECTIVITY
    <2>2. e.requestType \notin {FROM_CLIENT, FETCHED_RESULT, LOCAL_MEMBERSHIP, FULL_MEMBERSHIP}
      BY <1>5 DEF Original!FROM_CLIENT, Original!FETCHED_RESULT, Original!LOCAL_CONNECTIVITY,
           Original!LOCAL_MEMBERSHIP, Original!FULL_MEMBERSHIP
    <2> QED
      BY <1>3, <2>1, <2>2 DEF StateOf
  <1>6. CASE e.requestType = LOCAL_MEMBERSHIP
    <2>1. Has(n, FROM_CLIENT, c) /\ ~Has(n, LOCAL_MEMBERSHIP, c) /\ Has(n, LOCAL_CONNECTIVITY, c)
      BY <1>1, <1>2, <1>6 DEF Enabled, Original!FROM_CLIENT, Original!LOCAL_MEMBERSHIP
    <2>2. e.requestType \notin {FROM_CLIENT, FETCHED_RESULT, LOCAL_CONNECTIVITY, FULL_MEMBERSHIP}
      BY <1>6 DEF Original!FROM_CLIENT, Original!FETCHED_RESULT, Original!LOCAL_CONNECTIVITY,
           Original!LOCAL_MEMBERSHIP, Original!FULL_MEMBERSHIP
    <2> QED
      BY <1>3, <1>6, <2>1, <2>2, Stages DEF StateOf
  <1>7. CASE e.requestType = FULL_MEMBERSHIP
    <2>1. Has(n, FROM_CLIENT, c) /\ ~Has(n, FULL_MEMBERSHIP, c) /\ Has(n, LOCAL_MEMBERSHIP, c)
      BY <1>1, <1>2, <1>7 DEF Enabled, Original!FROM_CLIENT, Original!FULL_MEMBERSHIP
    <2>2. e.requestType \notin {FROM_CLIENT, FETCHED_RESULT, LOCAL_CONNECTIVITY, LOCAL_MEMBERSHIP}
      BY <1>7 DEF Original!FROM_CLIENT, Original!FETCHED_RESULT, Original!LOCAL_CONNECTIVITY,
           Original!LOCAL_MEMBERSHIP, Original!FULL_MEMBERSHIP
    <2> QED
      BY <1>3, <1>7, <2>1, <2>2, Stages DEF StateOf
  <1>8. e.requestType # FETCHED_RESULT /\ e.requestType \in {FROM_CLIENT, FETCHED_RESULT, LOCAL_CONNECTIVITY,
           LOCAL_MEMBERSHIP, FULL_MEMBERSHIP}
    BY <1>1, NextIsNew DEF Enabled, Original!Entry, Original!RequestType
  <1>9. FROM_CLIENT \notin {LOCAL_CONNECTIVITY, LOCAL_MEMBERSHIP, FULL_MEMBERSHIP}
        /\ LOCAL_CONNECTIVITY \notin {LOCAL_MEMBERSHIP, FULL_MEMBERSHIP}
    BY DEF Original!FROM_CLIENT, Original!LOCAL_CONNECTIVITY, Original!LOCAL_MEMBERSHIP, Original!FULL_MEMBERSHIP
  <1> QED
    BY <1>4, <1>5, <1>6, <1>7, <1>8, <1>9

(* The group's own answer of a kind is applied: nobody else's can be there yet. *)
Entered(s, state, kind, b) ==
    [s EXCEPT !.state = state, !.counter = 0, !.slots[kind] = @ \union {b}]

(* It stays right when the group's own connectivity or membership is          *)
(* applied.                                                                   *)
LEMMA StageLocal ==
    ASSUME LogTypes, StatusTypes, \A a \in BG : LogOK(a), NEW n \in Node, NEW c \in Cycle,
           StageOK(n, c), CanCommit(n), NEW e, e = NextEntry(n), c = e.cycle,
           AppliesOf(n, c, e), e.requestType = LOCAL_CONNECTIVITY => Complete(n, c),
           \A v : EnvoyIs(n[1], c, v) => EnvoyIs(n[1], c, v)',
           NEW s, s = status[n][c], NEW kind \in Kind, NEW state,
           \/ /\ e.requestType = LOCAL_CONNECTIVITY
              /\ kind = "CONNECTIVITY" /\ state = "REPLICATED_CONNECTIVITY"
           \/ /\ e.requestType = LOCAL_MEMBERSHIP
              /\ kind = "MEMBERSHIP" /\ state = "REPLICATED_MEMBERSHIP",
           status'[n][c] = Entered(s, state, kind, n[1]),
           storage' = storage
    PROVE  StageOK(n, c)' /\ status'[n][c] \in Status
  <1> DEFINE b == n[1]
             t == status'[n][c]
  <1>1. b \in BG
    BY Groups
  <1>2. s \in Status /\ NumBG \in Nat
    BY SizeAssumption, Count, FS_CardinalityType DEF StatusTypes
  <1>3. s.state = StageOf(e.requestType) /\ s.state = StateOf(n, c)
    BY StageBefore, Stages DEF StageOK, Original!FROM_CLIENT, Original!LOCAL_CONNECTIVITY, Original!LOCAL_MEMBERSHIP
  <1>4. /\ s.state # "NONE" /\ Has(n, FROM_CLIENT, c) /\ ~Has(n, FULL_MEMBERSHIP, c)
        /\ ~Has(n, LOCAL_MEMBERSHIP, c)
        /\ e.requestType = LOCAL_CONNECTIVITY => ~Has(n, LOCAL_CONNECTIVITY, c)
        /\ e.requestType = LOCAL_MEMBERSHIP => Has(n, LOCAL_CONNECTIVITY, c)
    BY <1>3, Stages DEF StateOf
  <1>5. /\ SlotsOK(n, c) /\ EnvoyIs(b, c, s.envoy) /\ s.slots[kind] = {}
        /\ s.slots["RESULT"] = BG
    BY <1>4 DEF StageOK, SlotsOK, Complete
  <1>6. /\ Has(n, FROM_CLIENT, c)' /\ ~Has(n, FULL_MEMBERSHIP, c)' /\ Has(n, LOCAL_CONNECTIVITY, c)'
        /\ Has(n, LOCAL_MEMBERSHIP, c)' <=> e.requestType = LOCAL_MEMBERSHIP
    BY <1>4 DEF AppliesOf, Is, Original!FROM_CLIENT, Original!FETCHED_RESULT, Original!LOCAL_CONNECTIVITY,
         Original!LOCAL_MEMBERSHIP, Original!FULL_MEMBERSHIP
  <1>7. /\ t.state = state /\ t.counter = 0 /\ t.envoy = s.envoy
        /\ t.slots[kind] = {b} /\ \A k \in Kind \ {kind} : t.slots[k] = s.slots[k]
    BY <1>2, <1>5 DEF Original!Status, Entered
  <1>8. StateOf(n, c)' = state
    BY <1>6 DEF StateOf, Original!LOCAL_CONNECTIVITY, Original!LOCAL_MEMBERSHIP
  <1>9. SlotsOK(n, c)'
    <2>1. kind # "RESULT" /\ t.slots["RESULT"] = BG
      BY <1>5, <1>7 DEF Original!Kind
    <2>2. CASE kind = "CONNECTIVITY"
      <3>1. ~Has(n, LOCAL_MEMBERSHIP, c)'
        BY <1>6, <2>2 DEF Original!LOCAL_CONNECTIVITY, Original!LOCAL_MEMBERSHIP
      <3>2. t.slots["MEMBERSHIP"] = {}
        <4>1. t.slots["MEMBERSHIP"] = s.slots["MEMBERSHIP"]
          BY <1>7, <2>2 DEF Original!Kind
        <4>2. s.slots["MEMBERSHIP"] = {}
          BY <1>4, <1>5 DEF SlotsOK
        <4> QED
          BY <4>1, <4>2
      <3> QED
        BY <1>1, <1>6, <1>7, <2>1, <2>2, <3>1, <3>2 DEF SlotsOK
    <2>3. CASE kind = "MEMBERSHIP"
      <3>1. Has(n, LOCAL_MEMBERSHIP, c)' /\ Has(n, LOCAL_CONNECTIVITY, c)
        BY <1>4, <1>6, <2>3
      <3>2. t.slots["CONNECTIVITY"] = s.slots["CONNECTIVITY"] /\ b \in s.slots["CONNECTIVITY"]
        BY <1>5, <1>7, <2>3, <3>1 DEF SlotsOK, Original!Kind
      <3> QED
        BY <1>1, <1>6, <1>7, <2>1, <2>3, <3>1, <3>2 DEF SlotsOK
    <2> QED
      BY <2>2, <2>3
  <1>10. CounterOf(n, c)' = 0
    BY <1>1, <1>7, Answers DEF CounterOf, Filled
  <1>11. EnvoyIs(n[1], c, status[n][c].envoy)'
    <2>1. EnvoyIs(n[1], c, s.envoy)' /\ status'[n][c].envoy = s.envoy
      BY <1>5, <1>7
    <2> QED
      BY <2>1 DEF EnvoyIs
  <1>12. t \in Status
    <2>1. state \in States /\ 0 \in 0..NumBG
      BY <1>2 DEF Original!States
    <2>2. [s EXCEPT !.state = state, !.counter = 0, !.slots[kind] = @ \union {b}] \in Status
      <3> HIDE DEF b
      <3>1. {b} \in SUBSET BG
        BY <1>1
      <3> QED
        BY <1>2, <2>1, <3>1, StatusUpdate
    <2> QED
      BY <2>2 DEF Entered
  <1>13. c \notin storage'[n]
    BY <1>4 DEF StageOK
  <1>14. state # "NONE"
    OBVIOUS
  <1> QED
    BY <1>6, <1>7, <1>8, <1>9, <1>10, <1>11, <1>12, <1>13, <1>14 DEF StageOK

(* It stays right when the full membership is applied and the cycle is        *)
(* finished.                                                                  *)
LEMMA StageFullMembership ==
    ASSUME LogTypes, StatusTypes, \A a \in BG : LogOK(a), NEW n \in Node, NEW c \in Cycle,
           StageOK(n, c), CanCommit(n), NEW e, e = NextEntry(n), c = e.cycle,
           AppliesOf(n, c, e), e.requestType = FULL_MEMBERSHIP,
           status'[n][c] = Unknown, storage' = [storage EXCEPT ![n] = @ \union {c}]
    PROVE  StageOK(n, c)'
  <1>1. Has(n, FULL_MEMBERSHIP, c)'
    BY DEF AppliesOf, Is, Original!FULL_MEMBERSHIP, Original!FETCHED_RESULT
  <1>2. StateOf(n, c)' = "NONE"
    BY <1>1 DEF StateOf
  <1>3. status'[n][c].state = "NONE" /\ status'[n][c].counter = 0 /\ c \in storage'[n]
    BY DEF Original!Unknown, StatusTypes
  <1>4. CounterOf(n, c)' = 0
    BY <1>3 DEF CounterOf
  <1> QED
    BY <1>1, <1>2, <1>3, <1>4 DEF StageOK, Original!Unknown

(* An answer of another group fills a slot and is counted.                      *)
LEMMA StageAnswer ==
    ASSUME StatusTypes, NEW n \in Node, NEW c \in Cycle, StageOK(n, c),
           \A t : Has(n, t, c)' <=> Has(n, t, c),
           \A v : EnvoyIs(n[1], c, v) => EnvoyIs(n[1], c, v)',
           NEW s, s = status[n][c], NEW kind, NEW d \in Remote(n[1]), d \notin s.slots[kind],
           \/ kind = "CONNECTIVITY" /\ s.state = "REPLICATED_CONNECTIVITY"
           \/ kind = "MEMBERSHIP" /\ s.state = "REPLICATED_MEMBERSHIP",
           status'[n][c] = [s EXCEPT !.slots[kind] = @ \union {d}, !.counter = @ + 1],
           storage' = storage
    PROVE  /\ StageOK(n, c)' /\ status'[n][c] \in Status
           /\ LastAnswer(s) <=> Remote(n[1]) \subseteq status'[n][c].slots[kind]
  <1> DEFINE b == n[1]
             t == status'[n][c]
             after == s.slots[kind] \union {d}
  <1>1. b \in BG /\ Remote(b) \subseteq BG /\ b # d /\ kind \in Kind
    BY Groups DEF Original!Remote, Original!Kind
  <1>2. s \in Status /\ NumBG \in Nat /\ s.slots[kind] \in SUBSET BG
    BY <1>1, SizeAssumption, Count, FS_CardinalityType DEF StatusTypes, Original!Status
  <1>3. /\ t.state = s.state /\ t.counter = s.counter + 1 /\ t.envoy = s.envoy
        /\ t.slots[kind] = after /\ \A k \in Kind \ {kind} : t.slots[k] = s.slots[k]
    BY <1>1, <1>2 DEF Original!Status
  <1>4. /\ s.state = StateOf(n, c) /\ SlotsOK(n, c) /\ EnvoyIs(b, c, s.envoy)
        /\ s.counter = Cardinality(s.slots[kind] \ {b})
    BY DEF StageOK, CounterOf, Filled
  <1>5. b \in s.slots[kind]
    BY <1>4 DEF SlotsOK, StateOf
  <1>6. /\ Cardinality(after \ {b}) = s.counter + 1 /\ s.counter + 1 \in 0..(NumBG - 1)
        /\ LastAnswer(s) <=> Remote(b) \subseteq after
    <2>1. after \in SUBSET BG
      BY <1>1, <1>2
    <2>2. Cardinality(after \ {b}) = Cardinality(s.slots[kind] \ {b}) + 1
      BY <1>1, <1>2, Answers
    <2>3. /\ Cardinality(after \ {b}) \in 0..(NumBG - 1)
          /\ Cardinality(after \ {b}) = NumBG - 1 <=> Remote(b) \subseteq after
      BY <1>1, <2>1, Answers
    <2> QED
      BY <1>4, <2>2, <2>3 DEF Original!LastAnswer
  <1>7. StateOf(n, c)' = s.state
    <2>1. Complete(n, c)' <=> Complete(n, c)
      BY <1>1, <1>3 DEF Complete, Original!Kind
    <2> QED
      BY <1>4, <2>1 DEF StateOf
  <1>8. SlotsOK(n, c)'
    BY <1>1, <1>3, <1>4, <1>5 DEF SlotsOK, Original!Kind
  <1>9. CounterOf(n, c)' = t.counter
    BY <1>3, <1>6 DEF CounterOf, Filled
  <1>10. EnvoyIs(n[1], c, status[n][c].envoy)'
    <2>1. EnvoyIs(n[1], c, s.envoy)' /\ status'[n][c].envoy = s.envoy
      BY <1>3, <1>4
    <2> QED
      BY <2>1 DEF EnvoyIs
  <1>11. t \in Status
    <2>1. s.counter + 1 \in 0..NumBG
      BY <1>2, <1>6
    <2>2. {d} \in SUBSET BG /\ "NONE" \in States
      BY <1>1 DEF Original!States
    <2>3. [s EXCEPT !.slots[kind] = @ \union {d}, !.counter = s.counter + 1] \in Status
      BY <1>1, <1>2, <2>1, <2>2, StatusUpdate
    <2> QED
      BY <2>3
  <1>12. s.state # "NONE" /\ c \notin storage[n] /\ ~Has(n, FULL_MEMBERSHIP, c)
    BY <1>4 DEF StageOK, StateOf
  <1> QED
    BY <1>3, <1>6, <1>7, <1>8, <1>9, <1>10, <1>11, <1>12 DEF StageOK
(* A result of another group fills a slot; the last one changes the state.     *)
Fetched(s, d) ==
    LET held == [s EXCEPT !.slots["RESULT"] = @ \union {d}]
    IN  IF held.slots["RESULT"] = BG THEN [held EXCEPT !.state = "LOCAL_CONNECTIVITY", !.counter = 0] ELSE held

(* A node's stage stays right when a result of another group arrives.         *)
LEMMA StageFetched ==
    ASSUME LogTypes, StatusTypes, \A a \in BG : LogOK(a), NEW n \in Node, NEW c \in Cycle, StageOK(n, c),
           \A t : Has(n, t, c)' <=> Has(n, t, c),
           \A v : EnvoyIs(n[1], c, v) => EnvoyIs(n[1], c, v)',
           NEW s, s = status[n][c], NEW d \in Remote(n[1]), d \notin s.slots["RESULT"], s.state # "NONE",
           status'[n][c] = Fetched(s, d), storage' = storage
    PROVE  /\ StageOK(n, c)' /\ status'[n][c] \in Status
           /\ Complete(n, c)' <=> Remote(n[1]) \subseteq status'[n][c].slots["RESULT"]
           /\ status'[n][c].slots["RESULT"] = s.slots["RESULT"] \union {d}
           /\ \A k \in Kind \ {"RESULT"} : status'[n][c].slots[k] = s.slots[k]
  <1> DEFINE b == n[1]
             after == s.slots["RESULT"] \union {d}
  <1>1. b \in BG /\ Remote(b) \subseteq BG /\ b # d /\ "RESULT" \in Kind
    BY Groups DEF Original!Remote, Original!Kind
  <1>2. s \in Status /\ NumBG \in Nat /\ s.slots["RESULT"] \in SUBSET BG
    BY <1>1, SizeAssumption, Count, FS_CardinalityType DEF StatusTypes, Original!Status
  <1>3. PICK t : t = status'[n][c]
    OBVIOUS
  <1>4. /\ t.state = (IF after = BG THEN "LOCAL_CONNECTIVITY" ELSE s.state)
        /\ t.counter = (IF after = BG THEN 0 ELSE s.counter) /\ t.envoy = s.envoy
        /\ t.slots["RESULT"] = after /\ \A k \in Kind \ {"RESULT"} : t.slots[k] = s.slots[k]
    BY <1>1, <1>2, <1>3, SMTT(30) DEF Original!Status, Fetched
  <1>5. /\ s.state = StateOf(n, c) /\ SlotsOK(n, c) /\ EnvoyIs(b, c, s.envoy)
        /\ s.slots["RESULT"] # BG
    BY <1>1 DEF StageOK
  <1>6. /\ Has(n, FROM_CLIENT, c) /\ ~Has(n, FULL_MEMBERSHIP, c)
        /\ ~Has(n, LOCAL_CONNECTIVITY, c) /\ ~Has(n, LOCAL_MEMBERSHIP, c)
    <2>1. Has(n, FROM_CLIENT, c) /\ ~Has(n, FULL_MEMBERSHIP, c) /\ ~Has(n, LOCAL_CONNECTIVITY, c)
      BY <1>5 DEF StateOf, SlotsOK
    <2> QED
      BY <2>1, Chain
  <1>7. s.state = "REPLICATED_RESULTS" /\ s.counter = 0
    BY <1>5, <1>6 DEF StateOf, StageOK, CounterOf, Complete
  <1>8. Complete(n, c)' <=> after = BG
    BY <1>3, <1>4 DEF Complete
  <1>9. StateOf(n, c)' = t.state
    BY <1>4, <1>6, <1>7, <1>8 DEF StateOf
  <1>10. SlotsOK(n, c)'
    BY <1>3, <1>4, <1>5, <1>6 DEF SlotsOK, Original!Kind
  <1>11. CounterOf(n, c)' = t.counter
    BY <1>3, <1>4, <1>7 DEF CounterOf
  <1>12. EnvoyIs(n[1], c, status[n][c].envoy)'
    <2>1. EnvoyIs(n[1], c, s.envoy)' /\ status'[n][c].envoy = s.envoy
      BY <1>3, <1>4, <1>5
    <2> QED
      BY <2>1 DEF EnvoyIs
  <1>13. t \in Status
    <2>1. "LOCAL_CONNECTIVITY" \in States /\ 0 \in 0..NumBG /\ {d} \in SUBSET BG
      BY <1>1, <1>2 DEF Original!States
    <2>2. PICK held : held = [s EXCEPT !.slots["RESULT"] = @ \union {d}]
      OBVIOUS
    <2>3. held \in Status
      BY <1>1, <1>2, <2>1, <2>2, StatusUpdate
    <2>4. [held EXCEPT !.state = "LOCAL_CONNECTIVITY", !.counter = 0] \in Status
      BY <1>1, <2>1, <2>3, StatusUpdate
    <2> QED
      BY <1>3, <2>2, <2>3, <2>4 DEF Fetched
  <1>14. c \notin storage[n] /\ t.state # "NONE"
    BY <1>4, <1>6, <1>7 DEF StageOK
  <1>15. StageOK(n, c)'
    BY <1>3, <1>6, <1>9, <1>10, <1>11, <1>12, <1>14 DEF StageOK
  <1>16. after = BG <=> Remote(b) \subseteq after
    BY <1>1, <1>2, <1>5 DEF Original!Remote, SlotsOK
  <1> QED
    BY <1>3, <1>4, <1>8, <1>13, <1>15, <1>16
-----------------------------------------------------------------------------
(* Questions between groups, sent or kept, and their answers.                   *)
MailTypes ==
    /\ waiting \in [Node -> SUBSET (Kind \X Cycle \X Node)]
    /\ net \subseteq (Request \union Response)

(* What is in flight, and the types of its parts.                             *)
LEMMA FlightMembers ==
    ASSUME MailTypes
    PROVE  /\ \A x : x \in Flight <=> x \in net \/ \E n \in Node : \E w \in waiting[n] : x = KeptBy(n, w)
           /\ \A x \in Flight : /\ x.kind \in Kind /\ x.cycle \in Cycle
                                /\ Asker(x) \in Node /\ Askee(x) \in BG
                                /\ Holder(x) \in Node /\ Holder(x)[1] \in BG /\ Holds(Holder(x), x.kind)
           /\ \A m \in net : /\ m.type \in {"REQUEST", "RESPONSE"} /\ m.to \in Node /\ m.to[1] \in BG
                             /\ m.type = "REQUEST" => m \in Request /\ m.from \in Node /\ m.from[1] \in BG
                             /\ m.type = "RESPONSE" => m \in Response /\ m.bg \in BG
           /\ \A n \in Node : \A w \in waiting[n] :
                 /\ KeptBy(n, w).type = "KEPT" /\ w \in Kind \X Cycle \X Node
                 /\ w[1] \in Kind /\ w[2] \in Cycle /\ w[3] \in Node /\ w[3][1] \in BG
  <1>1. \A x : x \in Flight <=> x \in net \/ \E n \in Node : \E w \in waiting[n] : x = KeptBy(n, w)
    BY DEF Flight
  <1>2. \A m \in net : /\ m.type \in {"REQUEST", "RESPONSE"} /\ m.to \in Node /\ m.kind \in Kind /\ m.cycle \in Cycle
                       /\ m.type = "REQUEST" => m \in Request /\ m.from \in Node
                       /\ m.type = "RESPONSE" => m \in Response /\ m.bg \in BG
    BY DEF MailTypes, Original!Request, Original!Response
  <1>3. \A m \in Node : m[1] \in BG
    BY Groups
  <1>4. \A n \in Node : \A w \in waiting[n] :
                 /\ KeptBy(n, w).type = "KEPT" /\ w \in Kind \X Cycle \X Node
                 /\ w[1] \in Kind /\ w[2] \in Cycle /\ w[3] \in Node
    BY DEF MailTypes, KeptBy
  <1>5. \A x \in Flight : x.kind \in Kind /\ x.cycle \in Cycle /\ Asker(x) \in Node /\ Askee(x) \in BG
    <2> SUFFICES ASSUME NEW x \in Flight
                 PROVE  x.kind \in Kind /\ x.cycle \in Cycle /\ Asker(x) \in Node /\ Askee(x) \in BG
      OBVIOUS
    <2>1. CASE x \in net
      BY <1>2, <1>3, <2>1 DEF Asker, Askee
    <2>2. ASSUME NEW n \in Node, NEW w \in waiting[n], x = KeptBy(n, w)
          PROVE  x.kind \in Kind /\ x.cycle \in Cycle /\ Asker(x) \in Node /\ Askee(x) \in BG
      BY <1>3, <1>4, <2>2 DEF KeptBy, Asker, Askee
    <2> QED
      BY <1>1, <2>1, <2>2
  <1>6. ASSUME NEW x, Asker(x) \in Node
        PROVE  Holder(x) \in Node /\ Holder(x)[1] \in BG /\ Holds(Holder(x), x.kind)
    BY <1>6, Groups DEF Holder, Holds
  <1> QED
    BY <1>1, <1>2, <1>3, <1>4, <1>5, <1>6

(* Who has asked and who has begun is never forgotten.                          *)
KnowledgeGrows ==
    /\ \A n \in Node : \A k, c : AskedFor(n, k, c) => AskedFor(n, k, c)'
    /\ \A d \in BG : \A t, c : Some(d, t, c) => Some(d, t, c)'

(* A step of the log takes nothing back of what is applied, asked or          *)
(* answered.                                                                  *)
LEMMA KnowledgeStep ==
    ASSUME LogTypes, \A a \in BG : LogOK(a), NEW b \in BG, NEW work, WorkOK(b, work), LogStep(b, work)
    PROVE  KnowledgeGrows
  <1>1. \A n \in Node : \A t, c : Has(n, t, c) => Has(n, t, c)'
    BY HasStep
  <1>2. \A a \in BG : \A c, v : EnvoyIs(a, c, v) => EnvoyIs(a, c, v)'
    BY PlannedStep
  <1>3. /\ \A a \in BG, s \in SL : <<a, s>> \in Node
        /\ \A n \in Node : n[1] \in BG
    BY Groups
  <1>4. \A n \in Node : \A k, c : AskedFor(n, k, c) => AskedFor(n, k, c)'
    BY <1>1, <1>2, <1>3 DEF AskedFor
  <1>5. \A d \in BG : \A t, c : Some(d, t, c) => Some(d, t, c)'
    BY <1>1, <1>3 DEF Some
  <1> QED
    BY <1>4, <1>5 DEF KnowledgeGrows

(* A question that stays open stays well asked.                                 *)
LEMMA FlightCarried ==
    ASSUME KnowledgeGrows, NEW x, Holder(x) \in Node, Askee(x) \in BG, FlightOK(x),
           ~Have(Holder(x), Askee(x), x.kind, x.cycle)'
    PROVE  FlightOK(x)'
  BY DEF KnowledgeGrows, FlightOK

(* One question moves on: from a request to a kept request or an answer, or    *)
(* from an envoy to its leader.                                                *)
LEMMA MoveOne ==
    ASSUME AskedOnce, NEW m \in Flight, NEW y, SameQuestion(y, m),
           \A z \in Flight' : (z \in Flight /\ z # m) \/ z = y
    PROVE  AskedOnce'
  BY DEF AskedOnce, SameQuestion
-----------------------------------------------------------------------------
(* Every handler is a step of the logs.                                         *)
LEMMA PendingIsWork ==
    ASSUME LogTypes, NEW b \in BG, LogOK(b)
    PROVE  WorkOK(b, pending[b])
  BY DEF LogTypes, LogOK, Ordered, NoRepetition, WorkOK

(* One more request may be queued when its predecessors are in the log and    *)
(* it is not planned yet.                                                     *)
LEMMA MoreWork ==
    ASSUME LogTypes, NEW b \in BG, LogOK(b), NEW f \in Entry, f.requestType # FROM_CLIENT,
           Enabled(b, Len(log[b]), f), ~Planned(b, f.requestType, f.cycle)
    PROVE  WorkOK(b, pending[b] \union {f})
  <1>1. \A i \in 1..Len(log[b]) : ~Same(log[b][i], f)
    BY DEF Planned, InLog, Before, Same
  <1>2. \A e \in pending[b] : ~Same(e, f) /\ ~Same(f, e)
    BY DEF Planned, Same, Is
  <1> QED
    BY <1>1, <1>2, PendingIsWork DEF WorkOK

(* What the scheduler does at the end of a handler is a step of the group's   *)
(* log.                                                                       *)
LEMMA SchedIsLogStep ==
    ASSUME LogTypes, NEW b \in BG, LogOK(b), NEW work, WorkOK(b, work), Sched(b, work),
           applied' = applied \/ \E n \in Node : n[1] = b /\ Applies(n)
    PROVE  LogStep(b, work)
  <1>1. applied' \in [Node -> Nat]
    BY AppliedStep DEF LogOK
  <1> QED
    BY <1>1, SchedEffect DEF LogStep

(* Queueing work from a handler that applies nothing is a step of the log.    *)
LEMMA QueueIsLogStep ==
    ASSUME LogTypes, NEW b \in BG, LogOK(b), NEW work, WorkOK(b, work), Queue(b, work),
           applied' = applied
    PROVE  LogStep(b, work)
  <1>1. Sched(b, work)
    BY DEF Original!Queue, Original!SpawnRound2, Original!SlotFree, Sched
  <1> QED
    BY <1>1, SchedIsLogStep

(* Leaving log and scheduler alone is a step of the log that does nothing.    *)
LEMMA IdleIsLogStep ==
    ASSUME LogTypes, NEW b \in BG, LogOK(b), UNCHANGED <<log, applied, scheduler>>
    PROVE  LogStep(b, pending[b])
  BY DEF LogStep, LogTypes, Keeps, LogOK, NoIdleWork, Original!SlotFree, scheduler

(* Receiving a batch of the clients is a step of the log.                     *)
LEMMA BatchIsLogStep ==
    ASSUME LogTypes, NEW b \in BG, LogOK(b), ReceiveBatch(b)
    PROVE  LogStep(b, pending[b])
  <1>1. Sched(b, pending[b])
    BY DEF ReceiveBatch, Original!ReceiveBatch, Original!SlotFree, Sched, LogTypes
  <1> QED
    BY <1>1, PendingIsWork, SchedIsLogStep DEF ReceiveBatch, Original!ReceiveBatch

(* The end of a commit is a step of the log, at the leader or at another SL.  *)
LEMMA FinallyIsLogStep ==
    ASSUME LogTypes, NEW n \in Node, LogOK(n[1]), CanCommit(n), NEW work, Finally(n, work),
           n = Leader(n[1]) => WorkOK(n[1], work)
    PROVE  /\ Applies(n)
           /\ n = Leader(n[1]) => LogStep(n[1], work)
           /\ n # Leader(n[1]) => LogStep(n[1], pending[n[1]])
  <1> DEFINE b == n[1]
  <1>1. b \in BG /\ Leader(b) \in Node /\ n = <<b, n[2]>> /\ n[2] \in SL
    BY Groups
  <1>2. Applies(n)
    BY DEF Original!Finally, Applies
  <1>3. ASSUME n = Leader(b) PROVE LogStep(b, work)
    <2>1. applied'[Leader(b)] = Len(log[b])
      BY <1>1, <1>3 DEF Original!Finally, Original!CanCommit, LogOK, InStep, LogTypes
    <2>2. Sched(b, work)
      BY <1>3, <2>1 DEF Original!Finally, Original!SpawnRound2, Sched
    <2> QED
      BY <1>1, <1>2, <1>3, <2>2, SchedIsLogStep
  <1>4. ASSUME n # Leader(b) PROVE LogStep(b, pending[b])
    <2>1. UNCHANGED <<log, pending, next_cycle, envoys_rr>> /\ applied'[Leader(b)] = applied[Leader(b)]
      BY <1>1, <1>4 DEF Original!Finally, LogTypes, Original!scheduler
    <2>2. Keeps(b, pending[b])
      BY <1>1, <2>1 DEF Keeps, LogOK, NoIdleWork, Original!SlotFree
    <2>3. applied' \in [Node -> Nat]
      BY <1>1, <1>2, AppliedStep DEF LogOK
    <2> QED
      BY <1>1, <1>2, <2>1, <2>2, <2>3 DEF LogStep, LogTypes
  <1> QED
    BY <1>2, <1>3, <1>4

(* What becomes planned is what the handler adds to the queue.                  *)
LEMMA PlannedPlus ==
    ASSUME LogTypes, NEW b \in BG, NEW extra, WorkOK(b, pending[b] \union extra),
           LogStep(b, pending[b] \union extra)
    PROVE  \A a \in BG : \A t, c : t # FROM_CLIENT =>
              (Planned(a, t, c)' <=>
                  Planned(a, t, c) \/ (a = b /\ \E e \in extra : Is(e, t, c)))
  <1> SUFFICES ASSUME NEW a \in BG, NEW t, NEW c, t # FROM_CLIENT
               PROVE  Planned(a, t, c)' <=>
                         Planned(a, t, c) \/ (a = b /\ \E e \in extra : Is(e, t, c))
    OBVIOUS
  <1>1. Planned(a, t, c)' <=>
           Planned(a, t, c) \/ (a = b /\ \E e \in pending[b] \union extra : Is(e, t, c))
    BY PlannedStep
  <1>2. (a = b /\ \E e \in pending[b] : Is(e, t, c)) => Planned(a, t, c)
    BY DEF Planned
  <1> QED
    BY <1>1, <1>2

(* The plans of a group for a cycle stay justified when nothing is added.       *)
LEMMA PlanCarried ==
    ASSUME NEW a \in BG, NEW c, PlanOK(a, c),
           \A t : Has(Leader(a), t, c) => Has(Leader(a), t, c)',
           \A t : t # FROM_CLIENT /\ Planned(a, t, c)' => Planned(a, t, c),
           \A d \in Remote(a), k \in Kind : Have(Leader(a), d, k, c) => Have(Leader(a), d, k, c)'
    PROVE  PlanOK(a, c)'
  <1>1. /\ "RESULT" \in Kind /\ "CONNECTIVITY" \in Kind /\ "MEMBERSHIP" \in Kind
        /\ \A t \in {LOCAL_CONNECTIVITY, LOCAL_MEMBERSHIP, FULL_MEMBERSHIP} : t # FROM_CLIENT
    BY DEF Original!Kind, Original!FROM_CLIENT, Original!LOCAL_CONNECTIVITY, Original!LOCAL_MEMBERSHIP, Original!FULL_MEMBERSHIP
  <1> QED
    BY <1>1 DEF PlanOK

(* The answers an SL has stay asked for and given.                              *)
LEMMA HaveCarried ==
    ASSUME KnowledgeGrows, NEW n \in Node, NEW d \in Remote(n[1]), NEW k, NEW c, HaveOK(n, d, k, c),
           Have(n, d, k, c)' => Have(n, d, k, c)
    PROVE  HaveOK(n, d, k, c)'
  BY DEF HaveOK, KnowledgeGrows, Original!Remote

(* The votes stay in step with the log when what is applied was voted for.      *)
LEMMA VotesCarried ==
    ASSUME LogTypes, VoteTypes, \A a \in BG : LogOK(a), NEW b \in BG, NEW work, LogStep(b, work),
           voted' = voted, \A n \in Node : applied' # applied /\ Applies(n) => Certified(n)
    PROVE  VoteTypes'
  <1>1. LogGrows
    BY SchedGrows DEF LogStep
  <1>2. /\ \A a \in BG, s \in SL : applied[<<a, s>>] \in Nat /\ voted[<<a, s>>] \in Nat
        /\ \A a \in BG : Len(log[a]) \in Nat /\ Len(log'[a]) \in Nat /\ Len(log[a]) <= Len(log'[a])
    <2>1. /\ \A a \in BG, s \in SL : <<a, s>> \in Node
          /\ \A n \in Node : applied[n] \in Nat /\ voted[n] \in Nat
          /\ log \in [BG -> Seq(Entry)] /\ log' \in [BG -> Seq(Entry)]
      BY Groups DEF LogTypes, VoteTypes, LogStep
    <2>2. \A a \in BG : Len(log[a]) \in Nat /\ Len(log'[a]) \in Nat /\ Len(log[a]) <= Len(log'[a])
      BY <1>1, <2>1 DEF LogGrows
    <2> QED
      BY <2>1, <2>2
  <1>3. \A a \in BG : VotesOK(a)
    BY DEF VoteTypes
  <1>4. ASSUME applied' = applied PROVE \A a \in BG : VotesOK(a)'
    BY <1>2, <1>3, <1>4 DEF VotesOK
  <1>5. ASSUME NEW n \in Node, Applies(n), Certified(n)
        PROVE  \A a \in BG : VotesOK(a)'
    <2>1. /\ n[1] \in BG /\ n[2] \in SL /\ n = <<n[1], n[2]>>
          /\ applied' = [applied EXCEPT ![n] = @ + 1]
          /\ applied[n] < voted[n] /\ \A s \in SL : voted[<<n[1], s>>] > applied[n]
          /\ applied[n] \in Nat
      BY <1>5, Groups DEF Applies, Certified, LogTypes
    <2>2. \A a \in BG, s \in SL : <<a, s>> # n => applied'[<<a, s>>] = applied[<<a, s>>]
      BY <2>1, Groups DEF LogTypes
    <2>3. applied'[n] = applied[n] + 1
      BY <2>1 DEF LogTypes
    <2> SUFFICES ASSUME NEW a \in BG PROVE VotesOK(a)'
      OBVIOUS
    <2>4. PICK la \in Nat, lb \in Nat : la = Len(log[a]) /\ lb = Len(log'[a]) /\ la <= lb
      BY <1>2
    <2>5. ASSUME NEW s \in SL
          PROVE  /\ applied'[<<a, s>>] <= voted[<<a, s>>]
                 /\ voted[<<a, s>>] <= applied'[<<a, s>>] + 1
                 /\ voted[<<a, s>>] <= Len(log'[a])
                 /\ \A r \in SL : applied'[<<a, s>>] <= voted[<<a, r>>]
      <3>1. /\ applied[<<a, s>>] <= voted[<<a, s>>]
            /\ voted[<<a, s>>] <= applied[<<a, s>>] + 1
            /\ voted[<<a, s>>] <= Len(log[a])
            /\ \A r \in SL : applied[<<a, s>>] <= voted[<<a, r>>]
        BY <1>3 DEF VotesOK
      <3>2. CASE <<a, s>> = n
        <4>1. a = n[1]
          BY <3>2
        <4>2. QED
          <5>1. PICK k \in Nat, v \in Nat : k = applied[n] /\ v = voted[n] /\ applied'[n] = k + 1
            BY <1>2, <2>1, <2>3, <3>2
          <5>2. k < v /\ v <= k + 1 /\ v <= la /\ \A r \in SL : voted[<<a, r>>] > k
            BY <2>1, <2>4, <3>1, <3>2, <4>1, <5>1
          <5>3. \A r \in SL : k + 1 <= voted[<<a, r>>]
            BY <1>2, <5>2
          <5> QED
            BY <2>4, <3>2, <5>1, <5>2, <5>3
      <3>3. CASE <<a, s>> # n
        <4>1. applied'[<<a, s>>] = applied[<<a, s>>]
          BY <2>2, <3>3
        <4>2. PICK v \in Nat : v = voted[<<a, s>>]
          BY <1>2
        <4>3. v <= Len(log'[a])
          BY <2>4, <3>1, <4>2
        <4> QED
          BY <3>1, <4>1, <4>2, <4>3
      <3> QED
        BY <3>2, <3>3
    <2> QED
      BY <2>5 DEF VotesOK
  <1>6. \A a \in BG : VotesOK(a)'
    BY <1>4, <1>5 DEF LogStep
  <1> QED
    BY <1>6 DEF VoteTypes

(* And an SL still has the results it voted with.                               *)
LEMMA VoteCarried ==
    ASSUME LogTypes, VoteTypes, NEW n \in Node, VoteOK(n), LogGrows, voted' = voted,
           \A t, c : Has(n, t, c) => Has(n, t, c)',
           \A c \in Cycle : Complete(n, c) => Has(n, FULL_MEMBERSHIP, c)' \/ Complete(n, c)'
    PROVE  VoteOK(n)'
  <1>1. n[1] \in BG /\ n = <<n[1], n[2]>> /\ n[2] \in SL
    BY Groups
  <1>2. voted[n] \in Nat /\ Len(log[n[1]]) \in Nat /\ voted[n] <= Len(log[n[1]])
    BY <1>1 DEF VoteTypes, VotesOK, LogTypes
  <1>3. \A i \in 1..voted[n] : log'[n[1]][i] = log[n[1]][i]
    BY <1>1, <1>2 DEF LogGrows
  <1> QED
    BY <1>3 DEF VoteOK, Is
-----------------------------------------------------------------------------
(* No answer becomes known, or the one that m carries.                         *)
NoNews == \A n \in Node, c \in Cycle, k \in Kind : \A d \in Remote(n[1]) :
              Holds(n, k) /\ Have(n, d, k, c)' => Have(n, d, k, c)
OneNews(m) == \A n \in Node, c \in Cycle, k \in Kind : \A d \in Remote(n[1]) :
              Holds(n, k) /\ Have(n, d, k, c)' =>
                 Have(n, d, k, c) \/ (n = Holder(m) /\ d = Askee(m) /\ k = m.kind /\ c = m.cycle)

(* The invariant by the parts the lemmas are about.                           *)
HavesOK == \A n \in Node, c \in Cycle, k \in Kind : \A d \in Remote(n[1]) : Holds(n, k) => HaveOK(n, d, k, c)

(* The invariant is the conjunction of the parts.                             *)
LEMMA Parts ==
    IInv <=> /\ LogTypes /\ StatusTypes /\ MailTypes /\ VoteTypes
             /\ \A b \in BG : LogOK(b)
             /\ \A n \in Node : VoteOK(n)
             /\ \A n \in Node, c \in Cycle : StageOK(n, c)
             /\ \A b \in BG, c \in Cycle : PlanOK(b, c)
             /\ HavesOK
             /\ \A x \in Flight : FlightOK(x)
             /\ AskedOnce
  <1>1. Original!TypeOK <=> LogTypes /\ StatusTypes /\ MailTypes
    BY DEF Original!TypeOK, LogTypes, StatusTypes, MailTypes
  <1>2. ASSUME VoteTypes
        PROVE  \A n \in Node : applied[n] <= voted[n] /\ voted[n] <= Len(log[n[1]])
    <2> SUFFICES ASSUME NEW n \in Node PROVE applied[n] <= voted[n] /\ voted[n] <= Len(log[n[1]])
      OBVIOUS
    <2>1. n[1] \in BG /\ n = <<n[1], n[2]>> /\ n[2] \in SL
      BY Groups
    <2> QED
      BY <1>2, <2>1 DEF VoteTypes, VotesOK
  <1> QED
    BY <1>1, <1>2 DEF TypeOK, IInv, VoteTypes, HavesOK

(* The same of the next state.                                                *)
LEMMA PartsNext ==
    ASSUME LogTypes', StatusTypes', MailTypes', VoteTypes', \A b \in BG : LogOK(b)',
           \A n \in Node : VoteOK(n)',
           \A n \in Node, c \in Cycle : StageOK(n, c)', \A b \in BG, c \in Cycle : PlanOK(b, c)',
           HavesOK', (\A x \in Flight : FlightOK(x))', AskedOnce'
    PROVE  IInv'
  <1>1. (/\ LogTypes /\ StatusTypes /\ MailTypes /\ VoteTypes
         /\ \A b \in BG : LogOK(b)
         /\ \A n \in Node : VoteOK(n)
         /\ \A n \in Node, c \in Cycle : StageOK(n, c)
         /\ \A b \in BG, c \in Cycle : PlanOK(b, c)
         /\ HavesOK
         /\ \A x \in Flight : FlightOK(x)
         /\ AskedOnce)'
    OBVIOUS
  <1> QED
    BY <1>1, Parts, PTL

(* A step that applies nothing and touches no status, and leaves the votes      *)
(* alone or not.                                                              *)
LEMMA QuietStep ==
    ASSUME IInv, NEW b \in BG, LogStep(b, pending[b]), UNCHANGED <<applied, status, storage>>
    PROVE  /\ LogTypes' /\ StatusTypes' /\ KnowledgeGrows
           /\ \A a \in BG : LogOK(a)'
           /\ \A n \in Node, c \in Cycle : StageOK(n, c)'
           /\ \A a \in BG, c \in Cycle : PlanOK(a, c)'
           /\ NoNews
           /\ voted' = voted => VoteTypes' /\ \A n \in Node : VoteOK(n)'
  <1>1. LogTypes /\ StatusTypes /\ VoteTypes /\ \A a \in BG : LogOK(a)
    BY Parts
  <1>2. WorkOK(b, pending[b]) /\ WorkOK(b, pending[b] \union {}) /\ LogStep(b, pending[b] \union {})
    <2>1. pending[b] \union {} = pending[b]
      OBVIOUS
    <2> QED
      BY <1>1, <2>1, PendingIsWork
  <1>3. LogTypes' /\ StatusTypes' /\ KnowledgeGrows /\ \A a \in BG : LogOK(a)'
    BY <1>1, <1>2, KnowledgeStep, LogStepOK DEF LogStep, StatusTypes
  <1>4. \A n \in Node : \A t, c : Has(n, t, c)' <=> Has(n, t, c)
    BY <1>1, HasStep
  <1>5. \A a \in BG : \A c, v : EnvoyIs(a, c, v) => EnvoyIs(a, c, v)'
    BY <1>1, <1>2, PlannedStep
  <1>6. ASSUME NEW n \in Node, NEW c \in Cycle PROVE StageOK(n, c)'
    <2>1. StageOK(n, c) /\ n[1] \in BG
      BY Parts, Groups
    <2> QED
      BY <1>4, <1>5, <2>1, StageSame
  <1>7. \A a \in BG : \A t, c : t # FROM_CLIENT => (Planned(a, t, c)' <=> Planned(a, t, c))
    <2> SUFFICES ASSUME NEW a \in BG, NEW t, NEW c, t # FROM_CLIENT
                 PROVE  Planned(a, t, c)' <=> Planned(a, t, c)
      OBVIOUS
    <2>1. (Planned(a, t, c))' <=> Planned(a, t, c) \/ (a = b /\ \E e \in pending[b] : Is(e, t, c))
      BY <1>1, <1>2, PlannedStep
    <2> QED
      BY <2>1 DEF Planned
  <1>8. \A n \in Node : \A d, k, c : Have(n, d, k, c)' <=> Have(n, d, k, c)
    BY <1>4 DEF Have
  <1>9. ASSUME NEW a \in BG, NEW c \in Cycle PROVE PlanOK(a, c)'
    <2>1. PlanOK(a, c) /\ Leader(a) \in Node
      BY Parts, Groups
    <2> QED
      BY <1>4, <1>7, <1>8, <2>1, PlanCarried
  <1>10. voted' = voted => VoteTypes'
    BY <1>1, VotesCarried
  <1>11. ASSUME voted' = voted, NEW n \in Node PROVE VoteOK(n)'
    <2>1. LogGrows
      BY <1>1, SchedGrows DEF LogStep
    <2>2. VoteOK(n) /\ \A c \in Cycle : Complete(n, c)' <=> Complete(n, c)
      BY Parts DEF Complete
    <2> QED
      BY <1>1, <1>4, <1>11, <2>1, <2>2, VoteCarried
  <1>12. NoNews
    BY <1>8 DEF NoNews
  <1> QED
    BY <1>3, <1>6, <1>9, <1>10, <1>11, <1>12

(* So does a step that leaves logs, scheduler and statuses alone.             *)
LEMMA IdleStep ==
    ASSUME IInv, NEW b \in BG, UNCHANGED <<log, applied, scheduler, status, storage>>
    PROVE  /\ LogTypes' /\ StatusTypes' /\ KnowledgeGrows
           /\ \A a \in BG : LogOK(a)'
           /\ \A n \in Node, c \in Cycle : StageOK(n, c)'
           /\ \A a \in BG, c \in Cycle : PlanOK(a, c)'
           /\ NoNews
           /\ voted' = voted => VoteTypes' /\ \A n \in Node : VoteOK(n)'
  <1>1. LogTypes /\ LogOK(b)
    BY Parts
  <1> QED
    BY <1>1, IdleIsLogStep, QuietStep

(* Without news every answer an SL has stays explained.                       *)
LEMMA HavesCarried ==
    ASSUME IInv, KnowledgeGrows, NoNews
    PROVE  HavesOK'
  <1>1. HavesOK
    BY Parts
  <1>2. ASSUME NEW n \in Node, NEW c \in Cycle, NEW k \in Kind, NEW d \in Remote(n[1]), Holds(n, k)
        PROVE  HaveOK(n, d, k, c)'
    BY <1>1, <1>2, HaveCarried DEF NoNews, HavesOK
  <1> QED
    BY <1>2 DEF HavesOK, Holds

(* A question moves on.                                                         *)
LEMMA OneMoves ==
    ASSUME IInv, KnowledgeGrows, NoNews, NEW m \in net, NEW y, SameQuestion(y, m),
           \A z \in Flight' : (z \in Flight /\ z # m) \/ z = y,
           y.type = "RESPONSE" => Some(Askee(m), AskType(m.kind), m.cycle)
    PROVE  (\A x \in Flight : FlightOK(x))' /\ AskedOnce'
  <1>1. MailTypes /\ m \in Flight
    BY Parts, FlightMembers
  <1>2. AskedOnce'
    BY <1>1, MoveOne, Parts
  <1>3. \A x \in Flight : FlightOK(x)'
    <2> SUFFICES ASSUME NEW x \in Flight PROVE FlightOK(x)'
      OBVIOUS
    <2>1. FlightOK(x) /\ x.kind \in Kind /\ x.cycle \in Cycle /\ Holder(x) \in Node /\ Askee(x) \in BG
          /\ Holds(Holder(x), x.kind)
      BY <1>1, Parts, FlightMembers
    <2>2. ~Have(Holder(x), Askee(x), x.kind, x.cycle)'
      BY <2>1 DEF NoNews, FlightOK
    <2> QED
      BY <2>1, <2>2, FlightCarried
  <1>4. FlightOK(y)'
    <2>1. FlightOK(m)' /\ Holder(y) = Holder(m) /\ Askee(y) = Askee(m) /\ y.kind = m.kind /\ y.cycle = m.cycle
      BY <1>1, <1>3 DEF SameQuestion
    <2>2. y.type = "RESPONSE" => Some(Askee(m), AskType(m.kind), m.cycle)'
      BY <1>1, FlightMembers DEF KnowledgeGrows
    <2> QED
      BY <2>1, <2>2 DEF FlightOK
  <1>5. (\A x \in Flight : FlightOK(x))'
    <2> SUFFICES ASSUME NEW x \in Flight' PROVE FlightOK(x)'
      OBVIOUS
    <2> QED
      BY <1>3, <1>4
  <1> QED
    BY <1>2, <1>5

(* A question is answered: its answer was asked for, given, and not yet there.  *)
LEMMA OneAnswered ==
    ASSUME IInv, KnowledgeGrows, NEW m \in net, m.type = "RESPONSE", OneNews(m),
           \A z \in Flight' : z \in Flight /\ z # m
    PROVE  /\ (\A x \in Flight : FlightOK(x))' /\ AskedOnce'
           /\ HavesOK'
  <1>1. MailTypes /\ m \in Flight
    BY Parts, FlightMembers
  <1>2. AskedOnce'
    BY Parts DEF AskedOnce
  <1>3. \A x \in Flight \ {m} : FlightOK(x)'
    <2> SUFFICES ASSUME NEW x \in Flight \ {m} PROVE FlightOK(x)'
      OBVIOUS
    <2>1. FlightOK(x) /\ x.kind \in Kind /\ x.cycle \in Cycle /\ Holder(x) \in Node /\ Askee(x) \in BG
          /\ Holds(Holder(x), x.kind)
      BY <1>1, Parts, FlightMembers
    <2>2. ~SameQuestion(x, m)
      BY <1>1, Parts DEF AskedOnce
    <2>3. ~Have(Holder(x), Askee(x), x.kind, x.cycle)'
      BY <2>1, <2>2 DEF OneNews, FlightOK, SameQuestion
    <2> QED
      BY <2>1, <2>3, FlightCarried
  <1>4. (\A x \in Flight : FlightOK(x))'
    <2> SUFFICES ASSUME NEW x \in Flight' PROVE FlightOK(x)'
      OBVIOUS
    <2> QED
      BY <1>3
  <1>5. ASSUME NEW n \in Node, NEW c \in Cycle, NEW k \in Kind, NEW d \in Remote(n[1]), Holds(n, k)
        PROVE  HaveOK(n, d, k, c)'
    <2>1. HaveOK(n, d, k, c) /\ d \in BG
      BY <1>5, Parts, Groups DEF HavesOK
    <2>2. CASE Have(n, d, k, c)' => Have(n, d, k, c)
      BY <2>1, <2>2, HaveCarried
    <2>3. CASE n = Holder(m) /\ d = Askee(m) /\ k = m.kind /\ c = m.cycle
      <3>1. AskedFor(n, k, c) /\ Some(d, AskType(k), c)
        BY <1>1, <2>3, Parts DEF FlightOK
      <3> QED
        BY <2>1, <3>1 DEF KnowledgeGrows, HaveOK
    <2> QED
      BY <1>5, <2>2, <2>3 DEF OneNews
  <1>6. HavesOK'
    BY <1>5 DEF HavesOK, Holds
  <1> QED
    BY <1>2, <1>4, <1>6
-----------------------------------------------------------------------------
(* The handlers that apply nothing, one by one.                                 *)
LEMMA InitIInv == Init => IInv
  <1> SUFFICES ASSUME Init PROVE IInv
    OBVIOUS
  <1>1. LogTypes
    <2>1. 1 \in 1..(MaxCycle + 1)
      BY MaxCycleBound
    <2> QED
      BY <2>1, Groups DEF Init, Original!Init, LogTypes
  <1>2. StatusTypes
    <2>1. 0 \in 0..NumBG
      BY SizeAssumption, Count, FS_CardinalityType
    <2>2. Unknown \in Status
      BY <2>1, Groups DEF Original!Unknown, Original!Status, Original!States
    <2> QED
      BY <2>2 DEF Init, Original!Init, StatusTypes
  <1>3. MailTypes /\ Flight = {}
    BY DEF Init, Original!Init, MailTypes, Flight
  <1>4. \A a \in BG : \A t, c : ~InLog(a, t, c) /\ ~Planned(a, t, c)
    BY DEF Init, Original!Init, InLog, Planned, Before
  <1>5. \A n \in Node : \A t, c : ~Has(n, t, c)
    BY DEF Init, Original!Init, Has, Before
  <1>6. ASSUME NEW a \in BG PROVE LogOK(a)
    <2>1. InStep(a)
      BY Groups DEF Init, Original!Init, InStep
    <2>2. Ordered(a) /\ NoRepetition(a) /\ NoIdleWork(a)
      BY <1>4 DEF Init, Original!Init, Ordered, NoRepetition, NoIdleWork
    <2> QED
      BY <2>1, <2>2 DEF LogOK
  <1>7. ASSUME NEW n \in Node, NEW c \in Cycle PROVE StageOK(n, c)
    <2>1. status[n][c] = Unknown /\ storage[n] = {}
      BY DEF Init, Original!Init
    <2> QED
      BY <1>5, <2>1 DEF StageOK, StateOf, CounterOf, Original!Unknown
  <1>8. ASSUME NEW n \in Node, NEW c \in Cycle, NEW k \in Kind, NEW d PROVE ~Have(n, d, k, c)
    BY <1>5 DEF Have, Init, Original!Init, Original!Unknown
  <1>9. HavesOK
    <2>1. \A n \in Node : Remote(n[1]) \subseteq BG
      BY DEF Original!Remote
    <2> QED
      BY <1>8 DEF HavesOK, HaveOK
  <1>10. VoteTypes
    BY Groups DEF Init, Original!Init, VoteTypes, VotesOK
  <1>11. \A n \in Node : VoteOK(n)
    BY DEF Init, Original!Init, VoteOK
  <1>12. (\A x \in Flight : FlightOK(x)) /\ AskedOnce
    BY <1>3 DEF AskedOnce
  <1>13. \A a \in BG, c \in Cycle : PlanOK(a, c)
    BY <1>4 DEF PlanOK
  <1> QED
    BY <1>1, <1>2, <1>3, <1>6, <1>7, <1>9, <1>10, <1>11, <1>12, <1>13, Parts

(* Mail that does not move stays well asked.                                   *)
LEMMA MailSame ==
    ASSUME IInv, KnowledgeGrows, NoNews, UNCHANGED <<waiting, net>>
    PROVE  MailTypes' /\ (\A x \in Flight : FlightOK(x))' /\ AskedOnce'
  <1>1. MailTypes
    BY Parts
  <1>2. Flight' = Flight /\ AskedOnce' /\ MailTypes'
    BY <1>1, Parts DEF Flight, AskedOnce, MailTypes
  <1>3. (\A x \in Flight : FlightOK(x))'
    <2> SUFFICES ASSUME NEW x \in Flight PROVE FlightOK(x)'
      BY <1>2
    <2>1. FlightOK(x) /\ x.kind \in Kind /\ x.cycle \in Cycle /\ Holder(x) \in Node /\ Askee(x) \in BG
          /\ Holds(Holder(x), x.kind)
      BY <1>1, Parts, FlightMembers
    <2>2. ~Have(Holder(x), Askee(x), x.kind, x.cycle)'
      BY <2>1 DEF NoNews, FlightOK
    <2> QED
      BY <2>1, <2>2, FlightCarried
  <1> QED
    BY <1>2, <1>3

(* Receiving a batch of the clients keeps the invariant.                      *)
LEMMA ReceiveBatchIInv ==
    ASSUME IInv, NEW b \in BG, ReceiveBatch(b)
    PROVE  IInv'
  <1>1. LogTypes /\ LogOK(b)
    BY Parts
  <1>2. LogStep(b, pending[b]) /\ UNCHANGED <<applied, status, storage, waiting, net, voted>>
    BY <1>1, BatchIsLogStep DEF ReceiveBatch, Original!ReceiveBatch
  <1>3. /\ LogTypes' /\ StatusTypes' /\ VoteTypes' /\ KnowledgeGrows /\ NoNews
        /\ \A a \in BG : LogOK(a)'
        /\ \A n \in Node : VoteOK(n)'
        /\ \A n \in Node, c \in Cycle : StageOK(n, c)'
        /\ \A a \in BG, c \in Cycle : PlanOK(a, c)'
    BY <1>2, QuietStep
  <1>4. MailTypes' /\ (\A x \in Flight : FlightOK(x))' /\ AskedOnce'
    BY <1>2, <1>3, MailSame
  <1>5. HavesOK'
    BY <1>3, HavesCarried
  <1> QED
    BY <1>3, <1>4, <1>5, PartsNext

(* A vote is cast for one entry more, and for the connectivity only with all  *)
(* results.                                                                   *)
LEMMA VoteIInv ==
    ASSUME IInv, NEW n \in Node, Vote(n)
    PROVE  IInv'
  <1>1. LogTypes /\ VoteTypes /\ n[1] \in BG /\ n[2] \in SL /\ n = <<n[1], n[2]>>
    BY Parts, Groups
  <1>2. /\ applied[n] = voted[n] /\ voted[n] < Len(log[n[1]])
        /\ voted' = [voted EXCEPT ![n] = @ + 1]
        /\ UNCHANGED <<log, applied, scheduler, status, waiting, storage, net>>
        /\ log[n[1]][voted[n] + 1].requestType = LOCAL_CONNECTIVITY =>
               status[n][log[n[1]][voted[n] + 1].cycle].state = "LOCAL_CONNECTIVITY"
    BY DEF Vote, HasAllResults
  <1>3. /\ LogTypes' /\ StatusTypes' /\ KnowledgeGrows /\ NoNews
        /\ \A a \in BG : LogOK(a)'
        /\ \A m \in Node, c \in Cycle : StageOK(m, c)'
        /\ \A a \in BG, c \in Cycle : PlanOK(a, c)'
    BY <1>1, <1>2, IdleStep
  <1>4. MailTypes' /\ (\A x \in Flight : FlightOK(x))' /\ AskedOnce'
    BY <1>2, <1>3, MailSame
  <1>5. HavesOK'
    BY <1>3, HavesCarried
  <1>6. voted[n] \in Nat /\ Len(log[n[1]]) \in Nat
    BY <1>1 DEF LogTypes, VoteTypes
  <1>7. /\ voted' \in [Node -> Nat] /\ voted'[n] = voted[n] + 1
        /\ \A m \in Node \ {n} : voted'[m] = voted[m]
    BY <1>1, <1>2, <1>6 DEF VoteTypes
  <1>8. ASSUME NEW b \in BG PROVE VotesOK(b)'
    <2>1. VotesOK(b) /\ \A s \in SL : <<b, s>> \in Node /\ voted[<<b, s>>] \in Nat /\ applied[<<b, s>>] \in Nat
      BY <1>1, Groups DEF VoteTypes, LogTypes
    <2>2. \A s \in SL : /\ voted'[<<b, s>>] \in Nat
                        /\ voted[<<b, s>>] <= voted'[<<b, s>>]
      BY <1>6, <1>7, <2>1
    <2>3. \A s \in SL : voted'[<<b, s>>] <= applied[<<b, s>>] + 1 /\ voted'[<<b, s>>] <= Len(log[b])
      <3> SUFFICES ASSUME NEW s \in SL
                   PROVE  voted'[<<b, s>>] <= applied[<<b, s>>] + 1 /\ voted'[<<b, s>>] <= Len(log[b])
        OBVIOUS
      <3>1. CASE <<b, s>> = n
        <4>1. b = n[1]
          BY <3>1
        <4> QED
          BY <1>2, <1>6, <1>7, <3>1, <4>1
      <3>2. CASE <<b, s>> # n
        BY <1>7, <2>1, <3>2 DEF VotesOK
      <3> QED
        BY <3>1, <3>2
    <2>4. /\ \A s \in SL : applied[<<b, s>>] <= voted'[<<b, s>>]
          /\ \A r, s \in SL : applied[<<b, s>>] <= voted'[<<b, r>>]
      BY <2>1, <2>2 DEF VotesOK
    <2> QED
      BY <1>2, <2>3, <2>4 DEF VotesOK
  <1>9. ASSUME NEW m \in Node PROVE VoteOK(m)'
    <2>1. VoteOK(m) /\ \A c \in Cycle : StageOK(m, c)
      BY Parts
    <2>2. /\ \A c \in Cycle : Complete(m, c)' <=> Complete(m, c)
          /\ \A c : Has(m, FULL_MEMBERSHIP, c)' <=> Has(m, FULL_MEMBERSHIP, c)
      BY <1>2 DEF Complete, Has, Before, Is
    <2>3. CASE m # n
      BY <1>2, <1>7, <2>1, <2>2, <2>3 DEF VoteOK, Is
    <2>4. CASE m = n
      <3>1. \A i \in 1..voted'[n] : i \in 1..voted[n] \/ i = voted[n] + 1
        BY <1>6, <1>7
      <3>2. ASSUME NEW c \in Cycle, Is(log[n[1]][voted[n] + 1], LOCAL_CONNECTIVITY, c)
            PROVE  Complete(n, c)
        <4>1. status[n][c].state = "LOCAL_CONNECTIVITY"
          BY <1>2, <3>2 DEF Is
        <4> QED
          BY <2>1, <2>4, <4>1 DEF StageOK, StateOf
      <3> QED
        BY <1>2, <2>1, <2>2, <2>4, <3>1, <3>2 DEF VoteOK, Is
    <2> QED
      BY <2>3, <2>4
  <1>10. VoteTypes'
    BY <1>7, <1>8 DEF VoteTypes
  <1> QED
    BY <1>3, <1>4, <1>5, <1>9, <1>10, PartsNext

(* A known cycle has begun at the SL, and what it answers with is applied.      *)
LEMMA AnswerIsApplied ==
    ASSUME IInv, NEW n \in Node, NEW c \in Cycle
    PROVE  /\ Known(n, c) => Some(n[1], FROM_CLIENT, c)
           /\ Known(n, c) /\ n[1] \in status[n][c].slots["CONNECTIVITY"] => Some(n[1], LOCAL_CONNECTIVITY, c)
           /\ Known(n, c) /\ n[1] \in status[n][c].slots["MEMBERSHIP"] => Some(n[1], LOCAL_MEMBERSHIP, c)
           /\ c \in storage[n] => Some(n[1], LOCAL_MEMBERSHIP, c)
  <1>1. LogTypes /\ (\A a \in BG : LogOK(a)) /\ StageOK(n, c)
    BY Parts
  <1>2. \A t : Has(n, t, c) => Some(n[1], t, c)
    BY <1>1, HasIsPlanned
  <1>3. c \in storage[n] => Has(n, LOCAL_MEMBERSHIP, c)
    BY <1>1, Chain DEF StageOK
  <1>4. Known(n, c) => Has(n, FROM_CLIENT, c) /\ SlotsOK(n, c)
    BY <1>1 DEF Known, Original!Known, StageOK, StateOf
  <1> QED
    BY <1>2, <1>3, <1>4 DEF SlotsOK

(* Answering a request of a group whose stage has been reached keeps the      *)
(* invariant.                                                                 *)
LEMMA ReplyIInv ==
    ASSUME IInv, NEW m \in net, m.type = "REQUEST", Reply(m),
           UNCHANGED <<log, applied, scheduler, status, storage, voted>>,
           Some(m.to[1], AskType(m.kind), m.cycle)
    PROVE  IInv'
  <1>1. MailTypes /\ m \in Request /\ m.to \in Node /\ m.to[1] \in BG /\ m.from \in Node
    BY Parts, FlightMembers
  <1> DEFINE y == ResponseTo(m)
  <1>2. SameQuestion(y, m) /\ Askee(m) = m.to[1] /\ y \in Response
    BY <1>1 DEF SameQuestion, Original!ResponseTo, Asker, Holder, Askee, Original!Request, Original!Response
  <1>3. net' = (net \ {m}) \union {y} /\ waiting' = waiting
    BY DEF Original!Reply
  <1>4. \A z \in Flight' : (z \in Flight /\ z # m) \/ z = y
    <2>1. \A n \in Node : \A w \in waiting[n] : KeptBy(n, w) # m
      BY DEF KeptBy
    <2> QED
      BY <1>3, <2>1 DEF Flight
  <1>5. MailTypes'
    BY <1>1, <1>2, <1>3 DEF MailTypes
  <1> HIDE DEF y
  <1>6. (\A x \in Flight : FlightOK(x))' /\ AskedOnce'
    BY <1>1, <1>2, <1>4, IdleStep, OneMoves
  <1> QED
    BY <1>1, <1>5, <1>6, IdleStep, HavesCarried, PartsNext

(* Keeping a request that came too early keeps the invariant.                 *)
LEMMA KeepWaitingIInv ==
    ASSUME IInv, NEW m \in net, m.type = "REQUEST", KeepWaiting(m),
           UNCHANGED <<log, applied, scheduler, status, storage, voted>>
    PROVE  IInv'
  <1>1. MailTypes /\ m \in Request /\ m.to \in Node /\ m.to[1] \in BG /\ m.from \in Node
        /\ m.kind \in Kind /\ m.cycle \in Cycle
    BY Parts, FlightMembers DEF Original!Request
  <1> DEFINE v == <<m.kind, m.cycle, m.from>>
             y == KeptBy(m.to, v)
  <1>2. SameQuestion(y, m) /\ y.type = "KEPT"
    BY <1>1 DEF SameQuestion, KeptBy, Asker, Holder, Askee
  <1>3. net' = net \ {m} /\ waiting' = [waiting EXCEPT ![m.to] = @ \union {v}]
    BY DEF Original!KeepWaiting
  <1>4. \A n \in Node : \A w \in waiting'[n] : w \in waiting[n] \/ (n = m.to /\ w = v)
    BY <1>1, <1>3 DEF MailTypes
  <1>5. MailTypes'
    BY <1>1, <1>3 DEF MailTypes
  <1>6. \A z \in Flight' : (z \in Flight /\ z # m) \/ z = y
    <2> SUFFICES ASSUME NEW z \in Flight' PROVE (z \in Flight /\ z # m) \/ z = y
      OBVIOUS
    <2>1. CASE z \in net'
      BY <1>3, <2>1 DEF Flight
    <2>2. ASSUME NEW n \in Node, NEW w \in waiting'[n], z = KeptBy(n, w)
          PROVE  (z \in Flight /\ z # m) \/ z = y
      <3>1. z.type = "KEPT"
        BY <2>2 DEF KeptBy
      <3>2. CASE w \in waiting[n]
        BY <2>2, <3>1, <3>2 DEF Flight
      <3>3. CASE n = m.to /\ w = v
        BY <2>2, <3>3
      <3> QED
        BY <1>4, <3>2, <3>3
    <2> QED
      BY <2>1, <2>2 DEF Flight
  <1> HIDE DEF y
  <1>7. (\A x \in Flight : FlightOK(x))' /\ AskedOnce'
    BY <1>1, <1>2, <1>6, IdleStep, OneMoves
  <1> QED
    BY <1>1, <1>5, <1>7, IdleStep, HavesCarried, PartsNext

(* The three handlers of requests keep the invariant.                         *)
LEMMA HandleRequestIInv ==
    ASSUME IInv, NEW m \in net, HandleRequest(m), voted' = voted
    PROVE  IInv'
  <1>1. m.type = "REQUEST" /\ UNCHANGED <<log, applied, scheduler, status, storage, voted>>
    BY DEF HandleRequest
  <1>2. m.to \in Node /\ m.cycle \in Cycle /\ m.kind \in Kind
    BY <1>1, Parts, FlightMembers DEF Original!Request
  <1>3. CASE KeepWaiting(m)
    BY <1>1, <1>3, KeepWaitingIInv
  <1>4. CASE Reply(m)
    <2>1. Some(m.to[1], AskType(m.kind), m.cycle) \/ KeepWaiting(m)
      BY <1>2, AnswerIsApplied DEF HandleRequest, HandleFetchRequest, HandleConnectivityRequest, HandleMembershipRequest,
         Original!HandleFetchRequest, Original!HandleConnectivityRequest,
         Original!HandleMembershipRequest, Original!IsReady, AskType, Original!Known
    <2> QED
      BY <1>1, <1>3, <1>4, <2>1, ReplyIInv
  <1> QED
    BY <1>3, <1>4 DEF HandleRequest, HandleFetchRequest, HandleConnectivityRequest, HandleMembershipRequest,
         Original!HandleFetchRequest, Original!HandleConnectivityRequest,
       Original!HandleMembershipRequest

(* Forwarding an answer to the leader keeps the invariant.                    *)
LEMMA ForwardResponseIInv ==
    ASSUME IInv, NEW m \in net, ForwardResponse(m), voted' = voted
    PROVE  IInv'
  <1> DEFINE y == [m EXCEPT !.to = Leader(m.to[1])]
  <1>1. /\ MailTypes /\ m \in Response /\ m.to \in Node /\ m.to[1] \in BG /\ m \in Flight
        /\ m.type = "RESPONSE" /\ m.kind # "RESULT"
    BY Parts, FlightMembers DEF ForwardResponse, Original!ForwardResponse
  <1>2. Leader(m.to[1]) \in Node /\ Leader(m.to[1])[1] = m.to[1]
    BY <1>1, Groups
  <1>3. SameQuestion(y, m) /\ y \in Response
    BY <1>1, <1>2 DEF SameQuestion, Asker, Holder, Askee, Original!Response
  <1>4. /\ net' = (net \ {m}) \union {y} /\ waiting' = waiting
        /\ UNCHANGED <<log, applied, scheduler, status, storage, voted>>
    BY DEF ForwardResponse, Original!ForwardResponse, Original!scheduler, scheduler
  <1>5. \A z \in Flight' : (z \in Flight /\ z # m) \/ z = y
    <2>1. \A n \in Node : \A w \in waiting[n] : KeptBy(n, w) # m
      BY <1>1 DEF KeptBy
    <2> QED
      BY <1>4, <2>1 DEF Flight
  <1>6. MailTypes'
    BY <1>1, <1>3, <1>4 DEF MailTypes
  <1>7. Some(Askee(m), AskType(m.kind), m.cycle)
    BY <1>1, Parts DEF FlightOK
  <1> HIDE DEF y
  <1>8. (\A x \in Flight : FlightOK(x))' /\ AskedOnce'
    BY <1>1, <1>3, <1>4, <1>5, <1>7, IdleStep, OneMoves
  <1> QED
    BY <1>1, <1>4, <1>6, <1>8, IdleStep, HavesCarried, PartsNext

(* The stage that follows when the last answer of a kind is there.              *)
NextStage(kind) ==
    CASE kind = "RESULT" -> LOCAL_CONNECTIVITY [] kind = "CONNECTIVITY" -> LOCAL_MEMBERSHIP [] OTHER -> FULL_MEMBERSHIP

(* SL m.to waits for answer m: to a result as long as the cycle is known.       *)
Awaits(m) ==
    LET s == status[m.to][m.cycle]
    IN  \/ m.kind = "RESULT" /\ s.state # "NONE"
        \/ m.kind = "CONNECTIVITY" /\ s.state = "REPLICATED_CONNECTIVITY" /\ m.to = Leader(m.to[1])
        \/ m.kind = "MEMBERSHIP" /\ s.state = "REPLICATED_MEMBERSHIP" /\ m.to = Leader(m.to[1])

(* An answer that is awaited is new, and the request for the next stage is    *)
(* not planned yet.                                                           *)
LEMMA AwaitedAnswer ==
    ASSUME IInv, NEW m \in net, m.type = "RESPONSE", Awaits(m)
    PROVE  LET b == m.to[1] IN
           /\ b \in BG /\ m.to \in Node /\ m.cycle \in Cycle /\ m.bg \in Remote(b)
           /\ m.kind \in Kind /\ Holder(m) = m.to /\ Askee(m) = m.bg
           /\ m.bg \notin status[m.to][m.cycle].slots[m.kind]
           /\ ~Has(m.to, FULL_MEMBERSHIP, m.cycle)
           /\ Has(m.to, AskType(m.kind), m.cycle)
           /\ m.to = Leader(b) => \A o \in BG : \A f : f = Work(NextStage(m.kind), m.cycle, o) =>
                 WorkOK(b, pending[b] \union {f})
  <1> DEFINE b == m.to[1]
             c == m.cycle
             s == status[m.to][c]
  <1>1. /\ LogTypes /\ MailTypes /\ (\A a \in BG : LogOK(a)) /\ m \in Flight /\ FlightOK(m)
        /\ m.to \in Node /\ b \in BG /\ m.bg \in BG /\ c \in Cycle /\ m.kind \in Kind
        /\ Holder(m) = m.to /\ Askee(m) = m.bg
    BY Parts, FlightMembers DEF Asker, Holder, Askee, Awaits
  <1>2. m.bg \in Remote(b) /\ ~Have(m.to, m.bg, m.kind, c)
    BY <1>1 DEF FlightOK
  <1>3. m.bg \notin s.slots[m.kind] /\ ~Has(m.to, FULL_MEMBERSHIP, c)
    BY <1>2 DEF Have
  <1>4. StageOK(m.to, c) /\ PlanOK(b, c)
    BY <1>1, Parts
  <1>5. Has(m.to, AskType(m.kind), c) /\ Has(m.to, FROM_CLIENT, c)
    BY <1>4 DEF StageOK, StateOf, Awaits, AskType
  <1>6. NextStage(m.kind) # FROM_CLIENT /\ NextStage(m.kind) \in Original!RequestType
    BY DEF NextStage, Original!RequestType, Original!FROM_CLIENT, Original!LOCAL_CONNECTIVITY, Original!LOCAL_MEMBERSHIP, Original!FULL_MEMBERSHIP
  <1>7. m.to = Leader(b) => ~Planned(b, NextStage(m.kind), c)
    BY <1>2, <1>4 DEF PlanOK, NextStage, Awaits
  <1>8. \A t : Has(m.to, t, c) => InLog(b, t, c)
    BY <1>1, HasIsPlanned
  <1>9. ASSUME NEW o \in BG, NEW f, f = Work(NextStage(m.kind), c, o), m.to = Leader(b)
        PROVE  WorkOK(b, pending[b] \union {f})
    <2>1. f \in Entry /\ f.requestType = NextStage(m.kind) /\ f.cycle = c
      BY <1>1, <1>6, <1>9, Groups DEF Original!Work, Original!Entry
    <2>2. Enabled(b, Len(log[b]), f)
      BY <1>5, <1>8, <2>1 DEF Enabled, InLog, NextStage, Awaits, AskType, Original!FROM_CLIENT, Original!FETCHED_RESULT,
         Original!LOCAL_CONNECTIVITY, Original!LOCAL_MEMBERSHIP, Original!FULL_MEMBERSHIP
    <2> QED
      BY <1>1, <1>6, <1>7, <1>9, <2>1, <2>2, MoreWork
  <1> QED
    BY <1>1, <1>2, <1>3, <1>5, <1>9

(* Filling the slot of such an answer, and planning the next stage at the     *)
(* leader if it was the last, keeps the invariant.                            *)
LEMMA AnswerIInv ==
    ASSUME IInv, NEW m \in net, m.type = "RESPONSE", Awaits(m),
           NEW st \in Status,  status' = [status EXCEPT ![m.to][m.cycle] = st],
           StageOK(m.to, m.cycle)',
           \A k \in Kind : \A o : o \in st.slots[k] <=>
               o \in status[m.to][m.cycle].slots[k] \/ (k = m.kind /\ o = m.bg),
           net' = net \ {m}, UNCHANGED <<applied, waiting, storage, voted>>,
           NEW extra, WorkOK(m.to[1], pending[m.to[1]] \union extra),
           LogStep(m.to[1], pending[m.to[1]] \union extra),
           \A e \in extra : /\ m.to = Leader(m.to[1]) /\ Remote(m.to[1]) \subseteq st.slots[m.kind]
                            /\ e.requestType = NextStage(m.kind) /\ e.cycle = m.cycle
    PROVE  IInv'
  <1> DEFINE b == m.to[1]
             c == m.cycle
             s == status[m.to][c]
  <1>1. /\ b \in BG /\ m.to \in Node /\ c \in Cycle /\ m.bg \in Remote(b) /\ m.kind \in Kind
        /\ Holder(m) = m.to /\ Askee(m) = m.bg
        /\ m.bg \notin s.slots[m.kind]
        /\ ~Has(m.to, FULL_MEMBERSHIP, c)
        /\ Has(m.to, AskType(m.kind), c)
        /\ "RESULT" \in Kind
    BY AwaitedAnswer DEF Original!Kind
  <1>2. LogTypes /\ StatusTypes /\ MailTypes /\ VoteTypes /\ \A a \in BG : LogOK(a)
    BY Parts
  <1>3. LogTypes' /\ KnowledgeGrows /\ (\A a \in BG : LogOK(a)') /\ LogGrows
    BY <1>1, <1>2, KnowledgeStep, LogStepOK, SchedGrows DEF LogStep
  <1>4. \A n \in Node : \A t, d : Has(n, t, d)' <=> Has(n, t, d)
    BY <1>1, <1>2, HasStep
  <1>5. \A a \in BG : \A d, v : EnvoyIs(a, d, v) => EnvoyIs(a, d, v)'
    BY <1>1, <1>2, PlannedStep
  <1>6. /\ status'[m.to][c] = st
        /\ \A n \in Node, d \in Cycle : (n # m.to \/ d # c) => status'[n][d] = status[n][d]
    BY <1>1, <1>2 DEF StatusTypes
  <1>7. ASSUME NEW n \in Node, NEW d \in Cycle PROVE StageOK(n, d)'
    <2>1. CASE n = m.to /\ d = c
      BY <2>1
    <2>2. CASE n # m.to \/ d # c
      <3>1. status'[n][d] = status[n][d] /\ StageOK(n, d) /\ n[1] \in BG
        BY <1>6, <2>2, Parts, Groups
      <3> QED
        BY <1>2, <1>4, <1>5, <3>1, StageSame DEF StatusTypes
    <2> QED
      BY <2>1, <2>2
  <1>8. StatusTypes'
    BY <1>1, <1>2 DEF StatusTypes
  <1>9. ASSUME NEW n \in Node, NEW d \in Cycle, NEW k \in Kind, NEW o
        PROVE  o \in status'[n][d].slots[k] <=>
                  o \in status[n][d].slots[k] \/ (n = m.to /\ o = m.bg /\ k = m.kind /\ d = c)
    <2>1. CASE n = m.to /\ d = c
      <3>1. status'[n][d] = st
        BY <1>6, <2>1
      <3>2. o \in st.slots[k] <=> o \in status[n][d].slots[k] \/ (k = m.kind /\ o = m.bg)
        BY <2>1
      <3> QED
        BY <2>1, <3>1, <3>2
    <2>2. CASE n # m.to \/ d # c
      <3>1. status'[n][d] = status[n][d]
        BY <1>6, <2>2
      <3> QED
        BY <2>2, <3>1
    <2> QED
      BY <2>1, <2>2
  <1>10. ASSUME NEW n \in Node, NEW d \in Cycle, NEW k \in Kind, NEW o
         PROVE  Have(n, o, k, d)' <=> Have(n, o, k, d) \/ (n = m.to /\ o = m.bg /\ k = m.kind /\ d = c)
    <2>1. Has(n, FULL_MEMBERSHIP, d)' <=> Has(n, FULL_MEMBERSHIP, d)
      BY <1>4
    <2> QED
      BY <1>9, <2>1 DEF Have
  <1>11. OneNews(m)
    BY <1>1, <1>10 DEF OneNews
  <1>12. ASSUME NEW n \in Node PROVE VoteOK(n)'
    <2>1. ASSUME NEW d \in Cycle, Complete(n, d) PROVE Complete(n, d)'
      <3>1. \A o : o \in status'[n][d].slots["RESULT"] <=> o \in BG \/ (n = m.to /\ o = m.bg /\ "RESULT" = m.kind /\ d = c)
        BY <1>1, <1>9, <2>1 DEF Complete
      <3>2. m.bg \in BG
        BY <1>1 DEF Original!Remote
      <3>3. \A o : o \in status'[n][d].slots["RESULT"] <=> o \in BG
        BY <3>1, <3>2
      <3>4. status'[n][d].slots["RESULT"] \in SUBSET BG
        BY <1>1, <1>8 DEF StatusTypes, Original!Status
      <3>5. status'[n][d].slots["RESULT"] = BG
        BY <3>3, <3>4
      <3> QED
        BY <3>5 DEF Complete
    <2> QED
      BY <1>2, <1>3, <1>4, <2>1, Parts, VoteCarried
  <1>13. VoteTypes'
    BY <1>1, <1>2, VotesCarried
  <1>14. \A a \in BG : \A t, d : t # FROM_CLIENT =>
            (Planned(a, t, d)' <=> Planned(a, t, d) \/ (a = b /\ \E e \in extra : Is(e, t, d)))
    BY <1>1, <1>2, PlannedPlus
  <1>15. ASSUME NEW a \in BG, NEW d \in Cycle PROVE PlanOK(a, d)'
    <2>1. PlanOK(a, d) /\ Leader(a) \in Node
      BY Parts, Groups
    <2>2. \A o \in Remote(a), k \in Kind : Have(Leader(a), o, k, d) => Have(Leader(a), o, k, d)'
      BY <1>10, <2>1
    <2>3. CASE \A e \in extra : a # b \/ d # e.cycle
      <3>1. \A t : t # FROM_CLIENT /\ Planned(a, t, d)' => Planned(a, t, d)
        BY <1>14, <2>3 DEF Is
      <3> QED
        BY <1>4, <2>1, <2>2, <3>1, PlanCarried
    <2>4. ASSUME NEW e \in extra, a = b, d = e.cycle PROVE PlanOK(a, d)'
      <3>1. /\ d = c /\ m.to = Leader(a) /\ Remote(a) \subseteq st.slots[m.kind]
        BY <2>4
      <3>2. \A o \in Remote(a) : Have(Leader(a), o, m.kind, d)'
        BY <1>6, <3>1 DEF Have
      <3>3. \A t : t # FROM_CLIENT /\ Planned(a, t, d)' => Planned(a, t, d) \/ t = NextStage(m.kind)
        BY <1>14 DEF Is
      <3>4. Has(Leader(a), AskType(m.kind), d)' /\ \A t : Has(Leader(a), t, d) => Has(Leader(a), t, d)'
        BY <1>1, <1>4, <3>1
      <3>5. "CONNECTIVITY" \in Kind /\ "MEMBERSHIP" \in Kind /\ m.kind \in {"RESULT", "CONNECTIVITY", "MEMBERSHIP"}
        BY <1>1 DEF Original!Kind
      <3>6. /\ FROM_CLIENT \notin {LOCAL_CONNECTIVITY, LOCAL_MEMBERSHIP, FULL_MEMBERSHIP}
            /\ LOCAL_CONNECTIVITY \notin {LOCAL_MEMBERSHIP, FULL_MEMBERSHIP}
            /\ LOCAL_MEMBERSHIP # FULL_MEMBERSHIP
        BY DEF Original!FROM_CLIENT, Original!LOCAL_CONNECTIVITY, Original!LOCAL_MEMBERSHIP, Original!FULL_MEMBERSHIP
      <3>7. Planned(a, LOCAL_CONNECTIVITY, d)' =>
               Has(Leader(a), FROM_CLIENT, d)' /\ \A o \in Remote(a) : Have(Leader(a), o, "RESULT", d)'
        <4>1. CASE m.kind = "RESULT"
          BY <3>2, <3>4, <4>1 DEF AskType
        <4>2. CASE m.kind # "RESULT"
          <5>1. NextStage(m.kind) # LOCAL_CONNECTIVITY
            BY <3>6, <4>2 DEF NextStage
          <5> QED
            BY <1>1, <2>1, <2>2, <3>3, <3>4, <3>6, <5>1 DEF PlanOK
        <4> QED
          BY <4>1, <4>2
      <3>8. Planned(a, LOCAL_MEMBERSHIP, d)' =>
               Has(Leader(a), LOCAL_CONNECTIVITY, d)' /\ \A o \in Remote(a) : Have(Leader(a), o, "CONNECTIVITY", d)'
        <4>1. CASE m.kind = "CONNECTIVITY"
          BY <3>2, <3>4, <4>1 DEF AskType
        <4>2. CASE m.kind # "CONNECTIVITY"
          <5>1. NextStage(m.kind) # LOCAL_MEMBERSHIP
            BY <3>6, <4>2 DEF NextStage
          <5> QED
            BY <2>1, <2>2, <3>3, <3>4, <3>5, <3>6, <5>1 DEF PlanOK
        <4> QED
          BY <4>1, <4>2
      <3>9. Planned(a, FULL_MEMBERSHIP, d)' =>
               Has(Leader(a), LOCAL_MEMBERSHIP, d)' /\ \A o \in Remote(a) : Have(Leader(a), o, "MEMBERSHIP", d)'
        <4>1. CASE m.kind = "MEMBERSHIP"
          BY <3>2, <3>4, <4>1 DEF AskType
        <4>2. CASE m.kind # "MEMBERSHIP"
          <5>1. NextStage(m.kind) # FULL_MEMBERSHIP
            BY <3>5, <3>6, <4>2 DEF NextStage
          <5> QED
            BY <2>1, <2>2, <3>3, <3>4, <3>5, <3>6, <5>1 DEF PlanOK
        <4> QED
          BY <4>1, <4>2
      <3> QED
        BY <3>7, <3>8, <3>9 DEF PlanOK
    <2> QED
      BY <2>3, <2>4
  <1>16. (\A z \in Flight' : z \in Flight /\ z # m) /\ MailTypes'
    <2>1. \A n \in Node : \A w \in waiting[n] : KeptBy(n, w) # m
      BY DEF KeptBy
    <2> QED
      BY <1>2, <2>1 DEF Flight, MailTypes
  <1>17. (\A x \in Flight : FlightOK(x))' /\ AskedOnce' /\ HavesOK'
    BY <1>3, <1>11, <1>16, OneAnswered
  <1> QED
    BY <1>3, <1>7, <1>8, <1>12, <1>13, <1>15, <1>16, <1>17, PartsNext

(* A result goes to the SL that asked for it.                                   *)
LEMMA HandleFetchResponseIInv ==
    ASSUME IInv, NEW m \in net, HandleFetchResponse(m), voted' = voted
    PROVE  IInv'
  <1> DEFINE n == m.to
             b == n[1]
             c == m.cycle
             s == status[n][c]
             f == Work(LOCAL_CONNECTIVITY, c, b)
             held == [s EXCEPT !.slots["RESULT"] = @ \union {m.bg}]
             work == IF held.slots["RESULT"] = BG THEN {f} ELSE {}
  <1>1. /\ m.type = "RESPONSE" /\ m.kind = "RESULT" /\ s.state # "NONE" /\ Awaits(m)
        /\ net' = net \ {m} /\ status' = [status EXCEPT ![n][c] = Fetched(s, m.bg)]
        /\ IF n = Leader(b) THEN Queue(b, pending[b] \union work) ELSE UNCHANGED <<log, scheduler>>
        /\ UNCHANGED <<applied, waiting, storage, voted>>
    BY DEF HandleFetchResponse, Fetched, AllFetched, Known, Original!Known, Original!SetStatus, Awaits
  <1>2. /\ b \in BG /\ n \in Node /\ c \in Cycle /\ m.bg \in Remote(b)
        /\ m.bg \notin s.slots["RESULT"]
        /\ n = Leader(b) => WorkOK(b, pending[b] \union {f})
    <2>1. /\ b \in BG /\ n \in Node /\ c \in Cycle /\ m.bg \in Remote(b)
          /\ m.bg \notin s.slots["RESULT"]
          /\ n = Leader(b) => \A o \in BG : \A g : g = Work(NextStage(m.kind), c, o) => WorkOK(b, pending[b] \union {g})
      BY <1>1, AwaitedAnswer
    <2>2. NextStage(m.kind) = LOCAL_CONNECTIVITY
      BY <1>1 DEF NextStage
    <2> QED
      BY <2>1, <2>2
  <1>3. LogTypes /\ StatusTypes /\ (\A a \in BG : LogOK(a)) /\ StageOK(n, c)
    BY <1>2, Parts
  <1>4. f.requestType = LOCAL_CONNECTIVITY /\ f.cycle = c
    BY DEF Original!Work
  <1>5. status[n][c] \in Status
    BY <1>2, <1>3 DEF StatusTypes
  <1>6. held.slots["RESULT"] = s.slots["RESULT"] \union {m.bg}
    BY <1>5 DEF Original!Status, Original!Kind
  <1> HIDE DEF f
  <1>7. PICK extra : extra = IF n = Leader(b) THEN work ELSE {}
    OBVIOUS
  <1>8. WorkOK(b, pending[b] \union extra) /\ LogStep(b, pending[b] \union extra)
    <2>1. CASE n = Leader(b)
      <3>1. work = {} \/ work = {f}
        OBVIOUS
      <3>2. WorkOK(b, pending[b] \union work)
        <4>1. pending[b] \union {} = pending[b]
          OBVIOUS
        <4> HIDE DEF work
        <4> QED
          BY <1>2, <1>3, <2>1, <3>1, <4>1, PendingIsWork
      <3> HIDE DEF work
      <3>3. extra = work
        BY <1>7, <2>1
      <3> QED
        BY <1>1, <1>2, <1>3, <2>1, <3>2, <3>3, QueueIsLogStep
    <2>2. CASE n # Leader(b)
      <3>1. pending[b] \union extra = pending[b]
        BY <1>7, <2>2
      <3> QED
        BY <1>1, <1>2, <1>3, <2>2, <3>1, PendingIsWork, IdleIsLogStep
    <2> QED
      BY <2>1, <2>2
  <1>9. PICK st : st = Fetched(s, m.bg)
    OBVIOUS
  <1>10. status'[n][c] = st /\ storage' = storage
    BY <1>1, <1>2, <1>3, <1>9 DEF StatusTypes
  <1>11. /\ \A t : Has(n, t, c)' <=> Has(n, t, c)
         /\ \A v : EnvoyIs(b, c, v) => EnvoyIs(b, c, v)'
    BY <1>1, <1>2, <1>3, <1>8, HasStep, PlannedStep
  <1>12. /\ StageOK(n, c)' /\ st \in Status
         /\ st.slots["RESULT"] = s.slots["RESULT"] \union {m.bg}
         /\ \A k \in Kind \ {"RESULT"} : st.slots[k] = s.slots[k]
    <2>1. n[1] \in BG /\ s = status[n][c] /\ status'[n][c] = Fetched(s, m.bg)
      BY <1>2, <1>9, <1>10
    <2> HIDE DEF n, c, s
    <2>2. StageOK(n, c)' /\ Fetched(s, m.bg) \in Status
      BY <1>1, <1>2, <1>3, <1>10, <1>11, <2>1, StageFetched
    <2> QED
      BY <1>1, <1>2, <1>3, <1>9, <1>10, <1>11, <2>1, StageFetched
  <1>13. \A e \in extra : /\ n = Leader(b) /\ Remote(b) \subseteq st.slots[m.kind]
                          /\ e.requestType = NextStage(m.kind) /\ e.cycle = c
    <2> SUFFICES ASSUME NEW e \in extra
                 PROVE  /\ n = Leader(b) /\ Remote(b) \subseteq st.slots[m.kind]
                        /\ e.requestType = NextStage(m.kind) /\ e.cycle = c
      OBVIOUS
    <2>1. n = Leader(b) /\ e = f /\ held.slots["RESULT"] = BG
      BY <1>7
    <2>2. st.slots[m.kind] = BG
      BY <1>1, <1>6, <1>12, <2>1
    <2> QED
      BY <1>1, <1>4, <2>1, <2>2 DEF NextStage, Original!Remote
  <1>14. \A k \in Kind : \A o : o \in st.slots[k] <=> o \in s.slots[k] \/ (k = m.kind /\ o = m.bg)
    <2> SUFFICES ASSUME NEW k \in Kind, NEW o
                 PROVE  o \in st.slots[k] <=> o \in s.slots[k] \/ (k = m.kind /\ o = m.bg)
      OBVIOUS
    <2>1. CASE k = "RESULT"
      BY <1>1, <1>12, <2>1
    <2>2. CASE k # "RESULT"
      <3>1. st.slots[k] = s.slots[k]
        BY <1>12, <2>2
      <3> QED
        BY <1>1, <2>2, <3>1
    <2> QED
      BY <2>1, <2>2
  <1>15. status' = [status EXCEPT ![m.to][m.cycle] = st]
    BY <1>1, <1>9
  <1> HIDE DEF work, held
  <1> QED
    <2>1. StageOK(n, c)' /\ st \in Status
      BY <1>12
    <2>2. m.type = "RESPONSE" /\ Awaits(m) /\ net' = net \ {m} /\ UNCHANGED <<applied, waiting, storage, voted>>
      BY <1>1
    <2> QED
      BY <1>8, <1>13, <1>14, <1>15, <2>1, <2>2, AnswerIInv

(* An answer of the other two kinds is counted at the leader.                   *)
LEMMA CountedIInv ==
    ASSUME IInv, NEW m \in net, m.type = "RESPONSE", Awaits(m), m.kind # "RESULT",
           SetStatus(m.to, m.cycle, Counted(m, status[m.to][m.cycle])),
           net' = net \ {m}, UNCHANGED <<applied, waiting, storage, voted>>,
           NEW extra, WorkOK(m.to[1], pending[m.to[1]] \union extra),
           LogStep(m.to[1], pending[m.to[1]] \union extra),
           \A e \in extra : /\ LastAnswer(status[m.to][m.cycle])
                            /\ e.requestType = NextStage(m.kind) /\ e.cycle = m.cycle
    PROVE  IInv'
  <1> DEFINE n == m.to
             b == n[1]
             c == m.cycle
             s == status[n][c]
  <1>1. /\ b \in BG /\ n \in Node /\ c \in Cycle /\ m.bg \in Remote(b) /\ m.kind \in Kind
        /\ m.bg \notin s.slots[m.kind]
    BY AwaitedAnswer
  <1>2. LogTypes /\ StatusTypes /\ (\A a \in BG : LogOK(a)) /\ StageOK(n, c)
    BY <1>1, Parts
  <1>3. PICK st : st = [s EXCEPT !.slots[m.kind] = @ \union {m.bg}, !.counter = @ + 1]
    OBVIOUS
  <1>4. /\ status' = [status EXCEPT ![n][c] = st] /\ status'[n][c] = st
    <2>1. status' = [status EXCEPT ![n][c] = st]
      BY <1>3 DEF Original!SetStatus, Original!Counted
    <2> QED
      BY <1>1, <1>2, <2>1 DEF StatusTypes
  <1>5. /\ \A t : Has(n, t, c)' <=> Has(n, t, c)
        /\ \A v : EnvoyIs(b, c, v) => EnvoyIs(b, c, v)'
    BY <1>1, <1>2, HasStep, PlannedStep
  <1>6. /\ StageOK(n, c)' /\ st \in Status
        /\ LastAnswer(s) <=> Remote(b) \subseteq st.slots[m.kind]
    <2>1. /\ n[1] \in BG /\ s = status[n][c]
          /\ \/ m.kind = "CONNECTIVITY" /\ s.state = "REPLICATED_CONNECTIVITY"
             \/ m.kind = "MEMBERSHIP" /\ s.state = "REPLICATED_MEMBERSHIP"
      BY <1>1 DEF Awaits
    <2>2. status'[n][c] = [s EXCEPT !.slots[m.kind] = @ \union {m.bg}, !.counter = @ + 1]
      BY <1>3, <1>4
    <2>3. status'[n][c] = st /\ storage' = storage
      BY <1>4
    <2> HIDE DEF n, c, s
    <2> QED
      BY <1>1, <1>2, <1>5, <2>1, <2>2, <2>3, StageAnswer
  <1>7. \A k \in Kind : \A o : o \in st.slots[k] <=> o \in s.slots[k] \/ (k = m.kind /\ o = m.bg)
    <2>1. s \in Status
      BY <1>1, <1>2 DEF StatusTypes
    <2> QED
      BY <1>1, <1>3, <2>1 DEF Original!Status
  <1>8. \A e \in extra : /\ n = Leader(b) /\ Remote(b) \subseteq st.slots[m.kind]
                         /\ e.requestType = NextStage(m.kind) /\ e.cycle = c
    BY <1>6 DEF Awaits
  <1> QED
    BY <1>4, <1>6, <1>7, <1>8, AnswerIInv

(* The handler of connectivity responses keeps the invariant.                 *)
LEMMA HandleConnectivityResponseIInv ==
    ASSUME IInv, NEW m \in net, HandleConnectivityResponse(m), voted' = voted
    PROVE  IInv'
  <1> DEFINE b == m.to[1]
             s == status[m.to][m.cycle]
             f == Work(LOCAL_MEMBERSHIP, m.cycle, m.bg)
  <1>1. /\ m.type = "RESPONSE" /\ m.to = Leader(b) /\ m.kind = "CONNECTIVITY"
        /\ Awaits(m) /\ SetStatus(m.to, m.cycle, Counted(m, s))
        /\ net' = net \ {m} /\ UNCHANGED <<applied, waiting, storage, voted>>
        /\ NextStage(m.kind) = LOCAL_MEMBERSHIP
    BY DEF HandleConnectivityResponse, Original!HandleConnectivityResponse, Original!ForLeader, Awaits, NextStage
  <1>2. PICK extra : extra = (IF LastAnswer(s) THEN {f} ELSE {})
    OBVIOUS
  <1>3. Queue(b, pending[b] \union extra)
    BY <1>2 DEF HandleConnectivityResponse, Original!HandleConnectivityResponse
  <1>4. b \in BG /\ LogTypes /\ LogOK(b) /\ m.bg \in BG
    BY <1>1, AwaitedAnswer, Parts DEF Original!Remote
  <1>5. WorkOK(b, pending[b] \union {f})
    <2>1. \A o \in BG : \A g : g = Work(NextStage(m.kind), m.cycle, o) => WorkOK(b, pending[b] \union {g})
      BY <1>1, AwaitedAnswer
    <2> QED
      BY <1>1, <1>4, <2>1
  <1>6. WorkOK(b, pending[b] \union extra)
    <2>1. WorkOK(b, pending[b]) /\ pending[b] \union {} = pending[b]
      BY <1>4, PendingIsWork
    <2> QED
      BY <1>2, <1>5, <2>1
  <1>7. LogStep(b, pending[b] \union extra)
    BY <1>1, <1>3, <1>4, <1>6, QueueIsLogStep
  <1>8. \A e \in extra : /\ LastAnswer(s)
                         /\ e.requestType = NextStage(m.kind) /\ e.cycle = m.cycle
    BY <1>1, <1>2 DEF Original!Work
  <1> QED
    BY <1>1, <1>6, <1>7, <1>8, CountedIInv

(* The handler of membership responses keeps the invariant.                   *)
LEMMA HandleMembershipResponseIInv ==
    ASSUME IInv, NEW m \in net, HandleMembershipResponse(m), voted' = voted
    PROVE  IInv'
  <1> DEFINE b == m.to[1]
             s == status[m.to][m.cycle]
             f == Work(FULL_MEMBERSHIP, m.cycle, b)
  <1>1. /\ m.type = "RESPONSE" /\ m.to = Leader(b) /\ m.kind = "MEMBERSHIP"
        /\ Awaits(m) /\ SetStatus(m.to, m.cycle, Counted(m, s))
        /\ net' = net \ {m} /\ UNCHANGED <<applied, waiting, storage, voted>>
        /\ NextStage(m.kind) = FULL_MEMBERSHIP
    BY DEF HandleMembershipResponse, Original!HandleMembershipResponse, Original!ForLeader, Original!AcceptsMembership, Awaits, NextStage
  <1>2. PICK extra : extra = (IF LastAnswer(s) THEN {f} ELSE {})
    OBVIOUS
  <1>3. /\ LastAnswer(s) => extra = {f} /\ Queue(b, pending[b] \union {f})
        /\ ~LastAnswer(s) => extra = {} /\ UNCHANGED <<log, scheduler>>
    BY <1>2 DEF HandleMembershipResponse, Original!HandleMembershipResponse, Original!scheduler, scheduler
  <1>4. b \in BG /\ LogTypes /\ LogOK(b)
    BY <1>1, AwaitedAnswer, Parts
  <1>5. WorkOK(b, pending[b] \union {f})
    <2>1. \A o \in BG : \A g : g = Work(NextStage(m.kind), m.cycle, o) => WorkOK(b, pending[b] \union {g})
      BY <1>1, AwaitedAnswer
    <2> QED
      BY <1>1, <1>4, <2>1
  <1>6. WorkOK(b, pending[b]) /\ pending[b] \union {} = pending[b]
    BY <1>4, PendingIsWork
  <1>7. WorkOK(b, pending[b] \union extra)
    BY <1>3, <1>5, <1>6
  <1>8. LogStep(b, pending[b] \union extra)
    <2>1. CASE LastAnswer(s)
      BY <1>1, <1>3, <1>4, <1>5, <2>1, QueueIsLogStep
    <2>2. CASE ~LastAnswer(s)
      BY <1>1, <1>3, <1>4, <1>6, <2>2, IdleIsLogStep
    <2> QED
      BY <2>1, <2>2
  <1>9. \A e \in extra : /\ LastAnswer(s)
                         /\ e.requestType = NextStage(m.kind) /\ e.cycle = m.cycle
    BY <1>1, <1>2 DEF Original!Work
  <1> QED
    BY <1>1, <1>7, <1>8, <1>9, CountedIInv

-----------------------------------------------------------------------------
(* The commits.  An SL that enters a stage answers those who asked before, and  *)
(* its envoy asks: what it asks for nobody has asked for yet.                   *)
LEMMA AskAndAnswerStep ==
    ASSUME IInv, KnowledgeGrows, NoNews, NEW n \in Node, NEW kind \in Kind, NEW c \in Cycle,
           NEW asks, AskAndAnswer(n, kind, c, asks), Some(n[1], AskType(kind), c)',
           NEW h \in Node, h = IF kind = "RESULT" THEN n ELSE Leader(n[1]),
           asks => ~AskedFor(h, kind, c) /\ AskedFor(h, kind, c)'
    PROVE  MailTypes' /\ (\A x \in Flight : FlightOK(x))' /\ AskedOnce'
  <1>0. h[1] = n[1] /\ Holds(h, kind)
    BY Groups DEF Holds
  <1> DEFINE b == n[1]
             Kept(w) == w \in waiting[n] /\ w[1] = kind /\ w[2] = c
             ResponseFor(w) == [type |-> "RESPONSE", kind |-> kind, cycle |-> c, bg |-> b, to |-> w[3]]
             RequestOf(d, s) == [type |-> "REQUEST", kind |-> kind, cycle |-> c, from |-> n, to |-> <<d, s>>]
  <1>1. MailTypes /\ b \in BG /\ n \in Node /\ Remote(b) \subseteq BG /\ b \notin Remote(b)
    BY Parts, Groups
  <1>2. waiting' = NoLongerWaiting(n, kind, c)
    BY DEF Original!AskAndAnswer
  <1>3. PICK pick \in [Remote(b) -> SL] :
           net' = net \union PendingResponses(n, kind, c)
                  \union (IF asks THEN EnvoyRequests(n, kind, c, pick) ELSE {})
    BY DEF Original!AskAndAnswer
  <1> DEFINE Old(z)     == z \in Flight /\ \A w : Kept(w) => z # KeptBy(n, w)
             Answer(z)  == \E w : Kept(w) /\ z = ResponseFor(w)
             Asking(z) == asks /\ \E d \in Remote(b) : z = RequestOf(d, pick[d])
  <1>4. /\ \A z \in net' : z \in net \/ Answer(z) \/ Asking(z)
        /\ \A m \in Node : \A w \in waiting'[m] : w \in waiting[m] /\ (m = n => ~Kept(w))
    <2>1. \A z \in net' : z \in net \/ Answer(z) \/ Asking(z)
      BY <1>3 DEF Original!PendingResponses, Original!EnvoyRequests
    <2>2. \A m \in Node : \A w \in waiting'[m] : w \in waiting[m] /\ (m = n => ~Kept(w))
      BY <1>1, <1>2 DEF Original!NoLongerWaiting, MailTypes
    <2> QED
      BY <2>1, <2>2
  <1>5. \A w : Kept(w) => /\ w[3] \in Node /\ KeptBy(n, w) \in Flight /\ ResponseFor(w) \in Response
                          /\ SameQuestion(ResponseFor(w), KeptBy(n, w)) /\ ResponseFor(w).type = "RESPONSE"
    <2> SUFFICES ASSUME NEW w, Kept(w)
                 PROVE  /\ w[3] \in Node /\ KeptBy(n, w) \in Flight /\ ResponseFor(w) \in Response
                        /\ SameQuestion(ResponseFor(w), KeptBy(n, w)) /\ ResponseFor(w).type = "RESPONSE"
      OBVIOUS
    <2>1. w[3] \in Node /\ KeptBy(n, w) \in Flight
      BY <1>1, FlightMembers
    <2> QED
      BY <1>1, <2>1 DEF Original!Response, SameQuestion, KeptBy, Asker, Holder, Askee
  <1>6. \A d \in Remote(b) : LET z == RequestOf(d, pick[d]) IN
           /\ z \in Request /\ z.kind = kind /\ z.cycle = c /\ z.type = "REQUEST"
           /\ Holder(z) = h /\ Askee(z) = d
    <2> SUFFICES ASSUME NEW d \in Remote(b), NEW z, z = RequestOf(d, pick[d])
                 PROVE  /\ z \in Request /\ z.kind = kind /\ z.cycle = c /\ z.type = "REQUEST"
                        /\ Holder(z) = h /\ Askee(z) = d
      OBVIOUS
    <2>1. <<d, pick[d]>> \in Node /\ <<d, pick[d]>>[1] = d
      BY <1>1, <1>3, Groups
    <2> QED
      BY <1>1, <2>1 DEF Original!Request, Asker, Holder, Askee
  <1>7. MailTypes'
    <2>1. \A z \in net' : z \in Request \union Response
      BY <1>1, <1>4, <1>5, <1>6 DEF MailTypes
    <2>2. waiting' \in [Node -> SUBSET (Kind \X Cycle \X Node)]
      BY <1>1, <1>2 DEF MailTypes, Original!NoLongerWaiting
    <2> QED
      BY <2>1, <2>2 DEF MailTypes
  <1>8. ASSUME NEW z \in Flight' PROVE Old(z) \/ Answer(z) \/ Asking(z)
    <2>1. CASE z \in net'
      <3>1. z \in net => Old(z)
        <4>1. z \in net => z.type # "KEPT" /\ z \in Flight
          BY <1>1, FlightMembers
        <4> QED
          BY <4>1 DEF KeptBy
      <3> QED
        BY <1>4, <2>1, <3>1
    <2>2. ASSUME NEW m \in Node, NEW w \in waiting'[m], z = KeptBy(m, w) PROVE Old(z)
      <3>1. w \in waiting[m] /\ z \in Flight
        BY <1>1, <1>4, <2>2, FlightMembers
      <3>2. ASSUME NEW v, Kept(v), z = KeptBy(n, v) PROVE FALSE
        <4>1. m = n /\ w[1] = v[1] /\ w[2] = v[2] /\ w[3] = v[3]
          BY <2>2, <3>2 DEF KeptBy
        <4> QED
          BY <1>4, <3>1, <3>2, <4>1
      <3> QED
        BY <3>1, <3>2
    <2> QED
      BY <2>1, <2>2 DEF Flight
  <1>9. \A x \in Flight : /\ FlightOK(x) /\ ~Have(Holder(x), Askee(x), x.kind, x.cycle)'
                          /\ Holder(x) \in Node /\ Askee(x) \in BG
    <2> SUFFICES ASSUME NEW x \in Flight
                 PROVE  /\ FlightOK(x) /\ ~Have(Holder(x), Askee(x), x.kind, x.cycle)'
                        /\ Holder(x) \in Node /\ Askee(x) \in BG
      OBVIOUS
    <2>1. FlightOK(x) /\ x.kind \in Kind /\ x.cycle \in Cycle /\ Holder(x) \in Node /\ Askee(x) \in BG
          /\ Askee(x) \in Remote(Holder(x)[1]) /\ Holds(Holder(x), x.kind)
      BY <1>1, Parts, FlightMembers DEF FlightOK
    <2> QED
      BY <2>1 DEF NoNews, FlightOK
  <1> HIDE DEF Old, Answer, Asking, ResponseFor, RequestOf, Kept
  <1>10. ASSUME NEW z \in Flight' PROVE FlightOK(z)'
    <2>1. CASE Old(z)
      <3>1. z \in Flight
        BY <2>1 DEF Old
      <3> QED
        BY <1>9, <3>1, FlightCarried
    <2>2. CASE Answer(z)
      <3>1. PICK w : Kept(w) /\ z = ResponseFor(w)
        BY <2>2 DEF Answer
      <3>2. PICK x \in Flight : SameQuestion(z, x)
        BY <1>5, <3>1
      <3>3. FlightOK(x)'
        BY <1>9, <3>2, FlightCarried
      <3>4. Askee(z) = b /\ z.kind = kind /\ z.cycle = c
        BY <3>1 DEF ResponseFor, Askee
      <3> QED
        BY <1>1, <3>2, <3>3, <3>4 DEF FlightOK, SameQuestion
    <2>3. CASE Asking(z)
      <3>1. PICK d \in Remote(b) : z = RequestOf(d, pick[d])
        BY <2>3 DEF Asking
      <3>2. z.kind = kind /\ z.cycle = c /\ z.type = "REQUEST" /\ Holder(z) = h /\ Askee(z) = d
        BY <1>6, <3>1
      <3>3. ~AskedFor(h, kind, c) /\ AskedFor(h, kind, c)'
        BY <2>3 DEF Asking
      <3>4. ~Have(h, d, kind, c)
        BY <1>1, <1>0, <3>3, Parts DEF HavesOK, HaveOK
      <3>5. ~Have(h, d, kind, c)'
        BY <1>1, <1>0, <3>4 DEF NoNews
      <3> QED
        BY <1>0, <3>2, <3>3, <3>5 DEF FlightOK
    <2> QED
      BY <1>8, <2>1, <2>2, <2>3
  <1>11. \A z : Asking(z) => \A x \in Flight : ~SameQuestion(z, x)
    <2> SUFFICES ASSUME NEW z, Asking(z), NEW x \in Flight, SameQuestion(z, x) PROVE FALSE
      OBVIOUS
    <2>1. AskedFor(Holder(x), x.kind, x.cycle)
      BY <1>9 DEF FlightOK
    <2>2. Holder(z) = h /\ z.kind = kind /\ z.cycle = c /\ ~AskedFor(h, kind, c)
      BY <1>6 DEF Asking
    <2> QED
      BY <2>1, <2>2 DEF SameQuestion
  <1>12. ASSUME NEW x \in Flight', NEW y \in Flight', SameQuestion(x, y) PROVE x = y
    <2>1. \A z : Answer(z) => \E w : Kept(w) /\ z = ResponseFor(w) /\ KeptBy(n, w) \in Flight
                                   /\ SameQuestion(z, KeptBy(n, w))
      BY <1>5 DEF Answer
    <2>2. \A z, w : Old(z) /\ Kept(w) => z # KeptBy(n, w)
      BY DEF Old
    <2>3. \A z : Old(z) => z \in Flight
      BY DEF Old
    <2>4. \A f, g \in Flight : SameQuestion(f, g) => f = g
      BY Parts DEF AskedOnce
    <2>5. /\ \A f, g : SameQuestion(f, g) => SameQuestion(g, f)
          /\ \A f, g, r : SameQuestion(f, g) /\ SameQuestion(g, r) => SameQuestion(f, r)
      BY DEF SameQuestion
    <2>6. \A f, g : Old(f) /\ Answer(g) => ~SameQuestion(f, g)
      BY <2>1, <2>2, <2>3, <2>4, <2>5
    <2>7. ASSUME NEW f, NEW g, Answer(f), Answer(g), SameQuestion(f, g) PROVE f = g
      <3>1. PICK v : Kept(v) /\ f = ResponseFor(v) /\ KeptBy(n, v) \in Flight /\ SameQuestion(f, KeptBy(n, v))
        BY <2>1, <2>7
      <3>2. PICK w : Kept(w) /\ g = ResponseFor(w) /\ KeptBy(n, w) \in Flight /\ SameQuestion(g, KeptBy(n, w))
        BY <2>1, <2>7
      <3>3. KeptBy(n, v) = KeptBy(n, w)
        BY <2>4, <2>5, <2>7, <3>1, <3>2
      <3>4. v[3] = w[3]
        BY <3>3 DEF KeptBy
      <3> QED
        BY <3>1, <3>2, <3>4 DEF ResponseFor
    <2>8. ASSUME NEW f, NEW g, Asking(f), Answer(g) PROVE ~SameQuestion(f, g)
      BY <1>11, <2>1, <2>5, <2>8
    <2>9. ASSUME NEW f, NEW g, Asking(f), Asking(g), SameQuestion(f, g) PROVE f = g
      <3>1. PICK d \in Remote(b) : f = RequestOf(d, pick[d])
        BY <2>9 DEF Asking
      <3>2. PICK a \in Remote(b) : g = RequestOf(a, pick[a])
        BY <2>9 DEF Asking
      <3>3. d = Askee(f) /\ a = Askee(g)
        BY <1>6, <3>1, <3>2
      <3> QED
        BY <2>9, <3>1, <3>2, <3>3 DEF SameQuestion
    <2>10. (Old(x) \/ Answer(x) \/ Asking(x)) /\ (Old(y) \/ Answer(y) \/ Asking(y))
      BY <1>8
    <2> QED
      BY <1>11, <1>12, <2>3, <2>4, <2>5, <2>6, <2>7, <2>8, <2>9, <2>10
  <1> QED
    BY <1>7, <1>10, <1>12 DEF AskedOnce

(* What every commit has in common: SL n applies entry e, for which all SLs of  *)
(* the group have voted, and the leader adds no work.                           *)
CommitWork(n, e) ==
    /\ CanCommit(n)
    /\ Certified(n)
    /\ e = NextEntry(n)
    /\ Finally(n, pending[n[1]])
    /\ voted' = voted

(* A commit makes one more entry applied at one SL, and plans nothing.        *)
LEMMA CommitStep ==
    ASSUME IInv, NEW n \in Node, NEW e, CommitWork(n, e)
    PROVE  /\ LogTypes' /\ LogGrows /\ KnowledgeGrows /\ VoteTypes'
           /\ \A a \in BG : LogOK(a)'
           /\ e \in Entry /\ e.cycle \in Cycle /\ n[1] \in BG
           /\ \A m \in Node : \A t, c :
                 Has(m, t, c)' <=> Has(m, t, c) \/ (m = n /\ Is(e, t, c))
           /\ \A a \in BG : \A c, v : EnvoyIs(a, c, v) => EnvoyIs(a, c, v)'
           /\ \A a \in BG : \A t, c : t # FROM_CLIENT => (Planned(a, t, c)' <=> Planned(a, t, c))
  <1> DEFINE b == n[1]
  <1>1. LogTypes /\ VoteTypes /\ b \in BG /\ \A a \in BG : LogOK(a)
    BY Parts, Groups
  <1>2. CanCommit(n) /\ Certified(n) /\ e = NextEntry(n) /\ voted' = voted /\ WorkOK(b, pending[b])
    BY <1>1, PendingIsWork DEF CommitWork
  <1>3. Applies(n) /\ LogStep(b, pending[b])
    <2>1. Finally(n, pending[b])
      BY DEF CommitWork
    <2> QED
      BY <1>1, <1>2, <2>1, FinallyIsLogStep
  <1>4. LogTypes' /\ LogGrows /\ KnowledgeGrows /\ \A a \in BG : LogOK(a)'
    BY <1>1, <1>2, <1>3, KnowledgeStep, LogStepOK, SchedGrows DEF LogStep
  <1>5. VoteTypes'
    <2>1. ASSUME NEW m \in Node, Applies(m) PROVE m = n
      <3>1. applied[m] \in Nat /\ applied'[m] = applied[m] + 1
        BY <1>1, <2>1 DEF Applies, LogTypes
      <3>2. m # n => applied'[m] = applied[m]
        BY <1>1, <1>3 DEF Applies, LogTypes
      <3> QED
        BY <3>1, <3>2
    <2> QED
      BY <1>1, <1>2, <1>3, <2>1, VotesCarried
  <1>6. e \in Entry /\ e.cycle \in Cycle
    BY <1>1, <1>2, NextIsNew DEF Original!Entry
  <1>7. \A m \in Node : \A t, c :
           Has(m, t, c)' <=> Has(m, t, c) \/ (m = n /\ Is(e, t, c))
    BY <1>1, <1>2, <1>3, HasStep
  <1>8. \A a \in BG : \A c, v : EnvoyIs(a, c, v) => EnvoyIs(a, c, v)'
    BY <1>1, <1>2, <1>3, PlannedStep
  <1>9. \A a \in BG : \A t, c : t # FROM_CLIENT => (Planned(a, t, c)' <=> Planned(a, t, c))
    <2>1. PICK extra : extra = {}
      OBVIOUS
    <2>2. pending[b] \union extra = pending[b]
      BY <2>1
    <2>3. WorkOK(b, pending[b] \union extra) /\ LogStep(b, pending[b] \union extra)
      BY <1>2, <1>3, <2>2
    <2>4. \A a \in BG : \A t, c : t # FROM_CLIENT =>
             (Planned(a, t, c)' <=> Planned(a, t, c) \/ (a = b /\ \E f \in extra : Is(f, t, c)))
      BY <1>1, <2>3, PlannedPlus
    <2> QED
      BY <2>1, <2>4
  <1> QED
    BY <1>1, <1>4, <1>5, <1>6, <1>7, <1>8, <1>9

(* The rest of a commit: the status of e's cycle at SL n.  What the SL has of   *)
(* the other groups stays the same, and so do all results.                      *)
CommitStatus(n, e, st) ==
    /\ status' = [status EXCEPT ![n][e.cycle] = st]
    /\ st \in Status
    /\ storage' \in [Node -> SUBSET Cycle]
    /\ \A m \in Node, c \in Cycle : m # n \/ c # e.cycle => (c \in storage'[m] <=> c \in storage[m])
    /\ \A k \in Kind, d \in Remote(n[1]) : Holds(n, k) =>
           (Have(n, d, k, e.cycle)' <=> Have(n, d, k, e.cycle))
    /\ Complete(n, e.cycle) => Has(n, FULL_MEMBERSHIP, e.cycle)' \/ Complete(n, e.cycle)'

(* A commit gives no SL an answer of another group.                           *)
LEMMA CommitHaves ==
    ASSUME IInv, NEW n \in Node, NEW e, NEW st, CommitWork(n, e), CommitStatus(n, e, st)
    PROVE  /\ \A m \in Node, c \in Cycle : m # n \/ c # e.cycle => status'[m][c] = status[m][c]
           /\ \A m \in Node, c \in Cycle, k \in Kind : \A d \in Remote(m[1]) :
                 Holds(m, k) => (Have(m, d, k, c)' <=> Have(m, d, k, c))
  <1>1. StatusTypes
    BY Parts
  <1>2. /\ e.cycle \in Cycle
        /\ \A m \in Node : \A t, c :
              Has(m, t, c)' <=> Has(m, t, c) \/ (m = n /\ Is(e, t, c))
    BY CommitStep
  <1>3. \A m \in Node, c \in Cycle : m # n \/ c # e.cycle => status'[m][c] = status[m][c]
    BY <1>1, <1>2 DEF CommitStatus, StatusTypes
  <1>4. ASSUME NEW m \in Node, NEW c \in Cycle, NEW k \in Kind, NEW d \in Remote(m[1]), Holds(m, k)
        PROVE  Have(m, d, k, c)' <=> Have(m, d, k, c)
    <2>1. CASE m = n /\ c = e.cycle
      BY <1>4, <2>1 DEF CommitStatus
    <2>2. CASE m # n \/ c # e.cycle
      <3>1. status'[m][c] = status[m][c]
        BY <1>3, <2>2
      <3>2. Has(m, FULL_MEMBERSHIP, c)' <=> Has(m, FULL_MEMBERSHIP, c)
        BY <1>2, <2>2 DEF Is
      <3> QED
        BY <3>1, <3>2 DEF Have
    <2> QED
      BY <2>1, <2>2
  <1> QED
    BY <1>3, <1>4

(* A commit keeps the plan of every group in order.                           *)
LEMMA CommitPlan ==
    ASSUME IInv, NEW n \in Node, NEW e, NEW st, CommitWork(n, e), CommitStatus(n, e, st),
           NEW a \in BG, NEW c \in Cycle
    PROVE  PlanOK(a, c)'
  <1>1. PlanOK(a, c) /\ Leader(a) \in Node /\ Leader(a)[1] = a /\ \A k : Holds(Leader(a), k)
    BY Parts, Groups DEF Holds
  <1>2. \A t : Has(Leader(a), t, c) => Has(Leader(a), t, c)'
    BY <1>1, CommitStep
  <1>3. \A t : t # FROM_CLIENT /\ Planned(a, t, c)' => Planned(a, t, c)
    BY CommitStep
  <1>4. \A k \in Kind, d \in Remote(a) : Have(Leader(a), d, k, c)' <=> Have(Leader(a), d, k, c)
    BY <1>1, CommitHaves
  <1> QED
    BY <1>1, <1>2, <1>3, <1>4, PlanCarried

(* A commit keeps the invariant if it does so for the status of its cycle     *)
(* and for the mail.                                                          *)
LEMMA CommitIInv ==
    ASSUME IInv, NEW n \in Node, NEW e, NEW st, CommitWork(n, e),
           CommitStatus(n, e, st), StageOK(n, e.cycle)',
           MailTypes', (\A x \in Flight : FlightOK(x))', AskedOnce'
    PROVE  IInv'
  <1>1. LogTypes /\ VoteTypes /\ StatusTypes /\ n[1] \in BG
    BY Parts, Groups
  <1>2. /\ LogTypes' /\ LogGrows /\ KnowledgeGrows /\ VoteTypes' /\ e.cycle \in Cycle
        /\ \A a \in BG : LogOK(a)'
        /\ \A m \in Node : \A t, c :
              Has(m, t, c)' <=> Has(m, t, c) \/ (m = n /\ Is(e, t, c))
        /\ \A a \in BG : \A c, v : EnvoyIs(a, c, v) => EnvoyIs(a, c, v)'
    BY CommitStep
  <1>3. \A m \in Node, c \in Cycle : m # n \/ c # e.cycle => status'[m][c] = status[m][c]
    BY CommitHaves
  <1>4. StatusTypes'
    BY <1>1, <1>2 DEF CommitStatus, StatusTypes
  <1>5. ASSUME NEW m \in Node, NEW c \in Cycle PROVE StageOK(m, c)'
    <2>1. CASE m = n /\ c = e.cycle
      BY <2>1
    <2>2. CASE m # n \/ c # e.cycle
      <3>1. /\ StageOK(m, c) /\ m[1] \in BG /\ status'[m][c] = status[m][c]
            /\ c \in storage'[m] <=> c \in storage[m]
            /\ \A t : Has(m, t, c)' <=> Has(m, t, c)
        BY <1>2, <1>3, <2>2, Parts, Groups DEF CommitStatus, Is
      <3> QED
        BY <1>2, <3>1, StageSame
    <2> QED
      BY <2>1, <2>2
  <1>6. NoNews
    BY CommitHaves DEF NoNews
  <1>7. ASSUME NEW m \in Node PROVE VoteOK(m)'
    <2>1. ASSUME NEW c \in Cycle, Complete(m, c) PROVE Has(m, FULL_MEMBERSHIP, c)' \/ Complete(m, c)'
      <3>1. CASE m = n /\ c = e.cycle
        BY <2>1, <3>1 DEF CommitStatus
      <3>2. CASE m # n \/ c # e.cycle
        BY <1>3, <2>1, <3>2 DEF Complete
      <3> QED
        BY <3>1, <3>2
    <2>2. VoteOK(m) /\ voted' = voted /\ \A t, c : Has(m, t, c) => Has(m, t, c)'
      BY <1>2, Parts DEF CommitWork
    <2> QED
      BY <1>1, <1>2, <2>1, <2>2, VoteCarried
  <1>8. \A a \in BG, c \in Cycle : PlanOK(a, c)'
    BY CommitPlan
  <1>9. HavesOK'
    BY <1>2, <1>6, HavesCarried
  <1> QED
    BY <1>2, <1>4, <1>5, <1>7, <1>8, <1>9, PartsNext

(* Results are asked for by every SL, the rest by the envoy of the cycle, and   *)
(* not before the SL that asks enters the stage.                                *)
LEMMA EnvoyAsks ==
    ASSUME IInv, NEW n \in Node, NEW e, CommitWork(n, e),
           NEW kind, AskType(kind) = e.requestType, e.requestType # FETCHED_RESULT,
           NEW envoy, EnvoyIs(n[1], e.cycle, envoy),
           NEW h, h = IF kind = "RESULT" THEN n ELSE Leader(n[1])
    PROVE  /\ Some(n[1], AskType(kind), e.cycle)'
           /\ kind = "RESULT" \/ IsPrimaryEnvoy(n, envoy) =>
                 ~AskedFor(h, kind, e.cycle) /\ AskedFor(h, kind, e.cycle)'
  <1> DEFINE b == n[1]
             c == e.cycle
  <1>1. /\ LogTypes /\ b \in BG /\ n[2] \in SL /\ n = <<b, n[2]>> /\ \A a \in BG : LogOK(a)
        /\ Leader(b)[1] = b
    BY Parts, Groups
  <1>2. /\ \A m \in Node : \A t, d :
              Has(m, t, d)' <=> Has(m, t, d) \/ (m = n /\ Is(e, t, d))
        /\ \A a \in BG : \A d, v : EnvoyIs(a, d, v) => EnvoyIs(a, d, v)'
    BY CommitStep
  <1>3. ~Has(n, e.requestType, c)
    BY <1>1, NextIsNew DEF CommitWork
  <1>4. Has(n, e.requestType, c)'
    BY <1>2 DEF Is
  <1>5. Some(b, AskType(kind), c)'
    BY <1>1, <1>4 DEF Some
  <1>6. CASE kind = "RESULT"
    BY <1>3, <1>4, <1>5, <1>6 DEF AskedFor, AskType
  <1>7. CASE kind # "RESULT"
    <2>1. h[1] = b
      BY <1>1, <1>7
    <2>2. ASSUME IsPrimaryEnvoy(n, envoy) PROVE ~AskedFor(h, kind, c) /\ AskedFor(h, kind, c)'
      <3>1. n = <<b, envoy>> /\ envoy \in SL
        BY <1>1, <2>2 DEF Original!IsPrimaryEnvoy
      <3>2. ASSUME NEW v \in SL, EnvoyIs(b, c, v), Has(<<b, v>>, AskType(kind), c) PROVE FALSE
        <4>1. v = envoy
          BY <1>1, <3>2, OneEnvoy
        <4> QED
          BY <1>3, <3>1, <3>2, <4>1
      <3>3. EnvoyIs(b, c, envoy)'
        BY <1>1, <1>2
      <3>4. Has(<<b, envoy>>, AskType(kind), c)'
        BY <1>4, <3>1
      <3> QED
        BY <1>7, <2>1, <3>1, <3>2, <3>3, <3>4 DEF AskedFor
    <2> QED
      BY <1>5, <1>7, <2>2
  <1> QED
    BY <1>6, <1>7
(* The commit of a batch keeps the invariant.                                 *)
LEMMA CommitFromClientIInv ==
    ASSUME IInv, NEW n \in Node, CanCommit(n), Certified(n), CommitFromClient(n, NextEntry(n)), voted' = voted
    PROVE  IInv'
  <1> DEFINE b == n[1]
  <1>1. PICK e : e = NextEntry(n)
    OBVIOUS
  <1>2. PICK st : st = [Unknown EXCEPT !.state = "REPLICATED_RESULTS", !.slots["RESULT"] = {b}, !.envoy = e.envoy]
    OBVIOUS
  <1>3. /\ e.requestType = FROM_CLIENT /\ status' = [status EXCEPT ![n][e.cycle] = st]
        /\ AskAndAnswer(n, "RESULT", e.cycle, TRUE)
        /\ storage' = storage /\ Finally(n, pending[b])
    BY <1>1, <1>2 DEF CommitFromClient, Original!SetStatus
  <1>4. CommitWork(n, e)
    BY <1>1, <1>3 DEF CommitWork
  <1>5. LogTypes /\ StatusTypes /\ b \in BG /\ \A a \in BG : LogOK(a)
    BY Parts, Groups
  <1>6. /\ e \in Entry /\ e.cycle \in Cycle /\ KnowledgeGrows
        /\ \A m \in Node : \A t, c :
              Has(m, t, c)' <=> Has(m, t, c) \/ (m = n /\ Is(e, t, c))
        /\ \A a \in BG : \A c, v : EnvoyIs(a, c, v) => EnvoyIs(a, c, v)'
    BY <1>4, CommitStep
  <1>7. StageOK(n, e.cycle)
    BY <1>6, Parts
  <1>8. status[n][e.cycle] = Unknown /\ ~Has(n, FULL_MEMBERSHIP, e.cycle)
    <2>1. StateOf(n, e.cycle) = "NONE" /\ ~Has(n, FULL_MEMBERSHIP, e.cycle)
      BY <1>1, <1>3, <1>5, StageBefore
    <2> QED
      BY <1>7, <2>1 DEF StageOK
  <1>9. EnvoyIs(b, e.cycle, e.envoy)
    <2>1. applied[n] + 1 \in 1..Len(log[b]) /\ e = log[b][applied[n] + 1]
      BY <1>1, <1>5 DEF Original!CanCommit, NextEntry, LogTypes
    <2>2. Is(e, FROM_CLIENT, e.cycle)
      BY <1>3 DEF Is
    <2> QED
      BY <2>1, <2>2 DEF EnvoyIs
  <1>10. st \in Status
    <2>1. e.envoy \in SL /\ 0 \in 0..NumBG
      BY <1>6, SizeAssumption, Count, FS_CardinalityType DEF Original!Entry
    <2> QED
      BY <1>2, <1>5, <2>1 DEF Original!Status, Original!Unknown, Original!States, Original!Kind
  <1>11. status'[n][e.cycle] = st
    BY <1>3, <1>5, <1>6 DEF StatusTypes
  <1>12. StageOK(n, e.cycle)'
    <2>1. AppliesOf(n, e.cycle, e) /\ EnvoyIs(b, e.cycle, e.envoy)'
      BY <1>5, <1>6, <1>9 DEF AppliesOf
    <2> QED
      BY <1>1, <1>2, <1>3, <1>5, <1>6, <1>7, <1>11, <2>1, StageFromClient
  <1>13. ASSUME NEW k \in Kind, NEW d \in Remote(b)
         PROVE  Have(n, d, k, e.cycle)' <=> Have(n, d, k, e.cycle)
    <2>1. ~Have(n, d, k, e.cycle)
      BY <1>8, <1>13 DEF Have, Original!Unknown, Original!Kind
    <2>2. ~Has(n, FULL_MEMBERSHIP, e.cycle)'
      BY <1>3, <1>6, <1>8 DEF Is, Original!FROM_CLIENT, Original!FULL_MEMBERSHIP
    <2>3. d \notin st.slots[k]
      BY <1>2, <1>13 DEF Original!Unknown, Original!Kind, Original!Remote
    <2> QED
      BY <1>11, <1>13, <2>1, <2>2, <2>3 DEF Have
  <1>14. CommitStatus(n, e, st)
    <2>1. ~Complete(n, e.cycle)
      <3>1. status[n][e.cycle].slots["RESULT"] = {}
        BY <1>8 DEF Original!Unknown, Original!Kind
      <3> QED
        BY <1>5, <3>1 DEF Complete
    <2> QED
      BY <1>3, <1>5, <1>10, <1>13, <2>1 DEF CommitStatus, StatusTypes
  <1>15. MailTypes' /\ (\A x \in Flight : FlightOK(x))' /\ AskedOnce'
    <2>1. AskType("RESULT") = e.requestType /\ e.requestType # FETCHED_RESULT /\ "RESULT" \in Kind
      BY <1>3 DEF AskType, Original!Kind, Original!FROM_CLIENT, Original!FETCHED_RESULT
    <2>2. NoNews
      BY <1>4, <1>14, CommitHaves DEF NoNews
    <2>3. /\ Some(b, AskType("RESULT"), e.cycle)'
          /\ ~AskedFor(n, "RESULT", e.cycle) /\ AskedFor(n, "RESULT", e.cycle)'
      BY <1>4, <1>9, <2>1, EnvoyAsks
    <2> QED
      BY <1>3, <1>6, <2>1, <2>2, <2>3, AskAndAnswerStep
  <1> QED
    BY <1>4, <1>12, <1>14, <1>15, CommitIInv

(* The commit of the group's own connectivity or membership keeps the         *)
(* invariant.                                                                 *)
LEMMA CommitLocalIInv ==
    ASSUME IInv, NEW n \in Node, CanCommit(n), Certified(n), voted' = voted, NEW t, NEW kind, NEW state,
           \/ t = LOCAL_CONNECTIVITY /\ kind = "CONNECTIVITY" /\ state = "REPLICATED_CONNECTIVITY"
           \/ t = LOCAL_MEMBERSHIP /\ kind = "MEMBERSHIP" /\ state = "REPLICATED_MEMBERSHIP",
           CommitLocal(n, NextEntry(n), t, kind, state)
    PROVE  IInv'
  <1> DEFINE b == n[1]
  <1>1. PICK e : e = NextEntry(n)
    OBVIOUS
  <1>2. PICK h \in Node : h = Leader(b)
    BY Groups
  <1>3. PICK s : s = status[n][e.cycle]
    OBVIOUS
  <1>4. PICK st : st = Entered(s, state, kind, b)
    OBVIOUS
  <1>5. /\ e.requestType = t /\ status' = [status EXCEPT ![n][e.cycle] = st] /\ Known(n, e.cycle)
        /\ AskAndAnswer(n, kind, e.cycle, IsPrimaryEnvoy(n, s.envoy))
        /\ storage' = storage /\ Finally(n, pending[b])
    BY <1>1, <1>3, <1>4 DEF Original!CommitLocal, Original!SetStatus, Entered
  <1>6. CommitWork(n, e)
    BY <1>1, <1>5 DEF CommitWork
  <1>7. LogTypes /\ StatusTypes /\ VoteTypes /\ b \in BG /\ \A a \in BG : LogOK(a)
    BY Parts, Groups
  <1>8. /\ e \in Entry /\ e.cycle \in Cycle /\ KnowledgeGrows
        /\ \A m \in Node : \A u, c :
              Has(m, u, c)' <=> Has(m, u, c) \/ (m = n /\ Is(e, u, c))
        /\ \A a \in BG : \A c, v : EnvoyIs(a, c, v) => EnvoyIs(a, c, v)'
    BY <1>6, CommitStep
  <1>9. StageOK(n, e.cycle) /\ s \in Status
    BY <1>3, <1>7, <1>8, Parts DEF StatusTypes
  <1>10. EnvoyIs(b, e.cycle, s.envoy)
    BY <1>3, <1>5, <1>9 DEF StageOK, Original!Known
  <1>11. status'[n][e.cycle] = st
    BY <1>5, <1>7, <1>8 DEF StatusTypes
  <1>12. kind \in Kind /\ "RESULT" \in Kind /\ kind # "RESULT"
    BY DEF Original!Kind
  <1>13. StageOK(n, e.cycle)' /\ st \in Status
    <2>1. AppliesOf(n, e.cycle, e)
      BY <1>7, <1>8 DEF AppliesOf
    <2>2. \/ /\ e.requestType = LOCAL_CONNECTIVITY
             /\ kind = "CONNECTIVITY" /\ state = "REPLICATED_CONNECTIVITY"
          \/ /\ e.requestType = LOCAL_MEMBERSHIP
             /\ kind = "MEMBERSHIP" /\ state = "REPLICATED_MEMBERSHIP"
      BY <1>5
    <2>3. \A v : EnvoyIs(b, e.cycle, v) => EnvoyIs(b, e.cycle, v)'
      BY <1>7, <1>8
    <2>4. status'[n][e.cycle] = Entered(s, state, kind, b)
      BY <1>4, <1>11
    <2>5. e.cycle \in Cycle /\ StageOK(n, e.cycle) /\ storage' = storage
      BY <1>5, <1>8, <1>9
    <2>6. e.requestType = LOCAL_CONNECTIVITY => Complete(n, e.cycle)
      <3>1. applied[n] < voted[n] /\ VoteOK(n)
        BY Parts DEF Certified
      <3> QED
        BY <1>1, <1>7, <3>1, VoteBefore
    <2>7. StageOK(n, e.cycle)' /\ status'[n][e.cycle] \in Status
      BY <1>1, <1>3, <1>7, <1>12, <2>1, <2>2, <2>3, <2>4, <2>5, <2>6, StageLocal
    <2> QED
      BY <1>11, <2>7
  <1>14. \A k \in Kind : \A d : d # b \/ k # kind => (d \in st.slots[k] <=> d \in s.slots[k])
    <2>1. s.slots \in [Kind -> SUBSET BG]
      BY <1>9 DEF Original!Status
    <2>2. st.slots = [s.slots EXCEPT ![kind] = @ \union {b}]
      BY <1>4, <1>9 DEF Original!Status, Entered
    <2> QED
      BY <1>12, <2>1, <2>2
  <1>15. ASSUME NEW k \in Kind, NEW d \in Remote(b)
         PROVE  Have(n, d, k, e.cycle)' <=> Have(n, d, k, e.cycle)
    <2>1. Has(n, FULL_MEMBERSHIP, e.cycle)' <=> Has(n, FULL_MEMBERSHIP, e.cycle)
      BY <1>5, <1>8 DEF Is, Original!LOCAL_CONNECTIVITY, Original!LOCAL_MEMBERSHIP, Original!FULL_MEMBERSHIP
    <2>2. d \in st.slots[k] <=> d \in s.slots[k]
      BY <1>14 DEF Original!Remote
    <2> QED
      BY <1>3, <1>11, <2>1, <2>2 DEF Have
  <1>16. Complete(n, e.cycle) => Complete(n, e.cycle)'
    <2>1. st.slots["RESULT"] = s.slots["RESULT"]
      <3>1. st.slots["RESULT"] \in SUBSET BG /\ s.slots["RESULT"] \in SUBSET BG
        BY <1>9, <1>12, <1>13 DEF Original!Status
      <3>2. \A d : d \in st.slots["RESULT"] <=> d \in s.slots["RESULT"]
        BY <1>12, <1>14
      <3> QED
        BY <3>1, <3>2
    <2> QED
      BY <1>3, <1>11, <2>1 DEF Complete
  <1>17. CommitStatus(n, e, st)
    BY <1>5, <1>7, <1>13, <1>15, <1>16 DEF CommitStatus, StatusTypes
  <1>18. MailTypes' /\ (\A x \in Flight : FlightOK(x))' /\ AskedOnce'
    <2>1. AskType(kind) = e.requestType /\ e.requestType # FETCHED_RESULT
      BY <1>5 DEF AskType, Original!FETCHED_RESULT, Original!LOCAL_CONNECTIVITY, Original!LOCAL_MEMBERSHIP
    <2>2. NoNews
      BY <1>6, <1>17, CommitHaves DEF NoNews
    <2>3. h = IF kind = "RESULT" THEN n ELSE Leader(b)
      BY <1>2, <1>12
    <2>4. /\ Some(b, AskType(kind), e.cycle)'
          /\ IsPrimaryEnvoy(n, s.envoy) => ~AskedFor(h, kind, e.cycle) /\ AskedFor(h, kind, e.cycle)'
      BY <1>6, <1>10, <2>1, <2>3, EnvoyAsks
    <2>5. PICK asks : asks = IsPrimaryEnvoy(n, s.envoy)
      OBVIOUS
    <2> QED
      BY <1>5, <1>8, <1>12, <2>2, <2>3, <2>4, <2>5, AskAndAnswerStep
  <1> QED
    BY <1>6, <1>13, <1>17, <1>18, CommitIInv

(* The commit of the full membership keeps the invariant.                     *)
LEMMA CommitFullMembershipIInv ==
    ASSUME IInv, NEW n \in Node, CanCommit(n), Certified(n), CommitFullMembership(n, NextEntry(n)), voted' = voted
    PROVE  IInv'
  <1> DEFINE b == n[1]
  <1>1. PICK e : e = NextEntry(n)
    OBVIOUS
  <1>2. PICK st : st = Unknown
    OBVIOUS
  <1>3. /\ e.requestType = FULL_MEMBERSHIP /\ status' = [status EXCEPT ![n][e.cycle] = st] /\ Known(n, e.cycle)
        /\ storage' = [storage EXCEPT ![n] = @ \union {e.cycle}]
        /\ UNCHANGED <<waiting, net>> /\ Finally(n, pending[b])
    BY <1>1, <1>2 DEF CommitFullMembership, Original!CommitFullMembership, Original!SetStatus
  <1>4. CommitWork(n, e)
    BY <1>1, <1>3 DEF CommitWork
  <1>5. LogTypes /\ StatusTypes /\ b \in BG /\ \A a \in BG : LogOK(a)
    BY Parts, Groups
  <1>6. /\ e \in Entry /\ e.cycle \in Cycle /\ KnowledgeGrows
        /\ \A m \in Node : \A t, c :
              Has(m, t, c)' <=> Has(m, t, c) \/ (m = n /\ Is(e, t, c))
    BY <1>4, CommitStep
  <1>7. StageOK(n, e.cycle) /\ PlanOK(b, e.cycle)
    BY <1>5, <1>6, Parts
  <1>8. status'[n][e.cycle] = st
    BY <1>3, <1>5, <1>6 DEF StatusTypes
  <1>9. StageOK(n, e.cycle)'
    <2>1. AppliesOf(n, e.cycle, e)
      BY <1>5, <1>6 DEF AppliesOf
    <2> QED
      BY <1>1, <1>2, <1>3, <1>5, <1>6, <1>7, <1>8, <2>1, StageFullMembership
  <1>10. st \in Status
    <2>1. 0 \in SL /\ 0 \in 0..NumBG
      BY Groups, SizeAssumption, Count, FS_CardinalityType
    <2> QED
      BY <1>2, <2>1 DEF Original!Status, Original!Unknown, Original!States, Original!Kind
  <1>11. Has(n, FULL_MEMBERSHIP, e.cycle)'
    BY <1>3, <1>6 DEF Is
  <1>12. Has(n, LOCAL_CONNECTIVITY, e.cycle) /\ status[n][e.cycle].slots["RESULT"] = BG
    <2>1. StateOf(n, e.cycle) = "REPLICATED_MEMBERSHIP"
      BY <1>1, <1>3, <1>5, StageBefore, Stages
    <2>2. Has(n, LOCAL_MEMBERSHIP, e.cycle)
      BY <2>1 DEF StateOf
    <2>3. Has(n, LOCAL_CONNECTIVITY, e.cycle)
      BY <1>5, <2>2, Chain
    <2> QED
      BY <1>3, <1>7, <2>3 DEF StageOK, SlotsOK, Original!Known
  <1>13. ASSUME NEW k \in Kind, NEW d \in Remote(b), Holds(n, k)
         PROVE  Have(n, d, k, e.cycle)' /\ Have(n, d, k, e.cycle)
    <2>1. CASE k = "RESULT"
      BY <1>11, <1>12, <2>1 DEF Have, Original!Remote
    <2>2. CASE k # "RESULT"
      <3>1. n = Leader(b) /\ k \in {"CONNECTIVITY", "MEMBERSHIP"}
        BY <1>13, <2>2 DEF Holds, Original!Kind
      <3>2. Planned(b, FULL_MEMBERSHIP, e.cycle)
        <4>1. InLog(b, FULL_MEMBERSHIP, e.cycle)
          BY <1>1, <1>3, <1>4, <1>5, NextIsNew DEF CommitWork
        <4> QED
          BY <4>1 DEF Planned
      <3>3. Has(n, LOCAL_MEMBERSHIP, e.cycle) /\ Have(n, d, "MEMBERSHIP", e.cycle)
        BY <1>7, <3>1, <3>2 DEF PlanOK
      <3>4. Planned(b, LOCAL_MEMBERSHIP, e.cycle)
        BY <1>5, <3>3, HasIsPlanned
      <3>5. Have(n, d, "CONNECTIVITY", e.cycle)
        BY <1>7, <3>1, <3>4 DEF PlanOK
      <3> QED
        BY <1>11, <3>1, <3>3, <3>5 DEF Have
    <2> QED
      BY <2>1, <2>2
  <1>14. CommitStatus(n, e, st)
    <2>1. /\ storage' \in [Node -> SUBSET Cycle]
          /\ \A m \in Node, c \in Cycle : m # n \/ c # e.cycle => (c \in storage'[m] <=> c \in storage[m])
      BY <1>3, <1>5, <1>6 DEF StatusTypes
    <2> QED
      BY <1>3, <1>10, <1>11, <1>13, <2>1 DEF CommitStatus
  <1>15. MailTypes' /\ (\A x \in Flight : FlightOK(x))' /\ AskedOnce'
    <2>1. NoNews
      BY <1>4, <1>14, CommitHaves DEF NoNews
    <2> QED
      BY <1>3, <1>6, <2>1, MailSame
  <1> QED
    BY <1>4, <1>9, <1>14, <1>15, CommitIInv
(* Every commit keeps the invariant.                                          *)
LEMMA CommitKeepsIInv ==
    ASSUME IInv, NEW n \in Node, Commit(n)
    PROVE  IInv'
  <1>1. Certified(n) /\ voted' = voted
    BY DEF Commit
  <1>2. CanCommit(n)
    BY <1>1, Parts, CertifiedCanCommit
  <1>3. CASE CommitFromClient(n, NextEntry(n))
    BY <1>1, <1>2, <1>3, CommitFromClientIInv
  <1>4. CASE CommitLocalConnectivity(n, NextEntry(n))
    <2>1. CommitLocal(n, NextEntry(n), LOCAL_CONNECTIVITY, "CONNECTIVITY", "REPLICATED_CONNECTIVITY")
      BY <1>4 DEF CommitLocalConnectivity, Original!CommitLocalConnectivity
    <2> QED
      BY <1>1, <1>2, <2>1, CommitLocalIInv
  <1>5. CASE CommitLocalMembership(n, NextEntry(n))
    <2>1. CommitLocal(n, NextEntry(n), LOCAL_MEMBERSHIP, "MEMBERSHIP", "REPLICATED_MEMBERSHIP")
      BY <1>5 DEF CommitLocalMembership, Original!CommitLocalMembership
    <2> QED
      BY <1>1, <1>2, <2>1, CommitLocalIInv
  <1>6. CASE CommitFullMembership(n, NextEntry(n))
    BY <1>1, <1>2, <1>6, CommitFullMembershipIInv
  <1> QED
    BY <1>3, <1>4, <1>5, <1>6 DEF Commit, NextEntry

(* Every step keeps the invariant.                                            *)
LEMMA NextIInv == IInv /\ [Next]_vars => IInv'
  <1> SUFFICES ASSUME IInv, [Next]_vars PROVE IInv'
    OBVIOUS
  <1>1. CASE \E b \in BG : ReceiveBatch(b)
    BY <1>1, ReceiveBatchIInv
  <1>2. CASE \E n \in Node : Vote(n)
    BY <1>2, VoteIInv
  <1>3. CASE \E n \in Node : Commit(n)
    BY <1>3, CommitKeepsIInv
  <1>4. CASE \E m \in net : Handle(m)
    BY <1>4, HandleRequestIInv, ForwardResponseIInv, HandleFetchResponseIInv,
       HandleConnectivityResponseIInv, HandleMembershipResponseIInv DEF Handle
  <1>5. CASE UNCHANGED vars
    <2>1. PICK b \in BG : TRUE
      BY MostBatches
    <2>2. UNCHANGED <<log, applied, scheduler, status, storage>> /\ UNCHANGED <<waiting, net>> /\ voted' = voted
      BY <1>5 DEF vars
    <2>3. /\ LogTypes' /\ StatusTypes' /\ VoteTypes' /\ KnowledgeGrows /\ NoNews
          /\ \A a \in BG : LogOK(a)'
          /\ \A n \in Node : VoteOK(n)'
          /\ \A n \in Node, c \in Cycle : StageOK(n, c)'
          /\ \A a \in BG, c \in Cycle : PlanOK(a, c)'
      BY <2>1, <2>2, IdleStep
    <2>4. MailTypes' /\ (\A x \in Flight : FlightOK(x))' /\ AskedOnce'
      BY <2>2, <2>3, MailSame
    <2> QED
      BY <2>3, <2>4, HavesCarried, PartsNext
  <1> QED
    BY <1>1, <1>2, <1>3, <1>4, <1>5 DEF Next

(* The invariant from which everything below follows.                           *)
THEOREM SpecIInv == Spec => []IInv
  <1>1. Init => IInv
    BY InitIInv
  <1>2. IInv /\ [Next]_vars => IInv'
    BY NextIInv
  <1> QED
    BY <1>1, <1>2, PTL DEF Spec

-----------------------------------------------------------------------------
(* What the invariant means for the properties.                                 *)

(* When an SL has finished a cycle, every other group has the result and the    *)
(* connectivity of its group: the leader the connectivity, every SL the result. *)
LEMMA FinishedEverywhere ==
    ASSUME IInv, NEW n \in Node, NEW c \in Cycle, c \in storage[n]
    PROVE  \A a \in Remote(n[1]) :
              /\ Have(Leader(a), n[1], "CONNECTIVITY", c)
              /\ \A h \in Node : h[1] = a => Have(h, n[1], "RESULT", c)
  <1> DEFINE d == n[1]
  <1>1. LogTypes /\ d \in BG /\ (\A a \in BG : LogOK(a)) /\ StageOK(n, c) /\ PlanOK(d, c)
    BY Parts, Groups
  <1>2. Has(n, FULL_MEMBERSHIP, c)
    BY <1>1 DEF StageOK
  <1>3. Planned(d, FULL_MEMBERSHIP, c)
    BY <1>1, <1>2, HasIsPlanned
  <1> SUFFICES ASSUME NEW a \in Remote(d)
               PROVE  /\ Have(Leader(a), d, "CONNECTIVITY", c)
                      /\ \A h \in Node : h[1] = a => Have(h, d, "RESULT", c)
    OBVIOUS
  <1>4. a \in BG /\ d \in Remote(a) /\ Leader(a) \in Node /\ Leader(a)[1] = a
        /\ Leader(d) \in Node /\ Leader(d)[1] = d /\ Holds(Leader(d), "MEMBERSHIP") /\ "MEMBERSHIP" \in Kind
    BY <1>1, Groups DEF Original!Remote, Original!Kind, Holds
  <1>5. Some(a, LOCAL_MEMBERSHIP, c)
    <2>1. Have(Leader(d), a, "MEMBERSHIP", c)
      BY <1>1, <1>3 DEF PlanOK
    <2>2. HaveOK(Leader(d), a, "MEMBERSHIP", c)
      BY <1>4, Parts DEF HavesOK
    <2> QED
      BY <2>1, <2>2 DEF HaveOK, AskType
  <1>6. Have(Leader(a), d, "CONNECTIVITY", c)
    <2>1. Planned(a, LOCAL_MEMBERSHIP, c)
      BY <1>1, <1>4, <1>5, HasIsPlanned
    <2> QED
      BY <1>4, <2>1, Parts DEF PlanOK
  <1>7. ASSUME NEW h \in Node, h[1] = a PROVE Have(h, d, "RESULT", c)
    <2>1. Has(h, LOCAL_CONNECTIVITY, c) /\ StageOK(h, c)
      BY <1>1, <1>4, <1>5, <1>7, GroupChain, Parts
    <2>2. Has(h, FROM_CLIENT, c)
      BY <1>1, <2>1, Chain
    <2>3. CASE Has(h, FULL_MEMBERSHIP, c)
      BY <2>3 DEF Have
    <2>4. CASE ~Has(h, FULL_MEMBERSHIP, c)
      <3>1. SlotsOK(h, c)
        BY <2>1, <2>2, <2>4 DEF StageOK, StateOf
      <3> QED
        BY <1>1, <2>1, <3>1 DEF SlotsOK, Have
    <2> QED
      BY <2>3, <2>4
  <1> QED
    BY <1>6, <1>7

(* The SL that keeps an answer it asks for lacks one that a finished cycle    *)
(* would have given it.                                                       *)
LEMMA NoStaleRequestHolds == IInv => Original!NoStaleRequest
  <1> SUFFICES ASSUME IInv, NEW m \in net, m.type = "REQUEST", m.kind # "MEMBERSHIP",
                      m.cycle \in storage[m.to]
               PROVE  FALSE
    BY DEF Original!NoStaleRequest
  <1>1. /\ m \in Flight /\ FlightOK(m) /\ m.to \in Node /\ m.to[1] \in BG /\ m.cycle \in Cycle /\ m.kind \in Kind
        /\ Askee(m) = m.to[1] /\ Holder(m) \in Node /\ Holder(m)[1] \in BG /\ Holds(Holder(m), m.kind)
    BY Parts, FlightMembers DEF Askee
  <1>2. Holder(m)[1] \in Remote(m.to[1])
    BY <1>1 DEF FlightOK, Original!Remote
  <1>3. Have(Holder(m), Askee(m), m.kind, m.cycle)
    <2>1. CASE m.kind = "RESULT"
      BY <1>1, <1>2, <2>1, FinishedEverywhere
    <2>2. CASE m.kind # "RESULT"
      <3>1. m.kind = "CONNECTIVITY" /\ Holder(m) = Leader(Holder(m)[1])
        BY <1>1, <2>2 DEF Holds, Original!Kind
      <3> QED
        BY <1>1, <1>2, <3>1, FinishedEverywhere
    <2> QED
      BY <2>1, <2>2
  <1> QED
    BY <1>1, <1>3 DEF FlightOK

(* Who is asked for the membership has applied its batch, so that a cycle     *)
(* it does not know is finished.                                              *)
LEMMA FinishedNotUnbegunHolds == IInv => Original!FinishedNotUnbegun
  <1> SUFFICES ASSUME IInv, NEW m \in net, m.type = "REQUEST", m.kind = "MEMBERSHIP"
               PROVE  Known(m.to, m.cycle) \/ m.cycle \in storage[m.to]
    BY DEF Original!FinishedNotUnbegun
  <1> DEFINE d == m.to[1]
             l == Holder(m)
             a == l[1]
             c == m.cycle
  <1>1. /\ m \in Flight /\ FlightOK(m) /\ m.to \in Node /\ c \in Cycle /\ d \in BG /\ a \in BG
        /\ l \in Node /\ l = Leader(a) /\ Askee(m) = d
        /\ LogTypes /\ \A b \in BG : LogOK(b)
    BY Parts, FlightMembers DEF Askee, Holds
  <1>2. StageOK(m.to, c) /\ PlanOK(a, c) /\ "CONNECTIVITY" \in Kind /\ Holds(l, "CONNECTIVITY")
    BY <1>1, Parts DEF Original!Kind, Holds
  <1>3. PICK v \in SL : Has(<<a, v>>, LOCAL_MEMBERSHIP, c)
    BY <1>1 DEF FlightOK, AskedFor, AskType
  <1>4. Planned(a, LOCAL_MEMBERSHIP, c)
    <2>1. <<a, v>> \in Node /\ <<a, v>>[1] = a
      BY <1>1, Groups
    <2> QED
      BY <1>1, <1>3, <2>1, HasIsPlanned
  <1>5. d \in Remote(a) /\ Have(l, d, "CONNECTIVITY", c)
    BY <1>1, <1>2, <1>4 DEF PlanOK, FlightOK
  <1>6. Some(d, LOCAL_CONNECTIVITY, c)
    <2>1. HaveOK(l, d, "CONNECTIVITY", c)
      BY <1>1, <1>2, <1>5, Parts DEF HavesOK
    <2> QED
      BY <1>5, <2>1 DEF HaveOK, AskType
  <1>7. Has(m.to, FROM_CLIENT, c)
    BY <1>1, <1>6, GroupChain
  <1> QED
    BY <1>2, <1>7 DEF StageOK, StateOf, Original!Known

(* An answer in flight is one its holder does not have yet, of a cycle the    *)
(* holder has begun.                                                          *)
LEMMA ResponsesFindTheirCycleHolds == IInv => ResponsesFindTheirCycle
  <1> SUFFICES ASSUME IInv PROVE ResponsesFindTheirCycle
    OBVIOUS
  <1>1. LogTypes /\ MailTypes /\ \A a \in BG : LogOK(a)
    BY Parts
  <1>2. ASSUME NEW m \in net, m.type = "RESPONSE"
        PROVE  LET l == Holder(m)
               IN  /\ l = IF m.kind = "RESULT" THEN m.to ELSE Leader(m.to[1])
                   /\ Known(l, m.cycle) /\ m.bg \notin status[l][m.cycle].slots[m.kind]
    <2> DEFINE l == Holder(m)
               c == m.cycle
    <2>1. /\ FlightOK(m) /\ l \in Node /\ l[1] \in BG /\ c \in Cycle /\ m.kind \in Kind /\ Askee(m) = m.bg
          /\ l = IF m.kind = "RESULT" THEN m.to ELSE Leader(m.to[1])
      BY <1>1, <1>2, Parts, FlightMembers DEF Holder, Asker, Askee
    <2>2. StageOK(l, c)
      BY <2>1, Parts
    <2>3. ~Has(l, FULL_MEMBERSHIP, c) /\ m.bg \notin status[l][c].slots[m.kind]
      BY <2>1 DEF FlightOK, Have
    <2>4. Has(l, FROM_CLIENT, c)
      <3>1. Has(l, FROM_CLIENT, c) \/ Some(l[1], LOCAL_CONNECTIVITY, c) \/ Some(l[1], LOCAL_MEMBERSHIP, c)
        BY <2>1 DEF FlightOK, AskedFor, AskType, Some, Original!Kind
      <3>2. /\ Some(l[1], LOCAL_CONNECTIVITY, c) => Has(l, FROM_CLIENT, c)
            /\ Some(l[1], LOCAL_MEMBERSHIP, c) => Has(l, LOCAL_CONNECTIVITY, c)
            /\ Has(l, LOCAL_CONNECTIVITY, c) => Has(l, FROM_CLIENT, c)
        BY <1>1, <2>1, GroupChain, Chain
      <3> QED
        BY <3>1, <3>2
    <2>5. Known(l, c)
      BY <2>2, <2>3, <2>4 DEF StageOK, StateOf, Original!Known
    <2> QED
      BY <2>1, <2>3, <2>5
  <1>3. Original!ResponsesFindTheirCycle
    BY <1>2 DEF Original!ResponsesFindTheirCycle
  <1> QED
    BY <1>2, <1>3 DEF ResponsesFindTheirCycle

(* The next entry finds its cycle in its stage, and the connectivity that is  *)
(* voted for a cycle that has begun.                                          *)
LEMMA StagesInOrderHolds == IInv => StagesInOrder
  <1> SUFFICES ASSUME IInv PROVE StagesInOrder
    OBVIOUS
  <1>1. LogTypes /\ VoteTypes /\ \A a \in BG : LogOK(a)
    BY Parts
  <1>2. ASSUME NEW n \in Node, applied[n] = voted[n], voted[n] < Len(log[n[1]]),
               NEW e, e = log[n[1]][voted[n] + 1], e.requestType = LOCAL_CONNECTIVITY
        PROVE  Known(n, e.cycle)
    <2>1. n[1] \in BG /\ applied[n] \in Nat /\ log[n[1]] \in Seq(Entry) /\ Len(log[n[1]]) \in Nat
      BY <1>1, Groups DEF LogTypes
    <2>2. PICK i \in 1..Len(log[n[1]]) : i = applied[n] + 1
      BY <1>2, <2>1
    <2>3. e = log[n[1]][i] /\ e \in Entry /\ i - 1 = applied[n]
      BY <1>2, <2>1, <2>2
    <2>4. Has(n, FROM_CLIENT, e.cycle)
      <3>1. Enabled(n[1], i - 1, e)
        BY <1>1, <2>1, <2>3 DEF LogOK, Ordered
      <3> QED
        BY <1>2, <2>3, <3>1 DEF Enabled, Has, Original!FROM_CLIENT, Original!LOCAL_CONNECTIVITY
    <2>5. ~Has(n, LOCAL_CONNECTIVITY, e.cycle)
      <3> SUFFICES ASSUME NEW j \in 1..applied[n], Is(log[n[1]][j], LOCAL_CONNECTIVITY, e.cycle) PROVE FALSE
        BY DEF Has, Before
      <3>1. j \in 1..Len(log[n[1]]) /\ j # i
        BY <2>1, <2>2
      <3>2. Same(log[n[1]][j], log[n[1]][i])
        BY <1>2, <2>3 DEF Same, Is
      <3> QED
        BY <1>1, <2>1, <3>1, <3>2 DEF LogOK, NoRepetition
    <2>6. ~Has(n, FULL_MEMBERSHIP, e.cycle) /\ StageOK(n, e.cycle)
      BY <1>1, <2>3, <2>5, Chain, Parts DEF Original!Entry
    <2> QED
      BY <2>4, <2>6 DEF StageOK, StateOf, Original!Known
  <1>3. ASSUME NEW n \in Node, Certified(n), NEW e, e = NextEntry(n)
        PROVE  IF e.requestType = FROM_CLIENT
               THEN ~Known(n, e.cycle) /\ e.cycle \notin storage[n]
               ELSE status[n][e.cycle].state = StageOf(e.requestType)
    <2>1. CanCommit(n) /\ applied[n] < voted[n] /\ VoteOK(n)
      BY <1>1, <1>3, CertifiedCanCommit, Parts DEF Certified
    <2>2. e \in Entry /\ e.cycle \in Cycle
      BY <1>1, <1>3, <2>1, NextIsNew DEF Original!Entry
    <2>3. StageOK(n, e.cycle)
      BY <2>2, Parts
    <2>4. e.requestType = LOCAL_CONNECTIVITY => Complete(n, e.cycle)
      BY <1>1, <1>3, <2>1, VoteBefore
    <2>5. /\ e.requestType = FROM_CLIENT => StateOf(n, e.cycle) = "NONE" /\ ~Has(n, FULL_MEMBERSHIP, e.cycle)
          /\ e.requestType = LOCAL_CONNECTIVITY =>
                StateOf(n, e.cycle) = IF Complete(n, e.cycle) THEN "LOCAL_CONNECTIVITY" ELSE "REPLICATED_RESULTS"
          /\ e.requestType \in {LOCAL_MEMBERSHIP, FULL_MEMBERSHIP} => StateOf(n, e.cycle) = StageOf(e.requestType)
          /\ e.requestType # FETCHED_RESULT
      BY <1>1, <1>3, <2>1, StageBefore
    <2>6. e.requestType \in {FROM_CLIENT, FETCHED_RESULT, LOCAL_CONNECTIVITY, LOCAL_MEMBERSHIP, FULL_MEMBERSHIP}
      BY <2>2 DEF Original!Entry, Original!RequestType
    <2>7. CASE e.requestType = FROM_CLIENT
      BY <2>3, <2>5, <2>7 DEF StageOK, Original!Known
    <2>8. CASE e.requestType # FROM_CLIENT
      BY <2>3, <2>4, <2>5, <2>6, <2>8, Stages DEF StageOK
    <2> QED
      BY <2>7, <2>8
  <1>4. \A n \in Node : applied[n] = voted[n] /\ voted[n] < Len(log[n[1]]) =>
           LET e == log[n[1]][voted[n] + 1]
           IN  e.requestType = Original!LOCAL_CONNECTIVITY => Known(n, e.cycle)
    BY <1>2
  <1>5. \A n \in Node : Certified(n) =>
           LET e == log[n[1]][applied[n] + 1]
           IN  IF e.requestType = Original!FROM_CLIENT
               THEN ~Known(n, e.cycle) /\ e.cycle \notin storage[n]
               ELSE status[n][e.cycle].state = Original!StageOf(e.requestType)
    BY <1>3 DEF NextEntry
  <1> QED
    BY <1>4, <1>5 DEF StagesInOrder

(* Messages, statuses, logs and votes keep their types, and nobody applies      *)
(* what it has not voted for.                                                   *)
THEOREM TypeCorrect == Spec => []TypeOK
  <1>1. IInv => TypeOK
    BY DEF IInv
  <1> QED
    BY <1>1, SpecIInv, PTL

(* No assertion of a handler of the hybrid file trips and none throws: requests *)
(* are never stale though every SL asks, a membership is not asked for before   *)
(* the cycle begins, answers find their cycle and a free slot, and the group's  *)
(* connectivity is applied only by SLs that have all results.                   *)
THEOREM NoAssertionTrips == Spec => []AssertionsHold
  <1>1. IInv => AssertionsHold
    BY NoStaleRequestHolds, FinishedNotUnbegunHolds, ResponsesFindTheirCycleHolds, StagesInOrderHolds
       DEF AssertionsHold
  <1> QED
    BY <1>1, SpecIInv, PTL

-----------------------------------------------------------------------------
(* Each group is a log with votes.                                              *)

(* No request is in a log twice, so a log has one place for each request type   *)
(* of each cycle, and never comes to the end that BGLog sets it.                *)
Place(e) == <<e.cycle, IF e.requestType > 3 THEN e.requestType - 1 ELSE e.requestType>>

LEMMA PlacesDiffer ==
    ASSUME NEW e \in Entry, NEW f \in Entry
    PROVE  /\ Place(e) \in Cycle \X (0..4)
           /\ Place(e) = Place(f) => Same(e, f)
  <1>1. e.requestType \in {0, 1, 2, 4, 5} /\ f.requestType \in {0, 1, 2, 4, 5} /\ e.cycle \in Cycle
    BY DEF Original!Entry, Original!RequestType, Original!FROM_CLIENT, Original!FETCHED_RESULT,
           Original!LOCAL_CONNECTIVITY, Original!LOCAL_MEMBERSHIP, Original!FULL_MEMBERSHIP
  <1>2. (IF e.requestType > 3 THEN e.requestType - 1 ELSE e.requestType) \in 0..4
    BY <1>1
  <1>3. ASSUME Place(e) = Place(f) PROVE Same(e, f)
    <2>1. /\ e.cycle = f.cycle
          /\ (IF e.requestType > 3 THEN e.requestType - 1 ELSE e.requestType)
               = (IF f.requestType > 3 THEN f.requestType - 1 ELSE f.requestType)
      BY <1>3 DEF Place
    <2>2. e.requestType = f.requestType
      BY <1>1, <2>1
    <2> QED
      BY <2>1, <2>2 DEF Same, Is
  <1> QED
    BY <1>1, <1>2, <1>3 DEF Place

(* The length of a log without repetition.                                      *)
LEMMA LogBounded ==
    ASSUME NEW l \in Seq(Entry), \A i, j \in 1..Len(l) : Same(l[i], l[j]) => i = j
    PROVE  Len(l) <= 5 * MaxCycle
  <1> DEFINE L == Len(l)
             T == Cycle \X (0..4)
             f == [i \in 1..L |-> Place(l[i])]
  <1>1. L \in Nat /\ MaxCycle \in Nat
    BY MaxCycleBound
  <1>2. \A i \in 1..L : l[i] \in Entry
    OBVIOUS
  <1>3. f \in [1..L -> T]
    BY <1>2, PlacesDiffer
  <1>4. ASSUME NEW i \in 1..L, NEW j \in 1..L, f[i] = f[j] PROVE i = j
    <2>1. Same(l[i], l[j])
      BY <1>2, <1>4, PlacesDiffer
    <2> QED
      BY <2>1
  <1> HIDE DEF f
  <1>5. f \in Injection(1..L, T)
    BY <1>3, <1>4 DEF Injection, IsInjective
  <1>6. IsFiniteSet(T) /\ Cardinality(T) = 5 * MaxCycle
    <2> DEFINE M == MaxCycle
    <2>1. IsFiniteSet(Cycle) /\ Cardinality(Cycle) = M
      <3>1. M \in Int /\ 1 \in Int /\ (1 > M => M = 0) /\ M - 1 + 1 = M /\ Cycle = 1..M
        BY <1>1 DEF Original!Cycle
      <3> HIDE DEF M
      <3> QED
        BY <3>1, FS_Interval
    <2>2. IsFiniteSet(0..4) /\ Cardinality(0..4) = 5
      <3>1. 0 \in Int /\ 4 \in Int /\ ~(0 > 4) /\ 4 - 0 + 1 = 5
        OBVIOUS
      <3> QED
        BY <3>1, FS_Interval
    <2>3. IsFiniteSet(T) /\ Cardinality(T) = M * 5
      <3> HIDE DEF M
      <3> QED
        BY <2>1, <2>2, FS_Product
    <2>4. M * 5 = 5 * M
      BY <1>1
    <2> QED
      BY <2>3, <2>4
  <1> HIDE DEF T, L
  <1>7. Cardinality(1..L) <= 5 * MaxCycle
    BY <1>5, <1>6, FS_Injection
  <1>8. Cardinality(1..L) = L
    <2>1. L \in Int /\ 1 \in Int /\ (1 > L => L = 0) /\ L - 1 + 1 = L
      BY <1>1
    <2> QED
      BY <2>1, FS_Interval
  <1> QED
    BY <1>7, <1>8 DEF L

Extended(b) == \E e \in Entry : log' = [log EXCEPT ![b] = Append(@, e)]

(* An SL applies what all have voted for.                                       *)
Delivers(n) == Certified(n) /\ Applies(n) /\ voted' = voted

(* An SL votes for the entry after those it has applied.                        *)
Votes(n) ==
    /\ applied[n] = voted[n] /\ voted[n] < Len(log[n[1]])
    /\ voted' = [voted EXCEPT ![n] = @ + 1]
    /\ log' = log /\ applied' = applied

(* One step extends the log of one group at most, when its leader has applied   *)
(* all of it, and one SL of that group applies or votes for an entry at most.   *)
GroupMove(b) ==
    /\ log' = log \/ (Extended(b) /\ applied'[Leader(b)] = Len(log[b]))
    /\ \/ applied' = applied /\ voted' = voted
       \/ \E n \in Node : n[1] = b /\ Delivers(n) /\ (n # Leader(b) => log' = log)
       \/ \E n \in Node : n[1] = b /\ Votes(n)

(* A batch that is sent out extends the log of its group by one entry.          *)
LEMMA BatchExtends ==
    ASSUME LogTypes, NEW b \in BG, SendBatch(b)
    PROVE  Extended(b)
  <1> DEFINE e == [requestType |-> FROM_CLIENT, cycle |-> next_cycle[b], origin |-> b, envoy |-> envoys_rr[b]]
  <1>1. next_cycle[b] \in Cycle
    <2>1. next_cycle[b] \in 1..(MaxCycle + 1) /\ next_cycle[b] <= Batches[b] /\ Batches[b] \in Nat
      BY BatchesAssumption DEF LogTypes, Original!SendBatch
    <2> QED
      BY <2>1, MaxCycleBound DEF Original!Cycle
  <1>2. e \in Entry
    BY <1>1 DEF LogTypes, Original!Entry, Original!RequestType
  <1>3. log' = [log EXCEPT ![b] = Append(@, e)]
    BY DEF Original!SendBatch
  <1> HIDE DEF e
  <1> QED
    BY <1>2, <1>3 DEF Extended

(* Starting an instance extends the log or leaves it.                           *)
LEMMA SpawnExtends ==
    ASSUME LogTypes, NEW b \in BG, NEW work \in SUBSET Entry, SpawnRound2(b, work)
    PROVE  log' = log \/ Extended(b)
  <1>1. CASE work # {} /\ SendPending(b, work)
    BY <1>1 DEF Original!SendPending, Original!Top, Extended
  <1>2. CASE work = {} /\ SendBatch(b)
    BY <1>2, BatchExtends
  <1>3. CASE UNCHANGED <<log, next_cycle, envoys_rr>>
    BY <1>3
  <1> QED
    BY <1>1, <1>2, <1>3 DEF Original!SpawnRound2

(* Queueing work moves at most the log of the group.                            *)
LEMMA QueueMoves ==
    ASSUME LogTypes, NEW b \in BG, NEW work \in SUBSET Entry, Queue(b, work), applied' = applied, voted' = voted
    PROVE  GroupMove(b)
  <1>1. CASE SlotFree(b)
    BY <1>1, SpawnExtends DEF Original!Queue, GroupMove, Original!SlotFree
  <1>2. CASE ~SlotFree(b)
    BY <1>2 DEF Original!Queue, GroupMove
  <1> QED
    BY <1>1, <1>2

(* The end of a commit applies one entry and may extend the log by one.         *)
LEMMA CommitMoves ==
    ASSUME IInv, NEW n \in Node, Commit(n)
    PROVE  GroupMove(n[1])
  <1> DEFINE b == n[1]
  <1>1. /\ LogTypes /\ VoteTypes /\ b \in BG /\ LogOK(b) /\ pending[b] \in SUBSET Entry
    BY Parts, Groups DEF LogTypes
  <1>2. Certified(n) /\ voted' = voted /\ Finally(n, pending[b])
    BY DEF Commit, CommitFromClient, CommitLocalConnectivity, CommitLocalMembership, CommitFullMembership,
           Original!CommitLocalConnectivity, Original!CommitLocalMembership, Original!CommitLocal,
           Original!CommitFullMembership
  <1>3. CanCommit(n)
    BY <1>1, <1>2, CertifiedCanCommit
  <1>4. Delivers(n)
    BY <1>2, <1>3 DEF Delivers, Applies, Original!Finally
  <1>5. CASE n = Leader(b)
    <2>1. applied'[Leader(b)] = Len(log[b])
      BY <1>1, <1>3, <1>4, <1>5, Groups DEF LogOK, InStep, Original!CanCommit, Delivers, Applies, LogTypes
    <2> QED
      BY <1>1, <1>2, <1>4, <1>5, <2>1, SpawnExtends DEF Original!Finally, GroupMove
  <1>6. CASE n # Leader(b)
    BY <1>1, <1>2, <1>4, <1>6 DEF Original!Finally, GroupMove
  <1> QED
    BY <1>5, <1>6

(* The work that is queued consists of entries.                                 *)
LEMMA MoreEntries ==
    ASSUME LogTypes, NEW b \in BG, NEW t \in Original!RequestType, NEW c \in Cycle, NEW o \in BG
    PROVE  pending[b] \union {Work(t, c, o)} \in SUBSET Entry /\ pending[b] \in SUBSET Entry
  <1>1. Work(t, c, o) \in Entry
    BY Groups DEF Original!Work, Original!Entry
  <1>2. pending[b] \in SUBSET Entry
    BY DEF LogTypes
  <1> QED
    BY <1>1, <1>2

(* Every handler of a message moves one group at most.                          *)
LEMMA HandleMoves ==
    ASSUME IInv, NEW m \in net, Handle(m)
    PROVE  \E b \in BG : GroupMove(b)
  <1> DEFINE b == m.to[1]
  <1>1. LogTypes /\ b \in BG /\ voted' = voted
    BY Parts, FlightMembers DEF Handle
  <1>2. CASE UNCHANGED <<log, applied>>
    BY <1>1, <1>2 DEF GroupMove
  <1>3. ASSUME NEW t \in Original!RequestType, NEW o \in BG, NEW c \in Cycle, NEW more,
               more = {} \/ more = {Work(t, c, o)},
               Queue(b, pending[b] \union more), applied' = applied
        PROVE  GroupMove(b)
    <2>1. pending[b] \union more \in SUBSET Entry
      BY <1>1, <1>3, MoreEntries
    <2> QED
      BY <1>1, <1>3, <2>1, QueueMoves
  <1>4. /\ m.type = "RESPONSE" => m.bg \in BG /\ m.cycle \in Cycle
        /\ LOCAL_CONNECTIVITY \in Original!RequestType /\ LOCAL_MEMBERSHIP \in Original!RequestType
        /\ FULL_MEMBERSHIP \in Original!RequestType
    BY Parts, FlightMembers DEF Original!Response, Original!RequestType
  <1>5. CASE HandleFetchResponse(m)
    <2>1. PICK more : /\ more = {} \/ more = {Work(LOCAL_CONNECTIVITY, m.cycle, b)}
                      /\ Queue(b, pending[b] \union more) \/ UNCHANGED <<log, scheduler>>
      BY <1>5 DEF HandleFetchResponse
    <2>2. m.type = "RESPONSE" /\ applied' = applied
      BY <1>5 DEF HandleFetchResponse
    <2>3. CASE Queue(b, pending[b] \union more)
      BY <1>1, <1>3, <1>4, <2>1, <2>2, <2>3
    <2>4. CASE UNCHANGED <<log, scheduler>>
      BY <1>2, <2>2, <2>4
    <2> QED
      BY <1>1, <2>1, <2>3, <2>4
  <1>6. CASE HandleConnectivityResponse(m)
    <2>1. PICK more : more = IF LastAnswer(status[m.to][m.cycle]) THEN {Work(LOCAL_MEMBERSHIP, m.cycle, m.bg)} ELSE {}
      OBVIOUS
    <2>2. m.type = "RESPONSE" /\ Queue(b, pending[b] \union more) /\ applied' = applied
      BY <1>6, <2>1 DEF HandleConnectivityResponse, Original!HandleConnectivityResponse, Original!ForLeader
    <2>3. more = {} \/ more = {Work(LOCAL_MEMBERSHIP, m.cycle, m.bg)}
      BY <2>1
    <2> QED
      BY <1>1, <1>3, <1>4, <2>2, <2>3
  <1>7. CASE HandleMembershipResponse(m)
    <2>1. PICK more : more = {Work(FULL_MEMBERSHIP, m.cycle, b)}
      OBVIOUS
    <2>2. /\ m.type = "RESPONSE" /\ applied' = applied
          /\ Queue(b, pending[b] \union more) \/ UNCHANGED <<log, scheduler>>
      BY <1>7, <2>1 DEF HandleMembershipResponse, Original!HandleMembershipResponse, Original!ForLeader,
         Original!scheduler, scheduler
    <2> QED
      BY <1>1, <1>2, <1>3, <1>4, <2>1, <2>2
  <1>8. CASE HandleRequest(m) \/ ForwardResponse(m)
    BY <1>2, <1>8 DEF HandleRequest, ForwardResponse, Original!ForwardResponse
  <1> QED
    BY <1>5, <1>6, <1>7, <1>8 DEF Handle

(* Every step moves one group at most.                                          *)
LEMMA NextMoves ==
    ASSUME IInv, [Next]_vars
    PROVE  \E b \in BG : GroupMove(b)
  <1>1. ASSUME NEW b \in BG, ReceiveBatch(b) PROVE GroupMove(b)
    <2>1. LogTypes
      BY Parts
    <2> QED
      BY <1>1, <2>1, BatchExtends DEF ReceiveBatch, Original!ReceiveBatch, GroupMove, Original!SlotFree
  <1>2. ASSUME NEW n \in Node, Commit(n) PROVE \E b \in BG : GroupMove(b)
    BY <1>2, CommitMoves, Groups
  <1>3. ASSUME NEW n \in Node, Vote(n) PROVE \E b \in BG : GroupMove(b)
    <2>1. Votes(n) /\ n[1] \in BG
      BY <1>3, Groups DEF Vote, Votes
    <2> QED
      BY <2>1 DEF GroupMove, Votes
  <1>4. CASE UNCHANGED vars
    BY <1>4, MostBatches DEF vars, GroupMove
  <1> QED
    BY <1>1, <1>2, <1>3, <1>4, HandleMoves DEF Next

(* A place of one server that goes up by one, read within a group.             *)
LEMMA OneUp ==
    ASSUME NEW a \in BG, NEW s \in SL, NEW g \in [Node -> Nat]
    PROVE  \A r \in SL : [g EXCEPT ![<<a, s>>] = @ + 1][<<a, r>>] = IF r = s THEN g[<<a, r>>] + 1 ELSE g[<<a, r>>]
  <1> SUFFICES ASSUME NEW r \in SL
               PROVE  [g EXCEPT ![<<a, s>>] = @ + 1][<<a, r>>] = IF r = s THEN g[<<a, r>>] + 1 ELSE g[<<a, r>>]
    OBVIOUS
  <1>1. <<a, r>> \in Node /\ <<a, s>> \in Node
    BY Groups
  <1>2. <<a, r>> = <<a, s>> <=> r = s
    OBVIOUS
  <1> QED
    BY <1>1, <1>2

(* Such a move is a step of BGLog for every group.                              *)
LEMMA GroupStep ==
    ASSUME LogTypes, VoteTypes, LogTypes', NEW b \in BG, GroupMove(b), NEW a \in BG, LogOK(a)'
    PROVE  [Group(a)!Next]_(Group(a)!vars)
  <1> DEFINE A == [s \in SL |-> applied[<<a, s>>]]
             V == [s \in SL |-> voted[<<a, s>>]]
  <1>1. ASSUME NEW n \in Node, NEW g \in [Node -> Nat], n[1] # a
        PROVE  \A s \in SL : [g EXCEPT ![n] = @ + 1][<<a, s>>] = g[<<a, s>>]
    <2> SUFFICES ASSUME NEW s \in SL PROVE [g EXCEPT ![n] = @ + 1][<<a, s>>] = g[<<a, s>>]
      OBVIOUS
    <2>1. <<a, s>> \in Node /\ <<a, s>> # n
      BY <1>1, Groups
    <2> QED
      BY <2>1
  <1>2. applied \in [Node -> Nat] /\ voted \in [Node -> Nat]
    BY DEF LogTypes, VoteTypes
  <1>3. CASE a # b
    <2>1. log'[a] = log[a]
      BY <1>3 DEF GroupMove, Extended, LogTypes, Votes
    <2>2. A' = A /\ V' = V
      <3>1. \A s \in SL : applied'[<<a, s>>] = applied[<<a, s>>] /\ voted'[<<a, s>>] = voted[<<a, s>>]
        <4>1. CASE applied' = applied /\ voted' = voted
          BY <4>1
        <4>2. ASSUME NEW n \in Node, n[1] = b, Delivers(n)
              PROVE  \A s \in SL : applied'[<<a, s>>] = applied[<<a, s>>] /\ voted'[<<a, s>>] = voted[<<a, s>>]
          BY <1>1, <1>2, <1>3, <4>2 DEF Delivers, Applies
        <4>3. ASSUME NEW n \in Node, n[1] = b, Votes(n)
              PROVE  \A s \in SL : applied'[<<a, s>>] = applied[<<a, s>>] /\ voted'[<<a, s>>] = voted[<<a, s>>]
          BY <1>1, <1>2, <1>3, <4>3 DEF Votes
        <4> QED
          BY <4>1, <4>2, <4>3 DEF GroupMove
      <3> QED
        BY <3>1
    <2> QED
      BY <2>1, <2>2 DEF Group!vars
  <1>4. CASE a = b
    <2>0. /\ 0 \in SL /\ SL = Group(a)!SL /\ Group(a)!Leader = 0 /\ Leader(a) = <<a, 0>>
          /\ \A s \in SL : A[s] = applied[<<a, s>>] /\ V[s] = voted[<<a, s>>] /\ A'[s] = applied'[<<a, s>>]
      BY Groups DEF Group!SL, Group!Leader, Original!SL, Original!Leader
    <2>1. ASSUME Extended(a), applied'[Leader(a)] = Len(log[a])
          PROVE  \E e \in Entry : Group(a)!Extend(e)
      <3>1. PICK e \in Entry : log'[a] = Append(log[a], e) /\ log[a] \in Seq(Entry)
        BY <2>1 DEF Extended, LogTypes
      <3>2. log'[a] \in Seq(Entry) /\ \A i, j \in 1..Len(log'[a]) : Same(log'[a][i], log'[a][j]) => i = j
        BY DEF LogTypes, LogOK, NoRepetition, Same, Is
      <3>3. Len(log'[a]) <= 5 * MaxCycle
        BY <3>2, LogBounded
      <3>4. Len(log[a]) < 5 * MaxCycle
        <4>1. Len(log'[a]) = Len(log[a]) + 1 /\ Len(log[a]) \in Nat /\ MaxCycle \in Nat
          BY <3>1, MaxCycleBound
        <4> QED
          BY <3>3, <4>1
      <3> QED
        BY <3>1, <3>4 DEF Group!Extend
    <2>2. CASE applied' = applied /\ voted' = voted
      <3>1. A' = A /\ V' = V
        BY <2>2
      <3>2. CASE log' = log
        BY <3>1, <3>2 DEF Group!vars
      <3>3. CASE Extended(a) /\ applied'[Leader(a)] = Len(log[a])
        <4>1. PICK e \in Entry : Group(a)!Extend(e)
          BY <2>1, <3>3
        <4>2. A[Group(a)!Leader] = Len(log[a])
          BY <2>0, <2>2, <3>3
        <4>3. Group(a)!Propose(e)
          BY <3>1, <4>1, <4>2 DEF Group!Propose
        <4> QED
          BY <4>3 DEF Group!Next
      <3> QED
        BY <1>4, <3>2, <3>3 DEF GroupMove
    <2>3. ASSUME NEW n \in Node, n[1] = a, Delivers(n), n # Leader(a) => log' = log PROVE Group(a)!Next
      <3>1. PICK s \in SL : s = n[2] /\ n = <<a, s>>
        BY <2>3, Groups
      <3>2. A' = [A EXCEPT ![s] = @ + 1] /\ V' = V
        <4>1. applied' = [applied EXCEPT ![n] = @ + 1] /\ voted' = voted
          BY <2>3 DEF Delivers, Applies
        <4>2. \A r \in SL : applied'[<<a, r>>] = IF r = s THEN applied[<<a, r>>] + 1 ELSE applied[<<a, r>>]
          BY <1>2, <3>1, <4>1, OneUp
        <4> QED
          BY <3>1, <4>1, <4>2
      <3>3. A[s] < V[s] /\ \A r \in SL : V[r] > A[s]
        BY <2>0, <2>3, <3>1 DEF Delivers, Certified
      <3>4. Group(a)!Certified(s)
        BY <2>0, <3>2, <3>3 DEF Group!Certified
      <3>5. CASE log' = log
        BY <2>0, <3>1, <3>4, <3>5 DEF Group!Next, Group!Deliver
      <3>6. CASE log' # log
        <4>1. Extended(a) /\ applied'[Leader(a)] = Len(log[a]) /\ n = Leader(a)
          BY <1>4, <2>3, <3>6 DEF GroupMove
        <4>2. s = 0
          BY <2>0, <3>1, <4>1
        <4>3. PICK e \in Entry : Group(a)!Extend(e)
          BY <2>1, <4>1
        <4>4. A[0] + 1 = Len(log[a])
          <5>1. A'[0] = A[0] + 1
            BY <2>0, <3>2, <4>2
          <5> QED
            BY <2>0, <4>1, <5>1
        <4>5. Group(a)!DeliverAndPropose(e)
          BY <2>0, <3>4, <4>2, <4>3, <4>4 DEF Group!DeliverAndPropose
        <4> QED
          BY <4>5 DEF Group!Next
      <3> QED
        BY <3>5, <3>6
    <2>4. ASSUME NEW n \in Node, n[1] = a, Votes(n) PROVE Group(a)!Next
      <3>1. PICK s \in SL : s = n[2] /\ n = <<a, s>>
        BY <2>4, Groups
      <3>2. V' = [V EXCEPT ![s] = @ + 1] /\ A' = A
        <4>1. voted' = [voted EXCEPT ![n] = @ + 1] /\ applied' = applied
          BY <2>4 DEF Votes
        <4>2. \A r \in SL : voted'[<<a, r>>] = IF r = s THEN voted[<<a, r>>] + 1 ELSE voted[<<a, r>>]
          BY <1>2, <3>1, <4>1, OneUp
        <4> QED
          BY <3>1, <4>1, <4>2
      <3>3. A[s] = V[s] /\ V[s] < Len(log[a]) /\ log' = log
        BY <2>0, <2>4, <3>1 DEF Votes
      <3>4. Group(a)!Vote(s)
        BY <3>2, <3>3 DEF Group!Vote
      <3> QED
        BY <2>0, <3>4 DEF Group!Next
    <2> QED
      BY <1>4, <2>2, <2>3, <2>4 DEF GroupMove
  <1> QED
    BY <1>3, <1>4

(* The hybrid variant takes from Round 2 what it gives: whatever the handlers   *)
(* do, each group moves as a log with votes, those it delays included.          *)
THEOREM GroupsAreLogsWithVotes == Spec => ImplementsBGLogs
  <1>1. Init => \A b \in BG : Group(b)!Init
    <2> SUFFICES ASSUME Init, NEW b \in BG PROVE Group(b)!Init
      OBVIOUS
    <2>1. \A s \in SL : applied[<<b, s>>] = 0 /\ voted[<<b, s>>] = 0
      BY Groups DEF Init, Original!Init
    <2> QED
      BY <2>1 DEF Init, Original!Init, Group!Init, Group!SL, Original!SL
  <1>2. IInv /\ IInv' /\ [Next]_vars => [\A b \in BG : [Group(b)!Next]_(Group(b)!vars)]_vars
    <2> SUFFICES ASSUME IInv, IInv', [Next]_vars PROVE \A b \in BG : [Group(b)!Next]_(Group(b)!vars)
      OBVIOUS
    <2>1. LogTypes /\ VoteTypes
      BY Parts
    <2>2. LogTypes' /\ \A a \in BG : LogOK(a)'
      BY DEF IInv, TypeOK, Original!TypeOK, LogTypes
    <2> QED
      BY <2>1, <2>2, NextMoves, GroupStep
  <1> QED
    BY <1>1, <1>2, SpecIInv, PTL DEF Spec, ImplementsBGLogs

==============================================================================
