----------------------------- MODULE Round3Proofs -----------------------------
(* Proofs about Round3, for any number of groups and SLs, any round robin of  *)
(* envoys and any number of cycles.  First the inductive invariant: what the  *)
(* entries of the logs, the statuses, the answers a leader has and the        *)
(* messages in flight say about each other.  Then what follows from it: the   *)
(* safety properties, that every group moves as a GroupLog, and that all      *)
(* groups together implement Cycles.                                          *)
(*                                                                            *)
(* Nobody acknowledges anything between the groups, so that what a group may  *)
(* conclude from an answer rests on a chain: a question is asked by the envoy *)
(* that applied the entry of the stage, is answered when some SL of the other *)
(* group applied its own, is in flight once, and ceases to be when the leader *)
(* has the answer.  IInv says this of every group, kind and cycle.            *)
EXTENDS Round3, FiniteSetTheorems, WellFoundedInduction, TLAPS

(* Entry e is what the requests of type t are about in cycle c; a fetched     *)
(* result is told from another by its origin o, which means nothing otherwise. *)
Is(e, t, c, o) == e.requestType = t /\ e.cycle = c /\ (t = FETCHED_RESULT => e.origin = o)
Same(e, f) == Is(e, f.requestType, f.cycle, f.origin)

(* Such an entry is among the first k of group b's log, has been applied by   *)
(* SL n, or is in the log or on its way there.                                *)
Before(b, k, t, c, o) == \E i \in 1..k : Is(log[b][i], t, c, o)
Has(n, t, c, o) == Before(n[1], applied[n], t, c, o)
InLog(b, t, c, o) == Before(b, Len(log[b]), t, c, o)
Planned(b, t, c, o) == InLog(b, t, c, o) \/ \E e \in pending[b] : Is(e, t, c, o)

(* SLs of a group apply its log in step, and the leader extends what it has   *)
(* applied.                                                                   *)
InStep(b) ==
    /\ \A s \in SL : applied[<<b, s>>] <= Len(log[b])
    /\ \A r, s \in SL : applied[<<b, s>>] <= applied[<<b, r>>] + 1
    /\ Len(log[b]) <= applied[Leader(b)] + 1

(* What has to come before an entry: the stages of a cycle follow each other. *)
Enabled(b, k, e) ==
    /\ e.requestType # FROM_CLIENT => Before(b, k, FROM_CLIENT, e.cycle, b)
    /\ e.requestType = FETCHED_RESULT => e.origin \in Remote(b)
    /\ e.requestType = LOCAL_CONNECTIVITY =>
          \A o \in Remote(b) : Before(b, k, FETCHED_RESULT, e.cycle, o)
    /\ e.requestType = LOCAL_MEMBERSHIP => Before(b, k, LOCAL_CONNECTIVITY, e.cycle, b)
    /\ e.requestType = FULL_MEMBERSHIP => Before(b, k, LOCAL_MEMBERSHIP, e.cycle, b)

Ordered(b) ==
    /\ \A i \in 1..Len(log[b]) : Enabled(b, i - 1, log[b][i])
    /\ \A e \in pending[b] : e.requestType # FROM_CLIENT /\ Enabled(b, Len(log[b]), e)

(* Nothing is sent out or planned twice. *)
NoRepetition(b) ==
    /\ \A i, j \in 1..Len(log[b]) : Same(log[b][i], log[b][j]) => i = j
    /\ \A e \in pending[b] : \A i \in 1..Len(log[b]) : ~Same(log[b][i], e)
    /\ \A e, f \in pending[b] : Same(e, f) => e = f
    /\ \A c \in Cycle : InLog(b, FROM_CLIENT, c, b) => c < next_cycle[b]

(* Work waits only while an instance is open.                                 *)
NoIdleWork(b) == pending[b] # {} => ~SlotFree(b)

(* The log of a group.                                                        *)
LogOK(b) == InStep(b) /\ Ordered(b) /\ NoRepetition(b) /\ NoIdleWork(b)

(* The stage of a cycle at an SL, read off the entries it has applied.        *)
StateOf(n, c) ==
    IF ~Has(n, FROM_CLIENT, c, n[1]) \/ Has(n, FULL_MEMBERSHIP, c, n[1]) THEN "NONE"
    ELSE IF Has(n, LOCAL_MEMBERSHIP, c, n[1]) THEN "REPLICATED_MEMBERSHIP"
    ELSE IF Has(n, LOCAL_CONNECTIVITY, c, n[1]) THEN "REPLICATED_CONNECTIVITY"
    ELSE IF \A o \in Remote(n[1]) : Has(n, FETCHED_RESULT, c, o) THEN "LOCAL_CONNECTIVITY"
    ELSE "REPLICATED_RESULTS"

(* The batch of cycle c in the log of group b names v as the first envoy.     *)
EnvoyIs(b, c, v) == \E i \in 1..Len(log[b]) : Is(log[b][i], FROM_CLIENT, c, b) /\ log[b][i].envoy = v

(* The answers an SL has of a cycle: its own group's with the entry of that   *)
(* stage.                                                                     *)
SlotsOK(n, c) ==
    LET b == n[1]
        slots == status[n][c].slots
    IN  /\ slots["RESULT"] = {b} \union {o \in Remote(b) : Has(n, FETCHED_RESULT, c, o)}
        /\ b \in slots["CONNECTIVITY"] <=> Has(n, LOCAL_CONNECTIVITY, c, b)
        /\ b \in slots["MEMBERSHIP"] <=> Has(n, LOCAL_MEMBERSHIP, c, b)
        /\ slots["CONNECTIVITY"] # {} => b \in slots["CONNECTIVITY"]
        /\ slots["MEMBERSHIP"] # {} => b \in slots["MEMBERSHIP"]

(* The number of other groups that have answered, and what the counter of a   *)
(* status says of it.                                                         *)
Filled(n, c, kind) == Cardinality(status[n][c].slots[kind] \ {n[1]})

CounterOf(n, c) ==
    CASE status[n][c].state = "REPLICATED_RESULTS" -> Filled(n, c, "RESULT")
      [] status[n][c].state = "REPLICATED_CONNECTIVITY" -> Filled(n, c, "CONNECTIVITY")
      [] status[n][c].state = "REPLICATED_MEMBERSHIP" -> Filled(n, c, "MEMBERSHIP")
      [] OTHER -> 0

(* The status of a cycle and the storage agree with the entries applied.      *)
StageOK(n, c) ==
    /\ status[n][c].state = StateOf(n, c)
    /\ status[n][c].state = "NONE" => status[n][c] = Unknown
    /\ status[n][c].state # "NONE" => SlotsOK(n, c) /\ EnvoyIs(n[1], c, status[n][c].envoy)
    /\ status[n][c].counter = CounterOf(n, c)
    /\ c \in storage[n] <=> Has(n, FULL_MEMBERSHIP, c, n[1])

(* The entry whose commit makes the envoys ask for this kind of answer.       *)
AskType(k) == CASE k = "RESULT" -> FROM_CLIENT [] k = "CONNECTIVITY" -> LOCAL_CONNECTIVITY [] OTHER -> LOCAL_MEMBERSHIP

(* Some SL of group d has applied the entry; the envoy of group b has asked   *)
(* its questions; the leader of b has the answer of d.                        *)
Some(d, t, c) == \E s \in SL : Has(<<d, s>>, t, c, d)
AskedFor(b, k, c) == \E v \in SL : EnvoyIs(b, c, v) /\ Has(<<b, v>>, AskType(k), c, b)
Have(b, d, k, c) ==
    IF k = "RESULT" THEN Planned(b, FETCHED_RESULT, c, d)
    ELSE Has(Leader(b), FULL_MEMBERSHIP, c, b) \/ d \in status[Leader(b)][c].slots[k]

(* The leader plans a stage of a cycle only with every answer of the stage    *)
(* before it.                                                                 *)
PlanOK(b, c) ==
    /\ Planned(b, LOCAL_CONNECTIVITY, c, b) => \A o \in Remote(b) : Has(Leader(b), FETCHED_RESULT, c, o)
    /\ Planned(b, LOCAL_MEMBERSHIP, c, b) =>
          Has(Leader(b), LOCAL_CONNECTIVITY, c, b) /\ \A d \in Remote(b) : Have(b, d, "CONNECTIVITY", c)
    /\ Planned(b, FULL_MEMBERSHIP, c, b) =>
          Has(Leader(b), LOCAL_MEMBERSHIP, c, b) /\ \A d \in Remote(b) : Have(b, d, "MEMBERSHIP", c)

(* An answer a leader has was asked for, and some SL of the other group was   *)
(* able to give it.                                                           *)
HaveOK(b, d, k, c) == Have(b, d, k, c) => AskedFor(b, k, c) /\ Some(d, AskType(k), c)

(* What is in flight: messages, and requests kept until the SL has the        *)
(* answer.                                                                    *)
KeptBy(n, w) == [type |-> "KEPT", kind |-> w[1], cycle |-> w[2], from |-> w[3], to |-> n]
Flight == net \union UNION {{KeptBy(n, w) : w \in waiting[n]} : n \in Node}
Asker(x) == IF x.type = "RESPONSE" THEN x.to[1] ELSE x.from[1]
Askee(x) == IF x.type = "RESPONSE" THEN x.bg ELSE x.to[1]
SameQuestion(x, y) == x.kind = y.kind /\ x.cycle = y.cycle /\ Asker(x) = Asker(y) /\ Askee(x) = Askee(y)

(* A question in flight was asked, the leader does not have its answer, and   *)
(* an answer was given by a group that has it.                                *)
FlightOK(x) ==
    /\ Askee(x) \in Remote(Asker(x))
    /\ AskedFor(Asker(x), x.kind, x.cycle)
    /\ ~Have(Asker(x), Askee(x), x.kind, x.cycle)
    /\ x.type = "RESPONSE" => Some(Askee(x), AskType(x.kind), x.cycle)

(* No question is in flight twice, as a request, a kept request or an         *)
(* answer.                                                                    *)
AskedOnce == \A x, y \in Flight : SameQuestion(x, y) => x = y

(* The inductive invariant.                                                   *)
IInv ==
    /\ TypeOK
    /\ \A b \in BG : LogOK(b)
    /\ \A n \in Node, c \in Cycle : StageOK(n, c)
    /\ \A b \in BG, c \in Cycle : PlanOK(b, c)
    /\ \A b \in BG, c \in Cycle, k \in Kind : \A d \in Remote(b) : HaveOK(b, d, k, c)
    /\ \A x \in Flight : FlightOK(x)
    /\ AskedOnce
-----------------------------------------------------------------------------
(* A finite set of groups has one with the most batches.                      *)
LEMMA MostBatches == \E b \in BG : \A a \in BG : Batches[a] <= Batches[b]
  <1> DEFINE Without == {U \in SUBSET BG : U # {} /\ ~\E b \in U : \A a \in U : Batches[a] <= Batches[b]}
  <1> SUFFICES ASSUME Without # {} PROVE FALSE
    <2>1. BG # {}
      BY SizeAssumption, FS_EmptySet DEF NumBG
    <2> QED
      BY <2>1
  <1>1. FiniteSubsetsOf(BG) = SUBSET BG
    BY SizeAssumption, FS_FiniteSubsetsOfFinite
  <1>2. IsWellFoundedOn(StrictSubsetOrdering(BG), SUBSET BG)
    BY <1>1, FS_StrictSubsetOrderingWellFounded
  <1>3. PICK U \in Without : \A V \in Without : ~(<<V, U>> \in StrictSubsetOrdering(BG))
    <2> HIDE DEF Without
    <2>1. Without \subseteq SUBSET BG
      BY DEF Without
    <2> QED
      BY <1>2, <2>1, WFMin
  <1>4. PICK x \in U : TRUE
    OBVIOUS
  <1> DEFINE V == U \ {x}
  <1>5. <<V, U>> \in StrictSubsetOrdering(BG)
    BY DEF StrictSubsetOrdering
  <1>6. V \notin Without /\ V \in SUBSET BG
    BY <1>3, <1>5
  <1>7. \A b \in BG : Batches[b] \in Nat
    BY BatchesAssumption
  <1>8. CASE V = {}
    BY <1>7, <1>8
  <1>9. CASE V # {}
    <2>1. PICK m \in V : \A a \in V : Batches[a] <= Batches[m]
      BY <1>6, <1>9
    <2>2. CASE Batches[x] <= Batches[m]
      BY <2>1, <2>2
    <2>3. CASE Batches[m] < Batches[x]
      BY <1>7, <2>1, <2>3
    <2> QED
      BY <1>7, <2>2, <2>3
  <1> QED
    BY <1>8, <1>9

(* MaxCycle is a number and bounds the batches of every group.                *)
LEMMA MaxCycleBound == MaxCycle \in Nat /\ \A b \in BG : Batches[b] <= MaxCycle
  <1>1. \E c \in {Batches[b] : b \in BG} : \A b \in BG : Batches[b] <= c
    BY MostBatches
  <1>2. /\ MaxCycle \in {Batches[b] : b \in BG}
        /\ \A b \in BG : Batches[b] <= MaxCycle
    BY <1>1 DEF MaxCycle
  <1> QED
    BY <1>2, BatchesAssumption

(* SL 0 leads, a group has others, an SL is its group and its number.          *)
LEMMA Groups ==
    /\ 0 \in SL /\ FirstEnvoy \in SL /\ \A rr \in SL : NextEnvoy(rr) \in SL
    /\ \A b \in BG : Leader(b) \in Node /\ Leader(b)[1] = b
    /\ \A b \in BG, s \in SL : <<b, s>> \in Node /\ <<b, s>>[1] = b /\ <<b, s>>[2] = s
    /\ \A n \in Node : n[1] \in BG /\ n[2] \in SL /\ n = <<n[1], n[2]>>
    /\ \A b \in BG : Remote(b) # {} /\ Remote(b) \subseteq BG /\ b \notin Remote(b)
  <1>1. 0 \in SL /\ NumSL \in Nat \ {0} /\ NumEnvoys \in Nat
    BY SizeAssumption, EnvoysAssumption DEF SL
  <1>2. \A x \in Int : x % NumSL \in SL
    BY <1>1 DEF SL
  <1>3. FirstEnvoy \in SL
    <2>1. PICK k \in 0..NumSL : FirstEnvoy = (k * NumEnvoys) % NumSL
      BY FirstEnvoyAssumption
    <2> DEFINE x == k * NumEnvoys
    <2>2. x \in Int
      BY <1>1
    <2> QED
      BY <1>2, <2>1, <2>2
  <1>4. \A rr \in SL : NextEnvoy(rr) \in SL
    BY <1>1, <1>2 DEF NextEnvoy, SL
  <1>5. \A b \in BG : Remote(b) # {}
    <2> SUFFICES ASSUME NEW b \in BG, Remote(b) = {} PROVE FALSE
      OBVIOUS
    <2>1. BG = {b}
      BY DEF Remote
    <2>2. Cardinality(BG) = 1
      BY <2>1, FS_Singleton
    <2> QED
      BY <2>2, SizeAssumption DEF NumBG
  <1> QED
    BY <1>1, <1>3, <1>4, <1>5 DEF Node, Leader, Remote

(* The counter of answers, compared with NumBG - 1, is about the other groups. *)
LEMMA Answers ==
    ASSUME NEW b \in BG, NEW S \in SUBSET BG
    PROVE  /\ Cardinality(S \ {b}) \in 0..(NumBG - 1)
           /\ S = {b} => Cardinality(S \ {b}) = 0
           /\ S = {} => Cardinality(S \ {b}) = 0
           /\ Cardinality(S \ {b}) = NumBG - 1 <=> Remote(b) \subseteq S
           /\ Cardinality((S \union {b}) \ {b}) = Cardinality(S \ {b})
           /\ \A d \in Remote(b) : d \notin S =>
                 Cardinality((S \union {d}) \ {b}) = Cardinality(S \ {b}) + 1
  <1>1. IsFiniteSet(Remote(b)) /\ Cardinality(Remote(b)) = NumBG - 1
    BY SizeAssumption, FS_RemoveElement DEF Remote, NumBG
  <1>2. S \ {b} \in SUBSET Remote(b)
    BY DEF Remote
  <1>3. /\ IsFiniteSet(S \ {b})
        /\ Cardinality(S \ {b}) <= NumBG - 1
        /\ Cardinality(S \ {b}) = NumBG - 1 => Remote(b) = S \ {b}
    BY <1>1, <1>2, FS_Subset
  <1>4. Cardinality(S \ {b}) \in Nat /\ NumBG \in Nat
    BY <1>3, SizeAssumption, FS_CardinalityType DEF NumBG
  <1>5. S = {b} \/ S = {} => S \ {b} = {}
    OBVIOUS
  <1>6. Remote(b) \subseteq S => S \ {b} = Remote(b)
    BY DEF Remote
  <1>7. (S \union {b}) \ {b} = S \ {b}
    OBVIOUS
  <1>8. ASSUME NEW d \in Remote(b), d \notin S
        PROVE  Cardinality((S \union {d}) \ {b}) = Cardinality(S \ {b}) + 1
    <2>1. (S \union {d}) \ {b} = (S \ {b}) \union {d}
      BY DEF Remote
    <2> QED
      BY <1>3, <1>8, <2>1, FS_AddElement
  <1>9. Cardinality({}) = 0
    BY FS_EmptySet
  <1>10. Cardinality(S \ {b}) \in 0..(NumBG - 1)
    BY <1>3, <1>4
  <1> QED
    BY <1>1, <1>3, <1>5, <1>6, <1>7, <1>8, <1>9, <1>10
-----------------------------------------------------------------------------
(* The part of the state that is the groups' logs and schedulers.              *)
LogTypes ==
    /\ log \in [BG -> Seq(Entry)]
    /\ applied \in [Node -> Nat]
    /\ pending \in [BG -> SUBSET Entry]
    /\ next_cycle \in [BG -> 1..(MaxCycle + 1)]
    /\ envoys_rr \in [BG -> SL]

(* Work that group b may plan: of a stage that is due, and not planned before. *)
WorkOK(b, work) ==
    /\ work \in SUBSET Entry
    /\ pending[b] \subseteq work
    /\ \A e \in work : /\ e.requestType # FROM_CLIENT
                       /\ Enabled(b, Len(log[b]), e)
                       /\ \A i \in 1..Len(log[b]) : ~Same(log[b][i], e)
    /\ \A e, f \in work : Same(e, f) => e = f

(* What every handler of SL n, if it is the leader of b or not, leaves behind: *)
(* the work is in the queue, or the slot was free and an entry is sent out.    *)
Sched(b, work) ==
    \/ /\ pending' = [pending EXCEPT ![b] = work]
       /\ work # {} => applied'[Leader(b)] # Len(log[b])
       /\ UNCHANGED <<log, next_cycle, envoys_rr>>
    \/ /\ applied'[Leader(b)] = Len(log[b])
       /\ \/ work # {} /\ SendPending(b, work)
          \/ work = {} /\ SendBatch(b) /\ pending' = [pending EXCEPT ![b] = {}]

(* SL n, or nobody, applies the next entry of its group's log.                 *)
Applies(n) == CanCommit(n) /\ applied' = [applied EXCEPT ![n] = @ + 1]
NextEntry(n) == log[n[1]][applied[n] + 1]

(* What group b sends out, if anything.                                        *)
Sends(b, work, e) ==
    /\ log'[b] = Append(log[b], e)
    /\ applied'[Leader(b)] = Len(log[b])
    /\ pending'[b] = work \ {e}
    /\ Enabled(b, Len(log[b]), e)
    /\ \A i \in 1..Len(log[b]) : ~Same(log[b][i], e)
    /\ \/ e \in work /\ next_cycle'[b] = next_cycle[b]
       \/ /\ work = {} /\ e.requestType = FROM_CLIENT /\ e.cycle = next_cycle[b]
          /\ next_cycle'[b] = next_cycle[b] + 1

Keeps(b, work) ==
    /\ log'[b] = log[b] /\ pending'[b] = work /\ next_cycle'[b] = next_cycle[b]
    /\ work # {} => applied'[Leader(b)] # Len(log[b])

(* The scheduler of a group keeps the types and touches no other group; it    *)
(* either queues the work or sends one entry.                                 *)
LEMMA SchedEffect ==
    ASSUME LogTypes, NEW b \in BG, LogOK(b), NEW work, WorkOK(b, work), Sched(b, work),
           applied' \in [Node -> Nat]
    PROVE  /\ LogTypes'
           /\ \A a \in BG \ {b} : /\ log'[a] = log[a] /\ pending'[a] = pending[a]
                                  /\ next_cycle'[a] = next_cycle[a]
           /\ Keeps(b, work) \/ \E e \in Entry : Sends(b, work, e)
  <1>1. CASE /\ pending' = [pending EXCEPT ![b] = work]
             /\ work # {} => applied'[Leader(b)] # Len(log[b])
             /\ UNCHANGED <<log, next_cycle, envoys_rr>>
    <2>1. LogTypes'
      BY <1>1 DEF LogTypes, WorkOK
    <2> QED
      BY <1>1, <2>1 DEF LogTypes, Keeps
  <1>2. CASE applied'[Leader(b)] = Len(log[b]) /\ work # {} /\ SendPending(b, work)
    <2>1. PICK e \in work : /\ log' = [log EXCEPT ![b] = Append(@, e)]
                            /\ pending' = [pending EXCEPT ![b] = work \ {e}]
                            /\ UNCHANGED <<next_cycle, envoys_rr>>
      BY <1>2 DEF SendPending, Top
    <2>2. e \in Entry
      BY DEF WorkOK
    <2>3. LogTypes'
      BY <2>1, <2>2 DEF LogTypes, WorkOK
    <2>4. Sends(b, work, e)
      BY <1>2, <2>1 DEF Sends, LogTypes, WorkOK
    <2> QED
      BY <2>1, <2>2, <2>3, <2>4 DEF LogTypes
  <1>3. CASE /\ applied'[Leader(b)] = Len(log[b]) /\ work = {} /\ SendBatch(b)
             /\ pending' = [pending EXCEPT ![b] = {}]
    <2> DEFINE e == [requestType |-> FROM_CLIENT, cycle |-> next_cycle[b], origin |-> b,
                     envoy |-> envoys_rr[b]]
    <2>1. /\ log' = [log EXCEPT ![b] = Append(@, e)]
          /\ next_cycle' = [next_cycle EXCEPT ![b] = @ + 1]
          /\ envoys_rr' = [envoys_rr EXCEPT ![b] = NextEnvoy(@)]
          /\ next_cycle[b] <= Batches[b]
      BY <1>3 DEF SendBatch
    <2>2. next_cycle[b] \in Cycle /\ next_cycle[b] + 1 \in 1..(MaxCycle + 1)
      <3>1. /\ Batches[b] \in Nat /\ MaxCycle \in Nat /\ Batches[b] <= MaxCycle
            /\ next_cycle[b] \in 1..(MaxCycle + 1)
        BY MaxCycleBound, BatchesAssumption DEF LogTypes
      <3> QED
        BY <2>1, <3>1 DEF Cycle
    <2>3. e \in Entry
      BY <2>2 DEF LogTypes, Entry, RequestType
    <2>4. LogTypes'
      BY <1>3, <2>1, <2>2, <2>3, Groups DEF LogTypes
    <2>5. Enabled(b, Len(log[b]), e)
      BY DEF Enabled, FROM_CLIENT, FETCHED_RESULT, LOCAL_CONNECTIVITY, LOCAL_MEMBERSHIP, FULL_MEMBERSHIP
    <2>6. ASSUME NEW i \in 1..Len(log[b]), Same(log[b][i], e) PROVE FALSE
      <3>1. InLog(b, FROM_CLIENT, next_cycle[b], b)
        BY <2>6 DEF InLog, Before, Same, Is, FROM_CLIENT, FETCHED_RESULT
      <3> QED
        BY <2>2, <3>1 DEF LogOK, NoRepetition, LogTypes
    <2>7. Sends(b, work, e)
      BY <1>3, <2>1, <2>5, <2>6 DEF Sends, LogTypes
    <2> QED
      BY <1>3, <2>1, <2>3, <2>4, <2>7 DEF LogTypes
  <1> QED
    BY <1>1, <1>2, <1>3 DEF Sched

(* Entries stay where they are.                                                *)
LogGrows == \A a \in BG : /\ Len(log[a]) <= Len(log'[a])
                          /\ \A i \in 1..Len(log[a]) : log'[a][i] = log[a][i]

(* Either way the logs only grow.                                             *)
LEMMA SchedGrows ==
    ASSUME LogTypes, NEW b \in BG, NEW work,
           \A a \in BG \ {b} : log'[a] = log[a],
           Keeps(b, work) \/ \E e \in Entry : Sends(b, work, e)
    PROVE  LogGrows
  <1>1. CASE Keeps(b, work)
    <2>1. \A a \in BG : log'[a] = log[a] /\ Len(log[a]) \in Nat
      BY <1>1 DEF Keeps, LogTypes
    <2> QED
      BY <2>1 DEF LogGrows
  <1>2. ASSUME NEW e \in Entry, Sends(b, work, e) PROVE LogGrows
    <2>1. log[b] \in Seq(Entry) /\ log'[b] = Append(log[b], e)
      BY <1>2 DEF LogTypes, Sends
    <2>2. Len(log'[b]) = Len(log[b]) + 1 /\ \A i \in 1..Len(log[b]) : log'[b][i] = log[b][i]
      BY <2>1
    <2>3. \A a \in BG \ {b} : log'[a] = log[a] /\ Len(log[a]) \in Nat
      BY DEF LogTypes
    <2> QED
      BY <2>1, <2>2, <2>3 DEF LogGrows
  <1> QED
    BY <1>1, <1>2

(* So what came before an entry still does, and an entry is enabled as before. *)
LEMMA BeforeStays ==
    ASSUME LogTypes, LogGrows, NEW a \in BG, NEW k \in 0..Len(log[a])
    PROVE  /\ \A t, c, o : Before(a, k, t, c, o)' <=> Before(a, k, t, c, o)
           /\ \A e : Enabled(a, k, e)' <=> Enabled(a, k, e)
  <1>1. \A t, c, o : Before(a, k, t, c, o)' <=> Before(a, k, t, c, o)
    BY DEF LogGrows, Before, Is, LogTypes
  <1> QED
    BY <1>1 DEF Enabled

(* What is among the first k entries is among the first l, for l >= k.        *)
LEMMA MoreBefore ==
    ASSUME NEW a \in BG, NEW k \in Nat, NEW l \in Nat, k <= l
    PROVE  /\ \A t, c, o : Before(a, k, t, c, o) => Before(a, l, t, c, o)
           /\ \A t, c, o : Before(a, k, t, c, o)' => Before(a, l, t, c, o)'
           /\ \A e : Enabled(a, k, e) => Enabled(a, l, e)
           /\ \A e : Enabled(a, k, e)' => Enabled(a, l, e)'
  <1>1. /\ \A t, c, o : Before(a, k, t, c, o) => Before(a, l, t, c, o)
        /\ \A t, c, o : Before(a, k, t, c, o)' => Before(a, l, t, c, o)'
    BY DEF Before
  <1> QED
    BY <1>1 DEF Enabled

(* A step of the logs: the leader of b plans and sends, an SL of b applies.    *)
LogStep(b, work) ==
    /\ LogTypes'
    /\ \A a \in BG \ {b} : /\ log'[a] = log[a] /\ pending'[a] = pending[a]
                           /\ next_cycle'[a] = next_cycle[a]
    /\ Keeps(b, work) \/ \E e \in Entry : Sends(b, work, e)
    /\ applied' = applied \/ \E n \in Node : n[1] = b /\ Applies(n)

(* An SL that applies the next entry when nobody is behind it keeps the SLs   *)
(* of its group in step.                                                      *)
LEMMA AppliedStep ==
    ASSUME LogTypes, NEW b \in BG, InStep(b),
           applied' = applied \/ \E n \in Node : n[1] = b /\ Applies(n)
    PROVE  /\ applied' \in [Node -> Nat]
           /\ \A a \in BG \ {b} : \A s \in SL : applied'[<<a, s>>] = applied[<<a, s>>]
           /\ \A s \in SL : applied[<<b, s>>] <= applied'[<<b, s>>] /\ applied'[<<b, s>>] <= Len(log[b])
           /\ \A r, s \in SL : applied'[<<b, s>>] <= applied'[<<b, r>>] + 1
  <1>1. CASE applied' = applied
    <2>1. \A s \in SL : applied[<<b, s>>] \in Nat
      BY Groups DEF LogTypes
    <2> QED
      BY <1>1, <2>1 DEF LogTypes, InStep
  <1>2. ASSUME NEW n \in Node, n[1] = b, Applies(n)
        PROVE  /\ applied' \in [Node -> Nat]
               /\ \A a \in BG \ {b} : \A s \in SL : applied'[<<a, s>>] = applied[<<a, s>>]
               /\ \A s \in SL : applied[<<b, s>>] <= applied'[<<b, s>>] /\ applied'[<<b, s>>] <= Len(log[b])
               /\ \A r, s \in SL : applied'[<<b, s>>] <= applied'[<<b, r>>] + 1
    <2>1. /\ n[2] \in SL /\ n = <<b, n[2]>>
          /\ applied[n] < Len(log[b])
          /\ \A s \in SL : applied[<<b, s>>] >= applied[n]
          /\ applied' = [applied EXCEPT ![n] = @ + 1]
          /\ applied[n] \in Nat /\ Len(log[b]) \in Nat
      BY <1>2, Groups DEF Applies, CanCommit, LogTypes
    <2>2. applied' \in [Node -> Nat] /\ applied'[n] = applied[n] + 1
      BY <2>1 DEF LogTypes
    <2>3. \A a \in BG, s \in SL : <<a, s>> # n => applied'[<<a, s>>] = applied[<<a, s>>]
      BY <2>1, Groups DEF LogTypes
    <2>4. \A a \in BG, s \in SL : applied[<<a, s>>] \in Nat
      BY Groups DEF LogTypes
    <2>5. \A a \in BG \ {b}, s \in SL : <<a, s>> # n
      BY <2>1
    <2>6. \A s \in SL : <<b, s>> = n \/ applied'[<<b, s>>] = applied[<<b, s>>]
      BY <2>3
    <2>7. \A r, s \in SL : applied[<<b, s>>] <= applied[<<b, r>>] + 1 /\ applied[<<b, s>>] <= Len(log[b])
      BY DEF InStep
    <2>8. \A s \in SL : applied[<<b, s>>] <= applied'[<<b, s>>] /\ applied'[<<b, s>>] <= Len(log[b])
      BY <2>1, <2>2, <2>4, <2>6, <2>7
    <2>9. \A r, s \in SL : applied'[<<b, s>>] <= applied'[<<b, r>>] + 1
      BY <2>1, <2>2, <2>4, <2>6, <2>7
    <2> QED
      BY <2>2, <2>3, <2>5, <2>8, <2>9
  <1> QED
    BY <1>1, <1>2

(* A step of the log keeps the SLs of the group in step.                      *)
LEMMA LogStepInStep ==
    ASSUME LogTypes, NEW b \in BG, InStep(b), NEW work, LogStep(b, work)
    PROVE  InStep(b)' /\ Len(log[b]) <= Len(log'[b])
  <1>1. /\ \A s \in SL : applied[<<b, s>>] <= applied'[<<b, s>>] /\ applied'[<<b, s>>] <= Len(log[b])
        /\ \A r, s \in SL : applied'[<<b, s>>] <= applied'[<<b, r>>] + 1
        /\ applied' \in [Node -> Nat]
    BY AppliedStep DEF LogStep
  <1>2. /\ Leader(b) \in Node /\ Leader(b) = <<b, 0>> /\ 0 \in SL
        /\ \A s \in SL : <<b, s>> \in Node
    BY Groups DEF Leader
  <1>3. Len(log[b]) \in Nat /\ Len(log[b]) <= applied[Leader(b)] + 1
    BY DEF LogTypes, InStep
  <1>4. CASE Keeps(b, work)
    BY <1>1, <1>2, <1>3, <1>4 DEF Keeps, InStep, LogTypes
  <1>5. ASSUME NEW e \in Entry, Sends(b, work, e) PROVE InStep(b)' /\ Len(log[b]) <= Len(log'[b])
    <2>1. Len(log'[b]) = Len(log[b]) + 1 /\ applied'[Leader(b)] = Len(log[b])
      BY <1>5 DEF Sends, LogTypes
    <2> QED
      BY <1>1, <1>2, <1>3, <2>1 DEF InStep
  <1> QED
    BY <1>4, <1>5 DEF LogStep

(* A step of the log keeps the order of the stages, repeats nothing and       *)
(* leaves no work idle.                                                       *)
LEMMA LogStepOrdered ==
    ASSUME LogTypes, NEW b \in BG, LogOK(b), NEW work, WorkOK(b, work), LogStep(b, work)
    PROVE  Ordered(b)' /\ NoRepetition(b)' /\ NoIdleWork(b)'
  <1>1. LogGrows
    BY SchedGrows DEF LogStep
  <1>2. PICK k \in Nat : k = Len(log[b])
    BY DEF LogTypes
  <1>3. /\ \A j \in 0..k : \A e : Enabled(b, j, e)' <=> Enabled(b, j, e)
        /\ \A c : Before(b, k, FROM_CLIENT, c, b)' <=> Before(b, k, FROM_CLIENT, c, b)
    BY <1>1, <1>2, BeforeStays
  <1>4. \A i \in 1..k : log'[b][i] = log[b][i] /\ Enabled(b, i - 1, log[b][i])
    BY <1>1, <1>2 DEF LogGrows, LogOK, Ordered
  <1>5. \A i \in 1..k : Enabled(b, i - 1, log[b][i])'
    <2> SUFFICES ASSUME NEW i \in 1..k, NEW e, e = log'[b][i] PROVE Enabled(b, i - 1, e)'
      OBVIOUS
    <2>1. i - 1 \in 0..k
      BY <1>2
    <2> QED
      BY <1>3, <1>4, <2>1
  <1>6. CASE Keeps(b, work)
    <2>1. log'[b] = log[b] /\ pending'[b] = work
      BY <1>6 DEF Keeps
    <2>2. Ordered(b)'
      BY <1>2, <1>3, <1>5, <2>1 DEF Ordered, WorkOK
    <2>3. NoRepetition(b)'
      BY <1>2, <1>3, <1>6, <2>1 DEF NoRepetition, LogOK, WorkOK, InLog, Keeps
    <2>4. NoIdleWork(b)'
      BY <1>6 DEF Keeps, NoIdleWork, SlotFree
    <2> QED
      BY <2>2, <2>3, <2>4
  <1>7. ASSUME NEW e \in Entry, Sends(b, work, e)
        PROVE  Ordered(b)' /\ NoRepetition(b)' /\ NoIdleWork(b)'
    <2>1. /\ log'[b] = Append(log[b], e) /\ pending'[b] = work \ {e}
          /\ Enabled(b, k, e)
          /\ \A i \in 1..k : ~Same(log[b][i], e)
          /\ applied'[Leader(b)] = k
      BY <1>2, <1>7 DEF Sends
    <2>2. Len(log'[b]) = k + 1 /\ log'[b][k + 1] = e
      BY <1>2, <2>1 DEF LogTypes
    <2>3. \A f : Enabled(b, k, f) => Enabled(b, k, f)' /\ Enabled(b, k + 1, f)'
      BY <1>2, <1>3, MoreBefore
    <2>4. Ordered(b)'
      <3>1. \A i \in 1..(k + 1) : i \in 1..k \/ (i = k + 1 /\ i - 1 = k)
        BY <1>2
      <3>2. \A i \in 1..(k + 1) : Enabled(b, i - 1, log[b][i])'
        BY <1>5, <2>1, <2>2, <2>3, <3>1
      <3> QED
        BY <2>1, <2>2, <2>3, <3>2 DEF Ordered, WorkOK
    <2>5. \A i, j \in 1..(k + 1) : Same(log'[b][i], log'[b][j]) => i = j
      <3>1. \A i \in 1..(k + 1) : i \in 1..k \/ i = k + 1
        BY <1>2
      <3>2. \A i, j \in 1..k : Same(log[b][i], log[b][j]) => i = j
        BY <1>2 DEF LogOK, NoRepetition
      <3>3. \A i \in 1..k : ~Same(e, log[b][i])
        BY <2>1 DEF Same, Is
      <3> QED
        BY <1>4, <2>1, <2>2, <3>1, <3>2, <3>3
    <2>6. \A f \in work \ {e} : \A i \in 1..(k + 1) : ~Same(log'[b][i], f)
      <3> SUFFICES ASSUME NEW f \in work \ {e}, NEW i \in 1..(k + 1), Same(log'[b][i], f) PROVE FALSE
        OBVIOUS
      <3>1. CASE i \in 1..k
        BY <1>2, <1>4, <3>1 DEF WorkOK
      <3>2. CASE i = k + 1
        <4>1. e \in work
          BY <1>7 DEF Sends
        <4> QED
          BY <2>2, <3>2, <4>1 DEF WorkOK
      <3> QED
        BY <1>2, <3>1, <3>2
    <2>7. ASSUME NEW c \in Cycle, InLog(b, FROM_CLIENT, c, b)' PROVE c < next_cycle'[b]
      <3>1. PICK i \in 1..(k + 1) : Is(log'[b][i], FROM_CLIENT, c, b)
        BY <2>2, <2>7 DEF InLog, Before, Is
      <3>2. next_cycle[b] \in Nat /\ next_cycle'[b] \in Nat /\ next_cycle[b] <= next_cycle'[b]
        BY <1>7 DEF LogTypes, LogStep, Sends
      <3>3. CASE i \in 1..k
        <4>1. InLog(b, FROM_CLIENT, c, b)
          BY <1>2, <1>4, <3>1, <3>3 DEF InLog, Before
        <4>2. c < next_cycle[b] /\ c \in Nat
          BY <4>1, MaxCycleBound DEF LogOK, NoRepetition, Cycle
        <4> QED
          BY <3>2, <4>2
      <3>4. CASE i = k + 1
        <4>1. e.requestType = FROM_CLIENT /\ e.cycle = c
          BY <2>2, <3>1, <3>4 DEF Is
        <4>2. e.cycle = next_cycle[b] /\ next_cycle'[b] = next_cycle[b] + 1
          BY <1>7, <4>1 DEF Sends, WorkOK
        <4> QED
          BY <3>2, <4>1, <4>2
      <3> QED
        BY <1>2, <3>3, <3>4
    <2>8. NoRepetition(b)'
      BY <2>1, <2>2, <2>5, <2>6, <2>7 DEF NoRepetition, WorkOK
    <2>9. NoIdleWork(b)'
      BY <1>2, <2>1, <2>2 DEF NoIdleWork, SlotFree
    <2> QED
      BY <2>4, <2>8, <2>9
  <1> QED
    BY <1>6, <1>7 DEF LogStep

(* The two together, and the other groups do not change.                      *)
LEMMA LogStepOK ==
    ASSUME LogTypes, \A a \in BG : LogOK(a), NEW b \in BG, NEW work, WorkOK(b, work), LogStep(b, work)
    PROVE  \A a \in BG : LogOK(a)'
  <1>1. LogOK(b)'
    BY LogStepInStep, LogStepOrdered DEF LogOK
  <1>2. ASSUME NEW a \in BG \ {b} PROVE LogOK(a)'
    <2>1. log'[a] = log[a] /\ pending'[a] = pending[a] /\ next_cycle'[a] = next_cycle[a]
      BY DEF LogStep
    <2>2. \A s \in SL : applied'[<<a, s>>] = applied[<<a, s>>]
      BY AppliedStep DEF LogOK, LogStep
    <2>3. Leader(a) = <<a, 0>> /\ 0 \in SL
      BY Groups DEF Leader
    <2>4. InStep(a)'
      BY <2>1, <2>2, <2>3 DEF LogOK, InStep
    <2>5. \A k : \A e : Enabled(a, k, e)' <=> Enabled(a, k, e)
      BY <2>1 DEF Enabled, Before, Is
    <2>6. Ordered(a)'
      BY <2>1, <2>5 DEF Ordered, LogOK
    <2>7. \A c : InLog(a, FROM_CLIENT, c, a)' <=> InLog(a, FROM_CLIENT, c, a)
      BY <2>1 DEF InLog, Before, Is
    <2>8. NoRepetition(a)'
      BY <2>1, <2>7 DEF LogOK, NoRepetition
    <2>9. NoIdleWork(a)'
      BY <2>1, <2>2, <2>3 DEF LogOK, NoIdleWork, SlotFree
    <2> QED
      BY <2>4, <2>6, <2>8, <2>9 DEF LogOK
  <1> QED
    BY <1>1, <1>2

(* What is planned, and what is known of the logs, only grows; only the work   *)
(* handed over and a batch of the clients are new.                             *)
LEMMA PlannedStep ==
    ASSUME LogTypes, NEW b \in BG, NEW work, WorkOK(b, work), LogStep(b, work),
           NEW a \in BG, NEW t, NEW c, NEW o
    PROVE  /\ InLog(a, t, c, o) => InLog(a, t, c, o)'
           /\ EnvoyIs(a, c, o) => EnvoyIs(a, c, o)'
           /\ t # FROM_CLIENT =>
                 (Planned(a, t, c, o)' <=>
                     Planned(a, t, c, o) \/ (a = b /\ \E e \in work : Is(e, t, c, o)))
  <1>1. LogGrows
    BY SchedGrows DEF LogStep
  <1>2. PICK k \in Nat : k = Len(log[a])
    BY DEF LogTypes
  <1>3. \A i \in 1..k : log'[a][i] = log[a][i] /\ i \in 1..Len(log'[a])
    BY <1>1, <1>2 DEF LogGrows, LogTypes, LogStep
  <1>4. InLog(a, t, c, o) => InLog(a, t, c, o)'
    BY <1>2, <1>3 DEF InLog, Before, Is
  <1>5. EnvoyIs(a, c, o) => EnvoyIs(a, c, o)'
    BY <1>2, <1>3 DEF EnvoyIs, Is
  <1>6. ASSUME a # b
        PROVE  Planned(a, t, c, o)' <=> Planned(a, t, c, o)
    <2>1. log'[a] = log[a] /\ pending'[a] = pending[a]
      BY <1>6 DEF LogStep
    <2> QED
      BY <2>1 DEF Planned, InLog, Before, Is
  <1>7. ASSUME a = b, Keeps(b, work)
        PROVE  Planned(a, t, c, o)' <=> Planned(a, t, c, o) \/ \E e \in work : Is(e, t, c, o)
    <2>1. log'[a] = log[a] /\ pending'[a] = work /\ pending[a] \subseteq work
      BY <1>7 DEF Keeps, WorkOK
    <2> QED
      BY <2>1 DEF Planned, InLog, Before, Is
  <1>8. ASSUME a = b, t # FROM_CLIENT, NEW e \in Entry, Sends(b, work, e)
        PROVE  Planned(a, t, c, o)' <=> Planned(a, t, c, o) \/ \E f \in work : Is(f, t, c, o)
    <2>1. /\ log'[a] = Append(log[a], e) /\ pending'[a] = work \ {e} /\ pending[a] \subseteq work
          /\ e \in work \/ (work = {} /\ e.requestType = FROM_CLIENT)
      BY <1>8 DEF Sends, WorkOK
    <2>2. Len(log'[a]) = k + 1 /\ log'[a][k + 1] = e
      BY <1>2, <2>1 DEF LogTypes
    <2>3. InLog(a, t, c, o)' <=> InLog(a, t, c, o) \/ Is(e, t, c, o)
      <3>1. \A i \in 1..(k + 1) : i \in 1..k \/ i = k + 1
        BY <1>2
      <3>2. k + 1 \in 1..(k + 1) /\ \A i \in 1..k : i \in 1..(k + 1)
        BY <1>2
      <3> QED
        BY <1>2, <1>3, <2>2, <3>1, <3>2 DEF InLog, Before, Is
    <2>4. e \notin work => ~Is(e, t, c, o)
      BY <1>8, <2>1 DEF Is
    <2> QED
      BY <2>1, <2>3, <2>4 DEF Planned, Is
  <1> QED
    BY <1>4, <1>5, <1>6, <1>7, <1>8 DEF LogStep

(* SL m knows what it knew, and if it applies an entry, that entry.            *)
LEMMA HasStep ==
    ASSUME LogTypes, \A a \in BG : LogOK(a), NEW b \in BG, NEW work, LogStep(b, work),
           NEW m \in Node, NEW t, NEW c, NEW o
    PROVE  /\ Has(m, t, c, o) => Has(m, t, c, o)'
           /\ applied' = applied => (Has(m, t, c, o)' <=> Has(m, t, c, o))
           /\ \A n \in Node : Applies(n) =>
                 (Has(m, t, c, o)' <=> Has(m, t, c, o) \/ (m = n /\ Is(NextEntry(n), t, c, o)))
  <1>1. LogGrows
    BY SchedGrows DEF LogStep
  <1>2. m[1] \in BG /\ m[2] \in SL /\ m = <<m[1], m[2]>>
    BY Groups
  <1>3. applied[m] \in 0..Len(log[m[1]]) /\ Len(log[m[1]]) \in Nat
    BY <1>2 DEF LogTypes, LogOK, InStep
  <1>4. PICK k \in Nat : k = applied[m]
    BY <1>3
  <1>5. \A i \in 1..Len(log[m[1]]) : log'[m[1]][i] = log[m[1]][i]
    BY <1>1, <1>2 DEF LogGrows
  <1>6. ASSUME applied'[m] = applied[m]
        PROVE  Has(m, t, c, o)' <=> Has(m, t, c, o)
    BY <1>3, <1>5, <1>6 DEF Has, Before, Is
  <1>7. ASSUME NEW n \in Node, Applies(n)
        PROVE  Has(m, t, c, o)' <=> Has(m, t, c, o) \/ (m = n /\ Is(NextEntry(n), t, c, o))
    <2>1. CASE m = n
      <3>1. applied'[m] = k + 1 /\ k + 1 \in 1..Len(log[m[1]])
        BY <1>3, <1>4, <1>7, <2>1 DEF Applies, CanCommit, LogTypes
      <3>2. \A i \in 1..(k + 1) : i \in 1..k \/ i = k + 1
        BY <1>4
      <3>3. k + 1 \in 1..(k + 1) /\ \A i \in 1..k : i \in 1..(k + 1)
        BY <1>4
      <3>4. \A i \in 1..(k + 1) : i \in 1..Len(log[m[1]])
        BY <1>3, <3>1
      <3>5. NextEntry(n) = log[m[1]][k + 1]
        BY <1>4, <2>1 DEF NextEntry
      <3> QED
        BY <1>4, <1>5, <2>1, <3>1, <3>2, <3>3, <3>4, <3>5 DEF Has, Before, Is
    <2>2. CASE m # n
      <3>1. applied'[m] = applied[m]
        BY <1>7, <2>2 DEF Applies, LogTypes
      <3> QED
        BY <1>6, <2>2, <3>1
    <2> QED
      BY <2>1, <2>2
  <1>8. applied' = applied => (Has(m, t, c, o)' <=> Has(m, t, c, o))
    BY <1>6
  <1> QED
    BY <1>7, <1>8 DEF LogStep
-----------------------------------------------------------------------------
(* An SL that has applied an entry of a cycle has applied those before it.     *)
LEMMA Chain ==
    ASSUME LogTypes, \A a \in BG : LogOK(a), NEW n \in Node, NEW c
    PROVE  /\ Has(n, FULL_MEMBERSHIP, c, n[1]) => Has(n, LOCAL_MEMBERSHIP, c, n[1])
           /\ Has(n, LOCAL_MEMBERSHIP, c, n[1]) => Has(n, LOCAL_CONNECTIVITY, c, n[1])
           /\ \A o \in Remote(n[1]) : Has(n, LOCAL_CONNECTIVITY, c, n[1]) => Has(n, FETCHED_RESULT, c, o)
           /\ \A o : Has(n, FETCHED_RESULT, c, o) => Has(n, FROM_CLIENT, c, n[1]) /\ o \in Remote(n[1])
           /\ Has(n, LOCAL_CONNECTIVITY, c, n[1]) => Has(n, FROM_CLIENT, c, n[1])
  <1>1. n[1] \in BG /\ n = <<n[1], n[2]>> /\ n[2] \in SL
    BY Groups
  <1>2. PICK k \in Nat : k = applied[n] /\ k <= Len(log[n[1]])
    BY <1>1 DEF LogTypes, LogOK, InStep
  <1>3. ASSUME NEW t, NEW o, Has(n, t, c, o)
        PROVE  \E e : Is(e, t, c, o) /\ Enabled(n[1], k, e)
    <2>1. PICK i \in 1..k : Is(log[n[1]][i], t, c, o)
      BY <1>2, <1>3 DEF Has, Before
    <2>2. i \in 1..Len(log[n[1]]) /\ i - 1 \in Nat /\ i - 1 <= k
      BY <1>1, <1>2 DEF LogTypes
    <2>3. Enabled(n[1], i - 1, log[n[1]][i])
      BY <1>1, <2>2 DEF LogOK, Ordered
    <2>4. Enabled(n[1], k, log[n[1]][i])
      BY <1>1, <2>2, <2>3, MoreBefore
    <2> QED
      BY <2>1, <2>4
  <1>4. \A t, o : Before(n[1], k, t, c, o) <=> Has(n, t, c, o)
    BY <1>2 DEF Has
  <1> QED
    BY <1>3, <1>4 DEF Enabled, Is, FROM_CLIENT, FETCHED_RESULT, LOCAL_CONNECTIVITY,
         LOCAL_MEMBERSHIP, FULL_MEMBERSHIP

(* When one SL of a group has applied an entry, all have applied the entries   *)
(* before it.                                                                  *)
LEMMA GroupChain ==
    ASSUME LogTypes, \A a \in BG : LogOK(a), NEW d \in BG, NEW c, NEW n \in Node, n[1] = d
    PROVE  /\ Some(d, LOCAL_CONNECTIVITY, c) =>
                 Has(n, FROM_CLIENT, c, d) /\ \A o \in Remote(d) : Has(n, FETCHED_RESULT, c, o)
           /\ Some(d, LOCAL_MEMBERSHIP, c) => Has(n, LOCAL_CONNECTIVITY, c, d)
           /\ Some(d, FULL_MEMBERSHIP, c) => Has(n, LOCAL_MEMBERSHIP, c, d)
  <1>1. n = <<d, n[2]>> /\ n[2] \in SL
    BY Groups
  <1>2. PICK k \in Nat : k = applied[n]
    BY DEF LogTypes
  <1>3. ASSUME NEW t, Some(d, t, c)
        PROVE  \E e : Is(e, t, c, d) /\ Enabled(d, k, e)
    <2>1. PICK s \in SL : Has(<<d, s>>, t, c, d)
      BY <1>3 DEF Some
    <2>2. PICK i \in 1..applied[<<d, s>>] : Is(log[d][i], t, c, d)
      BY <2>1, Groups DEF Has, Before
    <2>3. /\ applied[<<d, s>>] \in Nat /\ applied[<<d, s>>] <= Len(log[d])
          /\ applied[<<d, s>>] <= k + 1 /\ Len(log[d]) \in Nat
      BY <1>1, <1>2, Groups DEF LogTypes, LogOK, InStep
    <2>4. i \in 1..Len(log[d]) /\ i - 1 \in Nat /\ i - 1 <= k
      BY <1>2, <2>3
    <2>5. Enabled(d, i - 1, log[d][i])
      BY <2>4 DEF LogOK, Ordered
    <2>6. Enabled(d, k, log[d][i])
      BY <2>4, <2>5, MoreBefore
    <2> QED
      BY <2>2, <2>6
  <1>4. \A t, o : Before(d, k, t, c, o) <=> Has(n, t, c, o)
    BY <1>2 DEF Has
  <1>5. \A e, t : Is(e, t, c, d) => e.requestType = t /\ e.cycle = c
    BY DEF Is
  <1>6. Some(d, LOCAL_CONNECTIVITY, c) =>
            Has(n, FROM_CLIENT, c, d) /\ \A o \in Remote(d) : Has(n, FETCHED_RESULT, c, o)
    BY <1>3, <1>4, <1>5 DEF Enabled, FROM_CLIENT, LOCAL_CONNECTIVITY
  <1>7. Some(d, LOCAL_MEMBERSHIP, c) => Has(n, LOCAL_CONNECTIVITY, c, d)
    BY <1>3, <1>4, <1>5 DEF Enabled
  <1>8. Some(d, FULL_MEMBERSHIP, c) => Has(n, LOCAL_MEMBERSHIP, c, d)
    BY <1>3, <1>4, <1>5 DEF Enabled
  <1> QED
    BY <1>6, <1>7, <1>8

(* What an SL has applied is in the log, and so was planned.                   *)
LEMMA HasIsPlanned ==
    ASSUME LogTypes, \A a \in BG : LogOK(a), NEW n \in Node, NEW t, NEW c, NEW o
    PROVE  /\ Has(n, t, c, o) => InLog(n[1], t, c, o) /\ Planned(n[1], t, c, o)
           /\ Has(n, t, c, n[1]) => Some(n[1], t, c)
           /\ Some(n[1], t, c) => InLog(n[1], t, c, n[1]) /\ Planned(n[1], t, c, n[1])
  <1>1. n[1] \in BG /\ n = <<n[1], n[2]>> /\ n[2] \in SL
    BY Groups
  <1>2. ASSUME NEW m \in Node, NEW a, Has(m, t, c, a) PROVE InLog(m[1], t, c, a)
    <2>1. m[1] \in BG /\ m = <<m[1], m[2]>> /\ m[2] \in SL
      BY Groups
    <2>2. applied[m] \in Nat /\ applied[m] <= Len(log[m[1]]) /\ Len(log[m[1]]) \in Nat
      BY <2>1 DEF LogTypes, LogOK, InStep
    <2> QED
      BY <1>2, <2>2 DEF Has, Before, InLog
  <1>3. Some(n[1], t, c) => InLog(n[1], t, c, n[1])
    BY <1>1, <1>2, Groups DEF Some
  <1> QED
    BY <1>1, <1>2, <1>3 DEF Some, Planned

(* The entry an SL applies next is new to it, and what it builds on is not.     *)
LEMMA NextIsNew ==
    ASSUME LogTypes, \A a \in BG : LogOK(a), NEW n \in Node, CanCommit(n)
    PROVE  /\ NextEntry(n) \in Entry
           /\ ~Has(n, NextEntry(n).requestType, NextEntry(n).cycle, NextEntry(n).origin)
           /\ NextEntry(n).requestType # FETCHED_RESULT =>
                 ~Has(n, NextEntry(n).requestType, NextEntry(n).cycle, n[1])
           /\ Enabled(n[1], applied[n], NextEntry(n))
           /\ InLog(n[1], NextEntry(n).requestType, NextEntry(n).cycle, NextEntry(n).origin)
  <1>1. n[1] \in BG /\ n = <<n[1], n[2]>> /\ n[2] \in SL
    BY Groups
  <1>2. PICK k \in Nat : k = applied[n]
    BY DEF LogTypes
  <1>3. k + 1 \in 1..Len(log[n[1]]) /\ log[n[1]] \in Seq(Entry) /\ Len(log[n[1]]) \in Nat
    BY <1>1, <1>2 DEF CanCommit, LogTypes
  <1> DEFINE e == log[n[1]][k + 1]
  <1>4. NextEntry(n) = e /\ e \in Entry
    BY <1>2, <1>3 DEF NextEntry
  <1>5. \A i \in 1..k : ~Same(log[n[1]][i], e)
    <2> SUFFICES ASSUME NEW i \in 1..k, Same(log[n[1]][i], e) PROVE FALSE
      OBVIOUS
    <2>1. i \in 1..Len(log[n[1]]) /\ i # k + 1
      BY <1>2, <1>3
    <2> QED
      BY <1>1, <1>3, <2>1 DEF LogOK, NoRepetition
  <1>6. ~Has(n, e.requestType, e.cycle, e.origin)
    BY <1>2, <1>5 DEF Has, Before, Same
  <1>7. e.requestType # FETCHED_RESULT => ~Has(n, e.requestType, e.cycle, n[1])
    BY <1>2, <1>5 DEF Has, Before, Same, Is
  <1>8. Enabled(n[1], (k + 1) - 1, e)
    BY <1>1, <1>3 DEF LogOK, Ordered
  <1>9. InLog(n[1], e.requestType, e.cycle, e.origin)
    BY <1>3 DEF InLog, Before, Is
  <1> QED
    BY <1>2, <1>4, <1>6, <1>7, <1>8, <1>9

(* A group has one batch and so one choice of envoys for a cycle.              *)
LEMMA OneEnvoy ==
    ASSUME NEW b \in BG, LogOK(b), NEW c, NEW v, NEW w, EnvoyIs(b, c, v), EnvoyIs(b, c, w)
    PROVE  v = w
  BY DEF LogOK, NoRepetition, EnvoyIs, Same, Is, FROM_CLIENT, FETCHED_RESULT
-----------------------------------------------------------------------------
(* The status of a cycle at an SL.                                             *)
StatusTypes ==
    /\ status \in [Node -> [Cycle -> Status]]
    /\ storage \in [Node -> SUBSET Cycle]

(* A status changes its stage, its counter and one kind of slot.               *)
LEMMA StatusUpdate ==
    ASSUME NEW s \in Status, NEW st \in States, NEW k \in 0..NumBG, NEW kind \in Kind,
           NEW more \in SUBSET BG
    PROVE  /\ [s EXCEPT !.state = st, !.counter = k] \in Status
           /\ [s EXCEPT !.slots[kind] = @ \union more, !.counter = k] \in Status
           /\ [s EXCEPT !.state = st, !.counter = k, !.slots[kind] = @ \union more] \in Status
  <1>1. [s EXCEPT !.state = st, !.counter = k] \in Status
    BY DEF Status
  <1>2. [s.slots EXCEPT ![kind] = @ \union more] \in [Kind -> SUBSET BG]
    BY DEF Status
  <1>3. [s EXCEPT !.slots[kind] = @ \union more, !.counter = k] \in Status
    BY <1>2 DEF Status
  <1>4. [s EXCEPT !.state = st, !.counter = k, !.slots[kind] = @ \union more] \in Status
    BY <1>2 DEF Status
  <1> QED
    BY <1>1, <1>3, <1>4

(* What SL n has applied of cycle c after a step that applies entry e of it.   *)
AppliesOf(n, c, e) ==
    \A t, o : Has(n, t, c, o)' <=> Has(n, t, c, o) \/ Is(e, t, c, o)

(* The status of a cycle stays right when neither it nor what it depends on   *)
(* changes.                                                                   *)
LEMMA StageSame ==
    ASSUME NEW n \in Node, NEW c \in Cycle, StageOK(n, c),
           \A t, o : Has(n, t, c, o)' <=> Has(n, t, c, o),
           \A v : EnvoyIs(n[1], c, v) => EnvoyIs(n[1], c, v)',
           status'[n][c] = status[n][c], c \in storage'[n] <=> c \in storage[n]
    PROVE  StageOK(n, c)'
  <1>1. StateOf(n, c)' = StateOf(n, c)
    BY DEF StateOf
  <1>2. SlotsOK(n, c)' <=> SlotsOK(n, c)
    BY DEF SlotsOK
  <1>3. CounterOf(n, c)' = CounterOf(n, c)
    BY DEF CounterOf, Filled
  <1>4. EnvoyIs(n[1], c, status[n][c].envoy) => EnvoyIs(n[1], c, status[n][c].envoy)'
    <2> SUFFICES ASSUME NEW v, v = status[n][c].envoy, EnvoyIs(n[1], c, v)
                 PROVE  EnvoyIs(n[1], c, status[n][c].envoy)'
      OBVIOUS
    <2>1. EnvoyIs(n[1], c, v)' /\ v = status'[n][c].envoy
      OBVIOUS
    <2> QED
      BY <2>1 DEF EnvoyIs
  <1> QED
    BY <1>1, <1>2, <1>3, <1>4 DEF StageOK

(* It stays right when the batch of the cycle is applied.                     *)
LEMMA StageFromClient ==
    ASSUME LogTypes, StatusTypes, \A a \in BG : LogOK(a), NEW n \in Node, NEW c \in Cycle,
           StageOK(n, c), CanCommit(n), NEW e, e = NextEntry(n), c = e.cycle,
           AppliesOf(n, c, e), e.requestType = FROM_CLIENT,
           EnvoyIs(n[1], c, e.envoy)',
           status'[n][c] = [Unknown EXCEPT !.state = "REPLICATED_RESULTS",
                                           !.slots["RESULT"] = {n[1]}, !.envoy = e.envoy],
           storage' = storage
    PROVE  StageOK(n, c)'
  <1>1. n[1] \in BG /\ Remote(n[1]) # {}
    BY Groups
  <1>2. /\ ~Has(n, FROM_CLIENT, c, n[1]) /\ ~Has(n, LOCAL_CONNECTIVITY, c, n[1])
        /\ ~Has(n, LOCAL_MEMBERSHIP, c, n[1]) /\ ~Has(n, FULL_MEMBERSHIP, c, n[1])
        /\ \A o : ~Has(n, FETCHED_RESULT, c, o)
    BY NextIsNew, Chain DEF FROM_CLIENT, FETCHED_RESULT
  <1>3. /\ Has(n, FROM_CLIENT, c, n[1])' /\ ~Has(n, LOCAL_CONNECTIVITY, c, n[1])'
        /\ ~Has(n, LOCAL_MEMBERSHIP, c, n[1])' /\ ~Has(n, FULL_MEMBERSHIP, c, n[1])'
        /\ \A o : ~Has(n, FETCHED_RESULT, c, o)'
    BY <1>2 DEF AppliesOf, Is, FROM_CLIENT, FETCHED_RESULT, LOCAL_CONNECTIVITY,
         LOCAL_MEMBERSHIP, FULL_MEMBERSHIP
  <1> DEFINE s == status'[n][c]
  <1>4. /\ s.state = "REPLICATED_RESULTS" /\ s.counter = 0 /\ s.envoy = e.envoy
        /\ s.slots["RESULT"] = {n[1]} /\ s.slots["CONNECTIVITY"] = {} /\ s.slots["MEMBERSHIP"] = {}
    BY DEF Unknown, Kind
  <1>5. StateOf(n, c)' = "REPLICATED_RESULTS"
    BY <1>1, <1>3 DEF StateOf
  <1>6. SlotsOK(n, c)'
    BY <1>3, <1>4 DEF SlotsOK
  <1>7. CounterOf(n, c)' = 0
    BY <1>1, <1>4, Answers DEF CounterOf, Filled
  <1>8. EnvoyIs(n[1], c, status[n][c].envoy)'
    BY <1>4 DEF EnvoyIs
  <1>9. c \notin storage'[n]
    BY <1>2 DEF StageOK
  <1> QED
    BY <1>3, <1>4, <1>5, <1>6, <1>7, <1>8, <1>9 DEF StageOK

(* The stage a cycle has to be in for a request of each type.                 *)
LEMMA Stages ==
    /\ StageOf(FETCHED_RESULT) = "REPLICATED_RESULTS"
    /\ StageOf(LOCAL_CONNECTIVITY) = "LOCAL_CONNECTIVITY"
    /\ StageOf(LOCAL_MEMBERSHIP) = "REPLICATED_CONNECTIVITY"
    /\ StageOf(FULL_MEMBERSHIP) = "REPLICATED_MEMBERSHIP"
  BY DEF StageOf, FETCHED_RESULT, LOCAL_CONNECTIVITY, LOCAL_MEMBERSHIP, FULL_MEMBERSHIP

(* The state in which an entry finds its cycle.                                 *)
LEMMA StageBefore ==
    ASSUME LogTypes, \A a \in BG : LogOK(a), NEW n \in Node, CanCommit(n), NEW e, e = NextEntry(n)
    PROVE  LET c == e.cycle IN
           /\ e.requestType = FROM_CLIENT => StateOf(n, c) = "NONE" /\ ~Has(n, FULL_MEMBERSHIP, c, n[1])
           /\ e.requestType # FROM_CLIENT => StateOf(n, c) = StageOf(e.requestType)
  <1> DEFINE c == e.cycle
  <1>1. /\ e \in Entry
        /\ ~Has(n, e.requestType, c, e.origin)
        /\ e.requestType # FETCHED_RESULT => ~Has(n, e.requestType, c, n[1])
        /\ Enabled(n[1], applied[n], e)
    BY NextIsNew
  <1>2. \A t, o : Before(n[1], applied[n], t, c, o) <=> Has(n, t, c, o)
    BY DEF Has
  <1>3. /\ Has(n, FULL_MEMBERSHIP, c, n[1]) => Has(n, LOCAL_MEMBERSHIP, c, n[1])
        /\ Has(n, LOCAL_MEMBERSHIP, c, n[1]) => Has(n, LOCAL_CONNECTIVITY, c, n[1])
        /\ \A o \in Remote(n[1]) : Has(n, LOCAL_CONNECTIVITY, c, n[1]) => Has(n, FETCHED_RESULT, c, o)
        /\ Has(n, LOCAL_CONNECTIVITY, c, n[1]) => Has(n, FROM_CLIENT, c, n[1])
    BY Chain
  <1>4. CASE e.requestType = FROM_CLIENT
    BY <1>1, <1>3, <1>4 DEF StateOf, FROM_CLIENT, FETCHED_RESULT
  <1>5. CASE e.requestType = FETCHED_RESULT
    <2>1. Has(n, FROM_CLIENT, c, n[1]) /\ e.origin \in Remote(n[1])
      BY <1>1, <1>2, <1>5 DEF Enabled, FROM_CLIENT, FETCHED_RESULT
    <2>2. ~Has(n, FETCHED_RESULT, c, e.origin)
      BY <1>1, <1>5
    <2> QED
      BY <1>3, <1>5, <2>1, <2>2, Stages DEF StateOf, FROM_CLIENT, FETCHED_RESULT
  <1>6. CASE e.requestType = LOCAL_CONNECTIVITY
    <2>1. /\ Has(n, FROM_CLIENT, c, n[1]) /\ ~Has(n, LOCAL_CONNECTIVITY, c, n[1])
          /\ \A o \in Remote(n[1]) : Has(n, FETCHED_RESULT, c, o)
      BY <1>1, <1>2, <1>6 DEF Enabled, FROM_CLIENT, FETCHED_RESULT, LOCAL_CONNECTIVITY
    <2> QED
      BY <1>3, <1>6, <2>1, Stages DEF StateOf, FROM_CLIENT, FETCHED_RESULT, LOCAL_CONNECTIVITY
  <1>7. CASE e.requestType = LOCAL_MEMBERSHIP
    <2>1. /\ Has(n, FROM_CLIENT, c, n[1]) /\ ~Has(n, LOCAL_MEMBERSHIP, c, n[1])
          /\ Has(n, LOCAL_CONNECTIVITY, c, n[1])
      BY <1>1, <1>2, <1>7 DEF Enabled, FROM_CLIENT, FETCHED_RESULT, LOCAL_MEMBERSHIP
    <2> QED
      BY <1>3, <1>7, <2>1, Stages DEF StateOf, FROM_CLIENT, FETCHED_RESULT, LOCAL_CONNECTIVITY,
           LOCAL_MEMBERSHIP
  <1>8. CASE e.requestType = FULL_MEMBERSHIP
    <2>1. /\ Has(n, FROM_CLIENT, c, n[1]) /\ ~Has(n, FULL_MEMBERSHIP, c, n[1])
          /\ Has(n, LOCAL_MEMBERSHIP, c, n[1])
      BY <1>1, <1>2, <1>8 DEF Enabled, FROM_CLIENT, FETCHED_RESULT, FULL_MEMBERSHIP
    <2> QED
      BY <1>3, <1>8, <2>1, Stages DEF StateOf, FROM_CLIENT, FETCHED_RESULT, LOCAL_CONNECTIVITY,
           LOCAL_MEMBERSHIP, FULL_MEMBERSHIP
  <1> QED
    BY <1>1, <1>4, <1>5, <1>6, <1>7, <1>8 DEF Entry, RequestType

Fetched(s, origin) ==
    LET held == [s EXCEPT !.slots["RESULT"] = @ \union {origin}, !.counter = @ + 1]
    IN  IF LastResult(s) THEN [held EXCEPT !.state = "LOCAL_CONNECTIVITY", !.counter = 0] ELSE held

(* It stays right when the result of another group is applied, and the last   *)
(* result is noticed.                                                         *)
LEMMA StageFetchedResult ==
    ASSUME LogTypes, StatusTypes, \A a \in BG : LogOK(a), NEW n \in Node, NEW c \in Cycle,
           StageOK(n, c), CanCommit(n), NEW e, e = NextEntry(n), c = e.cycle,
           AppliesOf(n, c, e), e.requestType = FETCHED_RESULT,
           \A v : EnvoyIs(n[1], c, v) => EnvoyIs(n[1], c, v)',
           NEW s, s = status[n][c], s.state = "REPLICATED_RESULTS",
           e.origin \notin s.slots["RESULT"],
           status'[n][c] = Fetched(s, e.origin), storage' = storage
    PROVE  /\ StageOK(n, c)' /\ status'[n][c] \in Status
           /\ LastResult(s) <=> \A o \in Remote(n[1]) : Has(n, FETCHED_RESULT, c, o)'
  <1> SUFFICES ASSUME NEW held, held = [s EXCEPT !.slots["RESULT"] = @ \union {e.origin}, !.counter = @ + 1],
                      status'[n][c] = (IF LastResult(s) THEN [held EXCEPT !.state = "LOCAL_CONNECTIVITY", !.counter = 0]
                                       ELSE held)
               PROVE  /\ StageOK(n, c)' /\ status'[n][c] \in Status
                      /\ LastResult(s) <=> \A o \in Remote(n[1]) : Has(n, FETCHED_RESULT, c, o)'
    BY DEF Fetched
  <1> DEFINE b == n[1]
             before == s.slots["RESULT"]
             after == before \union {e.origin}
  <1>1. b \in BG
    BY Groups
  <1>2. /\ s \in Status /\ before \in SUBSET BG /\ s.counter \in Int /\ NumBG \in Nat
        /\ \A k \in Kind : s.slots[k] \in SUBSET BG
    BY SizeAssumption, FS_CardinalityType DEF StatusTypes, Status, Kind, NumBG
  <1>3. /\ held.state = "REPLICATED_RESULTS" /\ held.counter = s.counter + 1 /\ held.envoy = s.envoy
        /\ held.slots["RESULT"] = after
        /\ held.slots["CONNECTIVITY"] = s.slots["CONNECTIVITY"]
        /\ held.slots["MEMBERSHIP"] = s.slots["MEMBERSHIP"]
        /\ DOMAIN held.slots = Kind
    BY <1>2 DEF Status, Kind
  <1>4. e.origin \in Remote(b) /\ Remote(b) \subseteq BG
    BY NextIsNew DEF Enabled, Remote
  <1>5. /\ Has(n, FROM_CLIENT, c, b) /\ ~Has(n, FULL_MEMBERSHIP, c, b)
        /\ ~Has(n, LOCAL_MEMBERSHIP, c, b) /\ ~Has(n, LOCAL_CONNECTIVITY, c, b)
    BY DEF StageOK, StateOf
  <1>6. /\ Has(n, FROM_CLIENT, c, b)' /\ ~Has(n, FULL_MEMBERSHIP, c, b)'
        /\ ~Has(n, LOCAL_MEMBERSHIP, c, b)' /\ ~Has(n, LOCAL_CONNECTIVITY, c, b)'
        /\ \A o : Has(n, FETCHED_RESULT, c, o)' <=> Has(n, FETCHED_RESULT, c, o) \/ o = e.origin
    BY <1>5 DEF AppliesOf, Is, FROM_CLIENT, FETCHED_RESULT, LOCAL_CONNECTIVITY,
         LOCAL_MEMBERSHIP, FULL_MEMBERSHIP
  <1>7. SlotsOK(n, c) /\ EnvoyIs(b, c, s.envoy) /\ s.counter = Cardinality(before \ {b})
    BY DEF StageOK, CounterOf, Filled
  <1>8. after = {b} \union {o \in Remote(b) : Has(n, FETCHED_RESULT, c, o)'}
    BY <1>4, <1>6, <1>7 DEF SlotsOK
  <1>9. /\ Cardinality(after \ {b}) = s.counter + 1 /\ s.counter + 1 \in 0..(NumBG - 1)
        /\ LastResult(s) <=> Remote(b) \subseteq after
    <2>1. after \in SUBSET BG
      BY <1>2, <1>4
    <2>2. Cardinality(after \ {b}) = Cardinality(before \ {b}) + 1
      BY <1>1, <1>2, <1>4, Answers
    <2>3. /\ Cardinality(after \ {b}) \in 0..(NumBG - 1)
          /\ Cardinality(after \ {b}) = NumBG - 1 <=> Remote(b) \subseteq after
      <3> HIDE DEF after
      <3> QED
        BY <1>1, <2>1, Answers
    <2> QED
      BY <1>7, <2>2, <2>3 DEF LastResult
  <1>10. LastResult(s) <=> \A o \in Remote(b) : Has(n, FETCHED_RESULT, c, o)'
    <2>1. b \notin Remote(b)
      BY DEF Remote
    <2> QED
      BY <1>8, <1>9, <2>1
  <1>11. StateOf(n, c)' = IF LastResult(s) THEN "LOCAL_CONNECTIVITY" ELSE "REPLICATED_RESULTS"
    BY <1>6, <1>10 DEF StateOf
  <1> DEFINE t == status'[n][c]
  <1>12. /\ t.state = (IF LastResult(s) THEN "LOCAL_CONNECTIVITY" ELSE "REPLICATED_RESULTS")
         /\ t.counter = (IF LastResult(s) THEN 0 ELSE s.counter + 1)
         /\ t.slots = held.slots /\ t.envoy = s.envoy
    BY <1>2, <1>3 DEF Status
  <1>13. SlotsOK(n, c)'
    BY <1>3, <1>5, <1>6, <1>7, <1>8, <1>12 DEF SlotsOK
  <1>14. CounterOf(n, c)' = t.counter
    <2>1. CASE LastResult(s)
      BY <1>12, <2>1 DEF CounterOf
    <2>2. CASE ~LastResult(s)
      <3>1. t.slots["RESULT"] \ {b} = after \ {b}
        BY <1>3, <1>12
      <3> QED
        BY <1>9, <1>12, <2>2, <3>1 DEF CounterOf, Filled
    <2> QED
      BY <2>1, <2>2
  <1>15. EnvoyIs(n[1], c, status[n][c].envoy)'
    <2>1. EnvoyIs(n[1], c, s.envoy)' /\ status'[n][c].envoy = s.envoy
      BY <1>7, <1>12
    <2> QED
      BY <2>1 DEF EnvoyIs
  <1>16. t \in Status
    <2>1. "LOCAL_CONNECTIVITY" \in States /\ "RESULT" \in Kind
      BY DEF States, Kind
    <2>2. s.counter + 1 \in 0..NumBG /\ 0 \in 0..NumBG
      <3>1. s.counter + 1 \in 0..(NumBG - 1)
        BY <1>9
      <3>2. NumBG \in Nat
        BY <1>2
      <3> QED
        BY <3>1, <3>2
    <2>3. {e.origin} \in SUBSET BG
      BY <1>4
    <2>4. held \in Status
      BY <1>2, <2>1, <2>2, <2>3, StatusUpdate
    <2>5. [held EXCEPT !.state = "LOCAL_CONNECTIVITY", !.counter = 0] \in Status
      BY <2>1, <2>2, <2>4, StatusUpdate
    <2> QED
      BY <2>4, <2>5
  <1>17. c \notin storage'[n]
    BY <1>5 DEF StageOK
  <1> QED
    BY <1>6, <1>10, <1>11, <1>12, <1>13, <1>14, <1>15, <1>16, <1>17 DEF StageOK

(* The group's own answer of a kind is applied: nobody else's can be there yet. *)
Entered(s, state, kind, b) ==
    [s EXCEPT !.state = state, !.counter = 0, !.slots[kind] = @ \union {b}]

(* It stays right when the group's own connectivity or membership is          *)
(* applied.                                                                   *)
LEMMA StageLocal ==
    ASSUME LogTypes, StatusTypes, \A a \in BG : LogOK(a), NEW n \in Node, NEW c \in Cycle,
           StageOK(n, c), CanCommit(n), NEW e, e = NextEntry(n), c = e.cycle,
           AppliesOf(n, c, e),
           \A v : EnvoyIs(n[1], c, v) => EnvoyIs(n[1], c, v)',
           NEW s, s = status[n][c], NEW kind \in Kind, NEW state,
           \/ /\ e.requestType = LOCAL_CONNECTIVITY
              /\ kind = "CONNECTIVITY" /\ state = "REPLICATED_CONNECTIVITY"
           \/ /\ e.requestType = LOCAL_MEMBERSHIP
              /\ kind = "MEMBERSHIP" /\ state = "REPLICATED_MEMBERSHIP",
           status'[n][c] = Entered(s, state, kind, n[1]),
           storage' = storage
    PROVE  StageOK(n, c)' /\ status'[n][c] \in Status
  <1> DEFINE b == n[1]
             t == status'[n][c]
  <1>1. b \in BG
    BY Groups
  <1>2. s \in Status /\ NumBG \in Nat
    BY SizeAssumption, FS_CardinalityType DEF StatusTypes, NumBG
  <1>3. s.state = StageOf(e.requestType) /\ s.state = StateOf(n, c)
    BY StageBefore DEF StageOK, FROM_CLIENT, LOCAL_CONNECTIVITY, LOCAL_MEMBERSHIP
  <1>4. /\ s.state # "NONE" /\ Has(n, FROM_CLIENT, c, b) /\ ~Has(n, FULL_MEMBERSHIP, c, b)
        /\ ~Has(n, LOCAL_MEMBERSHIP, c, b)
        /\ e.requestType = LOCAL_CONNECTIVITY => ~Has(n, LOCAL_CONNECTIVITY, c, b)
        /\ e.requestType = LOCAL_MEMBERSHIP => Has(n, LOCAL_CONNECTIVITY, c, b)
    BY <1>3, Stages DEF StateOf
  <1>5. SlotsOK(n, c) /\ EnvoyIs(b, c, s.envoy) /\ s.slots[kind] = {}
    BY <1>4 DEF StageOK, SlotsOK
  <1>6. /\ Has(n, FROM_CLIENT, c, b)' /\ ~Has(n, FULL_MEMBERSHIP, c, b)' /\ Has(n, LOCAL_CONNECTIVITY, c, b)'
        /\ Has(n, LOCAL_MEMBERSHIP, c, b)' <=> e.requestType = LOCAL_MEMBERSHIP
        /\ \A o : Has(n, FETCHED_RESULT, c, o)' <=> Has(n, FETCHED_RESULT, c, o)
    BY <1>4 DEF AppliesOf, Is, FROM_CLIENT, FETCHED_RESULT, LOCAL_CONNECTIVITY,
         LOCAL_MEMBERSHIP, FULL_MEMBERSHIP
  <1>7. /\ t.state = state /\ t.counter = 0 /\ t.envoy = s.envoy
        /\ t.slots[kind] = {b} /\ \A k \in Kind \ {kind} : t.slots[k] = s.slots[k]
    BY <1>2, <1>5 DEF Status, Entered
  <1>8. StateOf(n, c)' = state
    BY <1>6 DEF StateOf, LOCAL_CONNECTIVITY, LOCAL_MEMBERSHIP
  <1>9. SlotsOK(n, c)'
    BY <1>4, <1>5, <1>6, <1>7 DEF SlotsOK, Kind
  <1>10. CounterOf(n, c)' = 0
    BY <1>1, <1>7, Answers DEF CounterOf, Filled
  <1>11. EnvoyIs(n[1], c, status[n][c].envoy)'
    <2>1. EnvoyIs(n[1], c, s.envoy)' /\ status'[n][c].envoy = s.envoy
      BY <1>5, <1>7
    <2> QED
      BY <2>1 DEF EnvoyIs
  <1>12. t \in Status
    <2>1. state \in States /\ 0 \in 0..NumBG
      BY <1>2 DEF States
    <2>2. [s EXCEPT !.state = state, !.counter = 0, !.slots[kind] = @ \union {b}] \in Status
      <3> HIDE DEF b
      <3>1. {b} \in SUBSET BG
        BY <1>1
      <3> QED
        BY <1>2, <2>1, <3>1, StatusUpdate
    <2> QED
      BY <2>2 DEF Entered
  <1>13. c \notin storage'[n]
    BY <1>4 DEF StageOK
  <1>14. state # "NONE"
    OBVIOUS
  <1> QED
    BY <1>6, <1>7, <1>8, <1>9, <1>10, <1>11, <1>12, <1>13, <1>14 DEF StageOK

(* It stays right when the full membership is applied and the cycle is        *)
(* finished.                                                                  *)
LEMMA StageFullMembership ==
    ASSUME LogTypes, StatusTypes, \A a \in BG : LogOK(a), NEW n \in Node, NEW c \in Cycle,
           StageOK(n, c), CanCommit(n), NEW e, e = NextEntry(n), c = e.cycle,
           AppliesOf(n, c, e), e.requestType = FULL_MEMBERSHIP,
           status'[n][c] = Unknown, storage' = [storage EXCEPT ![n] = @ \union {c}]
    PROVE  StageOK(n, c)'
  <1>1. Has(n, FULL_MEMBERSHIP, c, n[1])'
    BY DEF AppliesOf, Is, FULL_MEMBERSHIP, FETCHED_RESULT
  <1>2. StateOf(n, c)' = "NONE"
    BY <1>1 DEF StateOf
  <1>3. status'[n][c].state = "NONE" /\ status'[n][c].counter = 0 /\ c \in storage'[n]
    BY DEF Unknown, StatusTypes
  <1>4. CounterOf(n, c)' = 0
    BY <1>3 DEF CounterOf
  <1> QED
    BY <1>1, <1>2, <1>3, <1>4 DEF StageOK, Unknown

(* An answer of another group fills a slot and is counted.                      *)
LEMMA StageAnswer ==
    ASSUME StatusTypes, NEW n \in Node, NEW c \in Cycle, StageOK(n, c),
           \A t, o : Has(n, t, c, o)' <=> Has(n, t, c, o),
           \A v : EnvoyIs(n[1], c, v) => EnvoyIs(n[1], c, v)',
           NEW s, s = status[n][c], NEW kind, NEW d \in Remote(n[1]), d \notin s.slots[kind],
           \/ kind = "CONNECTIVITY" /\ s.state = "REPLICATED_CONNECTIVITY"
           \/ kind = "MEMBERSHIP" /\ s.state = "REPLICATED_MEMBERSHIP",
           status'[n][c] = [s EXCEPT !.slots[kind] = @ \union {d}, !.counter = @ + 1],
           storage' = storage
    PROVE  /\ StageOK(n, c)' /\ status'[n][c] \in Status
           /\ LastAnswer(s) <=> Remote(n[1]) \subseteq status'[n][c].slots[kind]
  <1> DEFINE b == n[1]
             t == status'[n][c]
             after == s.slots[kind] \union {d}
  <1>1. b \in BG /\ Remote(b) \subseteq BG /\ b # d /\ kind \in Kind
    BY Groups DEF Remote, Kind
  <1>2. s \in Status /\ NumBG \in Nat /\ s.slots[kind] \in SUBSET BG
    BY <1>1, SizeAssumption, FS_CardinalityType DEF StatusTypes, NumBG, Status
  <1>3. /\ t.state = s.state /\ t.counter = s.counter + 1 /\ t.envoy = s.envoy
        /\ t.slots[kind] = after /\ \A k \in Kind \ {kind} : t.slots[k] = s.slots[k]
    BY <1>1, <1>2 DEF Status
  <1>4. /\ s.state = StateOf(n, c) /\ SlotsOK(n, c) /\ EnvoyIs(b, c, s.envoy)
        /\ s.counter = Cardinality(s.slots[kind] \ {b})
    BY DEF StageOK, CounterOf, Filled
  <1>5. b \in s.slots[kind]
    BY <1>4 DEF SlotsOK, StateOf
  <1>6. /\ Cardinality(after \ {b}) = s.counter + 1 /\ s.counter + 1 \in 0..(NumBG - 1)
        /\ LastAnswer(s) <=> Remote(b) \subseteq after
    <2>1. after \in SUBSET BG
      BY <1>1, <1>2
    <2>2. Cardinality(after \ {b}) = Cardinality(s.slots[kind] \ {b}) + 1
      BY <1>1, <1>2, Answers
    <2>3. /\ Cardinality(after \ {b}) \in 0..(NumBG - 1)
          /\ Cardinality(after \ {b}) = NumBG - 1 <=> Remote(b) \subseteq after
      BY <1>1, <2>1, Answers
    <2> QED
      BY <1>4, <2>2, <2>3 DEF LastAnswer
  <1>7. StateOf(n, c)' = s.state
    BY <1>4 DEF StateOf
  <1>8. SlotsOK(n, c)'
    BY <1>1, <1>3, <1>4, <1>5 DEF SlotsOK, Kind
  <1>9. CounterOf(n, c)' = t.counter
    BY <1>3, <1>6 DEF CounterOf, Filled
  <1>10. EnvoyIs(n[1], c, status[n][c].envoy)'
    <2>1. EnvoyIs(n[1], c, s.envoy)' /\ status'[n][c].envoy = s.envoy
      BY <1>3, <1>4
    <2> QED
      BY <2>1 DEF EnvoyIs
  <1>11. t \in Status
    <2>1. s.counter + 1 \in 0..NumBG
      BY <1>2, <1>6
    <2>2. {d} \in SUBSET BG /\ "NONE" \in States
      BY <1>1 DEF States
    <2>3. [s EXCEPT !.slots[kind] = @ \union {d}, !.counter = s.counter + 1] \in Status
      BY <1>1, <1>2, <2>1, <2>2, StatusUpdate
    <2> QED
      BY <2>3
  <1>12. s.state # "NONE" /\ c \notin storage[n] /\ ~Has(n, FULL_MEMBERSHIP, c, b)
    BY <1>4 DEF StageOK, StateOf
  <1> QED
    BY <1>3, <1>6, <1>7, <1>8, <1>9, <1>10, <1>11, <1>12 DEF StageOK
-----------------------------------------------------------------------------
(* Questions between groups, sent or kept, and their answers.                   *)
MailTypes ==
    /\ waiting \in [Node -> SUBSET (Kind \X Cycle \X Node)]
    /\ net \subseteq (Request \union Response)

(* What is in flight, and the types of its parts.                             *)
LEMMA FlightMembers ==
    ASSUME MailTypes
    PROVE  /\ \A x : x \in Flight <=> x \in net \/ \E n \in Node : \E w \in waiting[n] : x = KeptBy(n, w)
           /\ \A x \in Flight : /\ x.kind \in Kind /\ x.cycle \in Cycle
                                /\ Asker(x) \in BG /\ Askee(x) \in BG
           /\ \A m \in net : /\ m.type \in {"REQUEST", "RESPONSE"} /\ m.to \in Node /\ m.to[1] \in BG
                             /\ m.type = "REQUEST" => m \in Request /\ m.from \in Node /\ m.from[1] \in BG
                             /\ m.type = "RESPONSE" => m \in Response /\ m.bg \in BG
           /\ \A n \in Node : \A w \in waiting[n] :
                 /\ KeptBy(n, w).type = "KEPT" /\ w \in Kind \X Cycle \X Node
                 /\ w[1] \in Kind /\ w[2] \in Cycle /\ w[3] \in Node /\ w[3][1] \in BG
  <1>1. \A x : x \in Flight <=> x \in net \/ \E n \in Node : \E w \in waiting[n] : x = KeptBy(n, w)
    BY DEF Flight
  <1>2. \A m \in net : /\ m.type \in {"REQUEST", "RESPONSE"} /\ m.to \in Node /\ m.kind \in Kind /\ m.cycle \in Cycle
                       /\ m.type = "REQUEST" => m \in Request /\ m.from \in Node
                       /\ m.type = "RESPONSE" => m \in Response /\ m.bg \in BG
    BY DEF MailTypes, Request, Response
  <1>3. \A m \in Node : m[1] \in BG
    BY Groups
  <1>4. \A n \in Node : \A w \in waiting[n] :
                 /\ KeptBy(n, w).type = "KEPT" /\ w \in Kind \X Cycle \X Node
                 /\ w[1] \in Kind /\ w[2] \in Cycle /\ w[3] \in Node
    BY DEF MailTypes, KeptBy
  <1>5. \A x \in Flight : x.kind \in Kind /\ x.cycle \in Cycle /\ Asker(x) \in BG /\ Askee(x) \in BG
    <2> SUFFICES ASSUME NEW x \in Flight
                 PROVE  x.kind \in Kind /\ x.cycle \in Cycle /\ Asker(x) \in BG /\ Askee(x) \in BG
      OBVIOUS
    <2>1. CASE x \in net
      BY <1>2, <1>3, <2>1 DEF Asker, Askee
    <2>2. ASSUME NEW n \in Node, NEW w \in waiting[n], x = KeptBy(n, w)
          PROVE  x.kind \in Kind /\ x.cycle \in Cycle /\ Asker(x) \in BG /\ Askee(x) \in BG
      BY <1>3, <1>4, <2>2 DEF KeptBy, Asker, Askee
    <2> QED
      BY <1>1, <2>1, <2>2
  <1> QED
    BY <1>1, <1>2, <1>3, <1>4, <1>5

(* Who has asked and who has begun is never forgotten.                          *)
KnowledgeGrows ==
    /\ \A a \in BG : \A k, c : AskedFor(a, k, c) => AskedFor(a, k, c)'
    /\ \A d \in BG : \A t, c : Some(d, t, c) => Some(d, t, c)'

(* A step of the log takes nothing back of what is applied, asked or          *)
(* answered.                                                                  *)
LEMMA KnowledgeStep ==
    ASSUME LogTypes, \A a \in BG : LogOK(a), NEW b \in BG, NEW work, WorkOK(b, work), LogStep(b, work)
    PROVE  KnowledgeGrows
  <1>1. \A n \in Node : \A t, c, o : Has(n, t, c, o) => Has(n, t, c, o)'
    BY HasStep
  <1>2. \A a \in BG : \A c, v : EnvoyIs(a, c, v) => EnvoyIs(a, c, v)'
    BY PlannedStep
  <1>3. \A a \in BG, s \in SL : <<a, s>> \in Node
    BY Groups
  <1> QED
    BY <1>1, <1>2, <1>3 DEF KnowledgeGrows, AskedFor, Some

(* A question that stays open stays well asked.                                 *)
LEMMA FlightCarried ==
    ASSUME KnowledgeGrows, NEW x, Asker(x) \in BG, Askee(x) \in BG, FlightOK(x),
           ~Have(Asker(x), Askee(x), x.kind, x.cycle)'
    PROVE  FlightOK(x)'
  BY DEF KnowledgeGrows, FlightOK

(* One question moves on: from a request to a kept request or an answer, or    *)
(* from an envoy to its leader.                                                *)
LEMMA MoveOne ==
    ASSUME AskedOnce, NEW m \in Flight, NEW y, SameQuestion(y, m),
           \A z \in Flight' : (z \in Flight /\ z # m) \/ z = y
    PROVE  AskedOnce'
  BY DEF AskedOnce, SameQuestion
-----------------------------------------------------------------------------
(* Every handler is a step of the logs.                                         *)
LEMMA PendingIsWork ==
    ASSUME LogTypes, NEW b \in BG, LogOK(b)
    PROVE  WorkOK(b, pending[b])
  BY DEF LogTypes, LogOK, Ordered, NoRepetition, WorkOK

(* One more request may be queued when its predecessors are in the log and    *)
(* it is not planned yet.                                                     *)
LEMMA MoreWork ==
    ASSUME LogTypes, NEW b \in BG, LogOK(b), NEW f \in Entry, f.requestType # FROM_CLIENT,
           Enabled(b, Len(log[b]), f), ~Planned(b, f.requestType, f.cycle, f.origin)
    PROVE  WorkOK(b, pending[b] \union {f})
  <1>1. \A i \in 1..Len(log[b]) : ~Same(log[b][i], f)
    BY DEF Planned, InLog, Before, Same
  <1>2. \A e \in pending[b] : ~Same(e, f) /\ ~Same(f, e)
    BY DEF Planned, Same, Is
  <1> QED
    BY <1>1, <1>2, PendingIsWork DEF WorkOK

(* What the scheduler does at the end of a handler is a step of the group's   *)
(* log.                                                                       *)
LEMMA SchedIsLogStep ==
    ASSUME LogTypes, NEW b \in BG, LogOK(b), NEW work, WorkOK(b, work), Sched(b, work),
           applied' = applied \/ \E n \in Node : n[1] = b /\ Applies(n)
    PROVE  LogStep(b, work)
  <1>1. applied' \in [Node -> Nat]
    BY AppliedStep DEF LogOK
  <1> QED
    BY <1>1, SchedEffect DEF LogStep

(* Queueing work from a handler that applies nothing is a step of the log.    *)
LEMMA QueueIsLogStep ==
    ASSUME LogTypes, NEW b \in BG, LogOK(b), NEW work, WorkOK(b, work), Queue(b, work),
           applied' = applied
    PROVE  LogStep(b, work)
  <1>1. Sched(b, work)
    BY DEF Queue, SpawnRound2, SlotFree, Sched
  <1> QED
    BY <1>1, SchedIsLogStep

(* Leaving log and scheduler alone is a step of the log that does nothing.    *)
LEMMA IdleIsLogStep ==
    ASSUME LogTypes, NEW b \in BG, LogOK(b), UNCHANGED <<log, applied, scheduler>>
    PROVE  LogStep(b, pending[b])
  BY DEF LogStep, LogTypes, Keeps, LogOK, NoIdleWork, SlotFree, scheduler

(* Receiving a batch of the clients is a step of the log.                     *)
LEMMA BatchIsLogStep ==
    ASSUME LogTypes, NEW b \in BG, LogOK(b), ReceiveBatch(b)
    PROVE  LogStep(b, pending[b])
  <1>1. Sched(b, pending[b])
    BY DEF ReceiveBatch, SlotFree, Sched, LogTypes
  <1> QED
    BY <1>1, PendingIsWork, SchedIsLogStep DEF ReceiveBatch

(* The end of a commit is a step of the log, at the leader or at another SL.  *)
LEMMA FinallyIsLogStep ==
    ASSUME LogTypes, NEW n \in Node, LogOK(n[1]), CanCommit(n), NEW work, Finally(n, work),
           n = Leader(n[1]) => WorkOK(n[1], work)
    PROVE  /\ Applies(n)
           /\ n = Leader(n[1]) => LogStep(n[1], work)
           /\ n # Leader(n[1]) => LogStep(n[1], pending[n[1]])
  <1> DEFINE b == n[1]
  <1>1. b \in BG /\ Leader(b) \in Node /\ n = <<b, n[2]>> /\ n[2] \in SL
    BY Groups
  <1>2. Applies(n)
    BY DEF Finally, Applies
  <1>3. ASSUME n = Leader(b) PROVE LogStep(b, work)
    <2>1. applied'[Leader(b)] = Len(log[b])
      BY <1>1, <1>3 DEF Finally, CanCommit, LogOK, InStep, LogTypes
    <2>2. Sched(b, work)
      BY <1>3, <2>1 DEF Finally, SpawnRound2, Sched
    <2> QED
      BY <1>1, <1>2, <1>3, <2>2, SchedIsLogStep
  <1>4. ASSUME n # Leader(b) PROVE LogStep(b, pending[b])
    <2>1. UNCHANGED <<log, scheduler>> /\ applied'[Leader(b)] = applied[Leader(b)]
      BY <1>1, <1>4 DEF Finally, LogTypes
    <2>2. Keeps(b, pending[b])
      BY <1>1, <2>1 DEF Keeps, LogOK, NoIdleWork, SlotFree, scheduler
    <2>3. applied' \in [Node -> Nat]
      BY <1>1, <1>2, AppliedStep DEF LogOK
    <2> QED
      BY <1>1, <1>2, <2>1, <2>2, <2>3 DEF LogStep, LogTypes, scheduler
  <1> QED
    BY <1>2, <1>3, <1>4

(* What becomes planned is what the handler adds to the queue.                  *)
LEMMA PlannedPlus ==
    ASSUME LogTypes, NEW b \in BG, NEW extra, WorkOK(b, pending[b] \union extra),
           LogStep(b, pending[b] \union extra)
    PROVE  \A a \in BG : \A t, c, o : t # FROM_CLIENT =>
              (Planned(a, t, c, o)' <=>
                  Planned(a, t, c, o) \/ (a = b /\ \E e \in extra : Is(e, t, c, o)))
  <1> SUFFICES ASSUME NEW a \in BG, NEW t, NEW c, NEW o, t # FROM_CLIENT
               PROVE  Planned(a, t, c, o)' <=>
                         Planned(a, t, c, o) \/ (a = b /\ \E e \in extra : Is(e, t, c, o))
    OBVIOUS
  <1>1. Planned(a, t, c, o)' <=>
           Planned(a, t, c, o) \/ (a = b /\ \E e \in pending[b] \union extra : Is(e, t, c, o))
    BY PlannedStep
  <1>2. (a = b /\ \E e \in pending[b] : Is(e, t, c, o)) => Planned(a, t, c, o)
    BY DEF Planned
  <1> QED
    BY <1>1, <1>2

(* The plans of a group for a cycle stay justified when nothing is added.       *)
LEMMA PlanCarried ==
    ASSUME NEW a \in BG, NEW c, PlanOK(a, c),
           \A t, o : Has(Leader(a), t, c, o) => Has(Leader(a), t, c, o)',
           \A t : t # FROM_CLIENT /\ t # FETCHED_RESULT /\ Planned(a, t, c, a)' => Planned(a, t, c, a),
           \A d \in Remote(a), k \in Kind : Have(a, d, k, c) => Have(a, d, k, c)'
    PROVE  PlanOK(a, c)'
  <1>1. /\ "CONNECTIVITY" \in Kind /\ "MEMBERSHIP" \in Kind
        /\ \A t \in {LOCAL_CONNECTIVITY, LOCAL_MEMBERSHIP, FULL_MEMBERSHIP} :
              t # FROM_CLIENT /\ t # FETCHED_RESULT
    BY DEF Kind, FROM_CLIENT, FETCHED_RESULT, LOCAL_CONNECTIVITY, LOCAL_MEMBERSHIP, FULL_MEMBERSHIP
  <1> QED
    BY <1>1 DEF PlanOK

(* The answers a group has stay asked for and given.                            *)
LEMMA HaveCarried ==
    ASSUME KnowledgeGrows, NEW a \in BG, NEW d \in Remote(a), NEW k, NEW c, HaveOK(a, d, k, c),
           Have(a, d, k, c)' => Have(a, d, k, c)
    PROVE  HaveOK(a, d, k, c)'
  BY DEF HaveOK, KnowledgeGrows, Remote
-----------------------------------------------------------------------------
(* No answer becomes known to a group, or the one that m carries.              *)
NoNews == \A a \in BG, c \in Cycle, k \in Kind : \A d \in Remote(a) :
              Have(a, d, k, c)' => Have(a, d, k, c)
OneNews(m) == \A a \in BG, c \in Cycle, k \in Kind : \A d \in Remote(a) :
              Have(a, d, k, c)' =>
                 Have(a, d, k, c) \/ (a = Asker(m) /\ d = Askee(m) /\ k = m.kind /\ c = m.cycle)

(* The invariant by the parts the lemmas are about.                           *)
LEMMA Parts ==
    /\ TypeOK <=> LogTypes /\ StatusTypes /\ MailTypes
    /\ IInv <=> /\ LogTypes /\ StatusTypes /\ MailTypes
                /\ \A b \in BG : LogOK(b)
                /\ \A n \in Node, c \in Cycle : StageOK(n, c)
                /\ \A b \in BG, c \in Cycle : PlanOK(b, c)
                /\ \A b \in BG, c \in Cycle, k \in Kind : \A d \in Remote(b) : HaveOK(b, d, k, c)
                /\ \A x \in Flight : FlightOK(x)
                /\ AskedOnce
  BY DEF TypeOK, IInv, LogTypes, StatusTypes, MailTypes

(* The same of the next state.                                                *)
LEMMA PartsNext ==
    ASSUME LogTypes', StatusTypes', MailTypes', \A b \in BG : LogOK(b)',
           \A n \in Node, c \in Cycle : StageOK(n, c)', \A b \in BG, c \in Cycle : PlanOK(b, c)',
           \A b \in BG, c \in Cycle, k \in Kind : \A d \in Remote(b) : HaveOK(b, d, k, c)',
           (\A x \in Flight : FlightOK(x))', AskedOnce'
    PROVE  IInv'
  <1>1. TypeOK'
    BY DEF TypeOK, LogTypes, StatusTypes, MailTypes
  <1> QED
    BY <1>1 DEF IInv

(* A step that applies nothing and touches no status.                           *)
LEMMA QuietStep ==
    ASSUME IInv, NEW b \in BG, NEW extra, WorkOK(b, pending[b] \union extra),
           LogStep(b, pending[b] \union extra), UNCHANGED <<applied, status, storage>>,
           \A e \in extra : e.requestType = FETCHED_RESULT
    PROVE  /\ LogTypes' /\ StatusTypes' /\ KnowledgeGrows
           /\ \A a \in BG : LogOK(a)'
           /\ \A n \in Node, c \in Cycle : StageOK(n, c)'
           /\ \A a \in BG, c \in Cycle : PlanOK(a, c)'
           /\ \A a \in BG, c \in Cycle, k \in Kind : \A d \in Remote(a) :
                 Have(a, d, k, c)' <=>
                    Have(a, d, k, c) \/ (k = "RESULT" /\ a = b /\ \E e \in extra : Is(e, FETCHED_RESULT, c, d))
  <1>1. LogTypes /\ StatusTypes /\ \A a \in BG : LogOK(a)
    BY Parts
  <1>2. LogTypes' /\ StatusTypes' /\ KnowledgeGrows /\ \A a \in BG : LogOK(a)'
    BY <1>1, KnowledgeStep, LogStepOK DEF LogStep, StatusTypes
  <1>3. \A n \in Node : \A t, c, o : Has(n, t, c, o)' <=> Has(n, t, c, o)
    BY <1>1, HasStep
  <1>4. \A a \in BG : \A c, v : EnvoyIs(a, c, v) => EnvoyIs(a, c, v)'
    BY <1>1, PlannedStep
  <1>5. ASSUME NEW n \in Node, NEW c \in Cycle PROVE StageOK(n, c)'
    <2>1. StageOK(n, c) /\ n[1] \in BG
      BY Parts, Groups
    <2> QED
      BY <1>3, <1>4, <2>1, StageSame
  <1>6. \A a \in BG : \A t, c, o : t # FROM_CLIENT =>
              (Planned(a, t, c, o)' <=>
                  Planned(a, t, c, o) \/ (a = b /\ \E e \in extra : Is(e, t, c, o)))
    BY <1>1, PlannedPlus
  <1>7. \A a \in BG : Leader(a) \in Node
    BY Groups
  <1>8. ASSUME NEW a \in BG, NEW c \in Cycle, NEW k \in Kind, NEW d \in Remote(a)
        PROVE  Have(a, d, k, c)' <=>
                  Have(a, d, k, c) \/ (k = "RESULT" /\ a = b /\ \E e \in extra : Is(e, FETCHED_RESULT, c, d))
    BY <1>3, <1>6, <1>7 DEF Have, FETCHED_RESULT, FROM_CLIENT
  <1>9. ASSUME NEW a \in BG, NEW c \in Cycle PROVE PlanOK(a, c)'
    <2>1. PlanOK(a, c)
      BY Parts
    <2>2. \A t : t # FROM_CLIENT /\ t # FETCHED_RESULT /\ Planned(a, t, c, a)' => Planned(a, t, c, a)
      BY <1>6 DEF Is
    <2> QED
      BY <1>3, <1>7, <1>8, <2>1, <2>2, PlanCarried
  <1> QED
    BY <1>2, <1>5, <1>8, <1>9

(* Without news every answer a leader has stays explained.                    *)
LEMMA HavesCarried ==
    ASSUME IInv, KnowledgeGrows, NoNews
    PROVE  \A a \in BG, c \in Cycle, k \in Kind : \A d \in Remote(a) : HaveOK(a, d, k, c)'
  BY Parts, HaveCarried DEF NoNews

(* A question moves on.                                                         *)
LEMMA OneMoves ==
    ASSUME IInv, KnowledgeGrows, NoNews, NEW m \in net, NEW y, SameQuestion(y, m),
           \A z \in Flight' : (z \in Flight /\ z # m) \/ z = y,
           y.type = "RESPONSE" => Some(Askee(m), AskType(m.kind), m.cycle)
    PROVE  (\A x \in Flight : FlightOK(x))' /\ AskedOnce'
  <1>1. MailTypes /\ m \in Flight
    BY Parts, FlightMembers
  <1>2. AskedOnce'
    BY <1>1, MoveOne, Parts
  <1>3. \A x \in Flight : FlightOK(x)'
    <2> SUFFICES ASSUME NEW x \in Flight PROVE FlightOK(x)'
      OBVIOUS
    <2>1. FlightOK(x) /\ x.kind \in Kind /\ x.cycle \in Cycle /\ Asker(x) \in BG /\ Askee(x) \in BG
      BY <1>1, Parts, FlightMembers
    <2>2. ~Have(Asker(x), Askee(x), x.kind, x.cycle)'
      BY <2>1 DEF NoNews, FlightOK
    <2> QED
      BY <2>1, <2>2, FlightCarried
  <1>4. FlightOK(y)'
    <2>1. FlightOK(m)' /\ Asker(y) = Asker(m) /\ Askee(y) = Askee(m) /\ y.kind = m.kind /\ y.cycle = m.cycle
      BY <1>1, <1>3 DEF SameQuestion
    <2>2. y.type = "RESPONSE" => Some(Askee(m), AskType(m.kind), m.cycle)'
      BY <1>1, FlightMembers DEF KnowledgeGrows
    <2> QED
      BY <2>1, <2>2 DEF FlightOK
  <1>5. (\A x \in Flight : FlightOK(x))'
    <2> SUFFICES ASSUME NEW x \in Flight' PROVE FlightOK(x)'
      OBVIOUS
    <2> QED
      BY <1>3, <1>4
  <1> QED
    BY <1>2, <1>5

(* A question is answered: its answer was asked for, given, and not yet there.  *)
LEMMA OneAnswered ==
    ASSUME IInv, KnowledgeGrows, NEW m \in net, m.type = "RESPONSE", OneNews(m),
           \A z \in Flight' : z \in Flight /\ z # m
    PROVE  /\ (\A x \in Flight : FlightOK(x))' /\ AskedOnce'
           /\ \A a \in BG, c \in Cycle, k \in Kind : \A d \in Remote(a) : HaveOK(a, d, k, c)'
  <1>1. MailTypes /\ m \in Flight
    BY Parts, FlightMembers
  <1>2. AskedOnce'
    BY Parts DEF AskedOnce
  <1>3. \A x \in Flight \ {m} : FlightOK(x)'
    <2> SUFFICES ASSUME NEW x \in Flight \ {m} PROVE FlightOK(x)'
      OBVIOUS
    <2>1. FlightOK(x) /\ x.kind \in Kind /\ x.cycle \in Cycle /\ Asker(x) \in BG /\ Askee(x) \in BG
      BY <1>1, Parts, FlightMembers
    <2>2. ~SameQuestion(x, m)
      BY <1>1, Parts DEF AskedOnce
    <2>3. ~Have(Asker(x), Askee(x), x.kind, x.cycle)'
      BY <2>1, <2>2 DEF OneNews, FlightOK, SameQuestion
    <2> QED
      BY <2>1, <2>3, FlightCarried
  <1>4. (\A x \in Flight : FlightOK(x))'
    <2> SUFFICES ASSUME NEW x \in Flight' PROVE FlightOK(x)'
      OBVIOUS
    <2> QED
      BY <1>3
  <1>5. ASSUME NEW a \in BG, NEW c \in Cycle, NEW k \in Kind, NEW d \in Remote(a)
        PROVE  HaveOK(a, d, k, c)'
    <2>1. HaveOK(a, d, k, c) /\ d \in BG
      BY Parts, Groups
    <2>2. CASE Have(a, d, k, c)' => Have(a, d, k, c)
      BY <2>1, <2>2, HaveCarried
    <2>3. CASE a = Asker(m) /\ d = Askee(m) /\ k = m.kind /\ c = m.cycle
      <3>1. AskedFor(a, k, c) /\ Some(d, AskType(k), c)
        BY <1>1, <2>3, Parts DEF FlightOK
      <3> QED
        BY <2>1, <3>1 DEF KnowledgeGrows, HaveOK
    <2> QED
      BY <2>2, <2>3 DEF OneNews
  <1> QED
    BY <1>2, <1>4, <1>5
-----------------------------------------------------------------------------
(* The handlers that apply nothing, one by one.                                 *)
LEMMA InitIInv == Init => IInv
  <1> SUFFICES ASSUME Init PROVE IInv
    OBVIOUS
  <1>1. LogTypes
    <2>1. 1 \in 1..(MaxCycle + 1)
      BY MaxCycleBound
    <2> QED
      BY <2>1, Groups DEF Init, LogTypes
  <1>2. StatusTypes
    <2>1. 0 \in 0..NumBG
      BY SizeAssumption, FS_CardinalityType DEF NumBG
    <2>2. Unknown \in Status
      BY <2>1, Groups DEF Unknown, Status, States
    <2> QED
      BY <2>2 DEF Init, StatusTypes
  <1>3. MailTypes /\ Flight = {}
    BY DEF Init, MailTypes, Flight
  <1>4. \A a \in BG : \A t, c, o : ~InLog(a, t, c, o) /\ ~Planned(a, t, c, o)
    BY DEF Init, InLog, Planned, Before
  <1>5. \A n \in Node : \A t, c, o : ~Has(n, t, c, o)
    BY DEF Init, Has, Before
  <1>6. ASSUME NEW a \in BG PROVE LogOK(a)
    <2>1. InStep(a)
      BY Groups DEF Init, InStep
    <2>2. Ordered(a) /\ NoRepetition(a) /\ NoIdleWork(a)
      BY <1>4 DEF Init, Ordered, NoRepetition, NoIdleWork
    <2> QED
      BY <2>1, <2>2 DEF LogOK
  <1>7. ASSUME NEW n \in Node, NEW c \in Cycle PROVE StageOK(n, c)
    <2>1. status[n][c] = Unknown /\ storage[n] = {}
      BY DEF Init
    <2> QED
      BY <1>5, <2>1 DEF StageOK, StateOf, CounterOf, Unknown
  <1>8. ASSUME NEW a \in BG, NEW c \in Cycle, NEW k \in Kind, NEW d \in Remote(a) PROVE ~Have(a, d, k, c)
    <2>1. Leader(a) \in Node
      BY Groups
    <2> QED
      BY <1>4, <1>5, <2>1 DEF Have, Init, Unknown
  <1> QED
    BY <1>1, <1>2, <1>3, <1>4, <1>6, <1>7, <1>8, Parts DEF PlanOK, HaveOK, AskedOnce

(* A step of the log that plans nothing new and applies nothing keeps         *)
(* everything but the mail.                                                   *)
LEMMA NothingPlanned ==
    ASSUME IInv, NEW b \in BG, LogStep(b, pending[b]), UNCHANGED <<applied, status, storage>>
    PROVE  /\ LogTypes' /\ StatusTypes' /\ KnowledgeGrows /\ NoNews
           /\ \A a \in BG : LogOK(a)'
           /\ \A n \in Node, c \in Cycle : StageOK(n, c)'
           /\ \A a \in BG, c \in Cycle : PlanOK(a, c)'
  <1>1. LogTypes /\ LogOK(b)
    BY Parts
  <1>2. PICK none : none = {}
    OBVIOUS
  <1>3. WorkOK(b, pending[b] \union none) /\ LogStep(b, pending[b] \union none)
    BY <1>1, <1>2, PendingIsWork
  <1>4. \A e \in none : e.requestType = FETCHED_RESULT
    BY <1>2
  <1>5. /\ LogTypes' /\ StatusTypes' /\ KnowledgeGrows
        /\ \A a \in BG : LogOK(a)'
        /\ \A n \in Node, c \in Cycle : StageOK(n, c)'
        /\ \A a \in BG, c \in Cycle : PlanOK(a, c)'
    BY <1>3, <1>4, QuietStep
  <1>6. \A a \in BG, c \in Cycle, k \in Kind : \A d \in Remote(a) :
           Have(a, d, k, c)' <=>
              Have(a, d, k, c) \/ (k = "RESULT" /\ a = b /\ \E e \in none : Is(e, FETCHED_RESULT, c, d))
    BY <1>3, <1>4, QuietStep
  <1>7. NoNews
    BY <1>2, <1>6 DEF NoNews
  <1> QED
    BY <1>5, <1>7

(* So does a step that leaves logs, scheduler and statuses alone.             *)
LEMMA IdleIInv ==
    ASSUME IInv, NEW b \in BG, UNCHANGED <<log, applied, scheduler, status, storage>>
    PROVE  /\ LogTypes' /\ StatusTypes' /\ KnowledgeGrows /\ NoNews
           /\ \A a \in BG : LogOK(a)'
           /\ \A n \in Node, c \in Cycle : StageOK(n, c)'
           /\ \A a \in BG, c \in Cycle : PlanOK(a, c)'
  <1>1. LogTypes /\ LogOK(b)
    BY Parts
  <1> QED
    BY <1>1, IdleIsLogStep, NothingPlanned

(* Receiving a batch of the clients keeps the invariant.                      *)
LEMMA ReceiveBatchIInv ==
    ASSUME IInv, NEW b \in BG, ReceiveBatch(b)
    PROVE  IInv'
  <1>1. LogTypes /\ LogOK(b) /\ MailTypes
    BY Parts
  <1>3. LogStep(b, pending[b]) /\ UNCHANGED <<applied, status, storage, waiting, net>>
    BY <1>1, BatchIsLogStep DEF ReceiveBatch
  <1>4. /\ LogTypes' /\ StatusTypes' /\ KnowledgeGrows /\ NoNews
        /\ \A a \in BG : LogOK(a)'
        /\ \A n \in Node, c \in Cycle : StageOK(n, c)'
        /\ \A a \in BG, c \in Cycle : PlanOK(a, c)'
    BY <1>3, NothingPlanned
  <1>5. Flight' = Flight /\ AskedOnce' /\ MailTypes'
    BY <1>1, <1>3, Parts DEF Flight, AskedOnce, MailTypes
  <1>6. (\A x \in Flight : FlightOK(x))'
    <2> SUFFICES ASSUME NEW x \in Flight PROVE FlightOK(x)'
      BY <1>5
    <2>1. FlightOK(x) /\ x.kind \in Kind /\ x.cycle \in Cycle /\ Asker(x) \in BG /\ Askee(x) \in BG
      BY <1>1, Parts, FlightMembers
    <2>2. ~Have(Asker(x), Askee(x), x.kind, x.cycle)'
      BY <1>4, <2>1 DEF NoNews, FlightOK
    <2> QED
      BY <1>4, <2>1, <2>2, FlightCarried
  <1> QED
    BY <1>4, <1>5, <1>6, HavesCarried, PartsNext

(* A known cycle has begun at the SL, and what it answers with is applied.      *)
LEMMA AnswerIsApplied ==
    ASSUME IInv, NEW n \in Node, NEW c \in Cycle
    PROVE  /\ Known(n, c) => Some(n[1], FROM_CLIENT, c)
           /\ Known(n, c) /\ n[1] \in status[n][c].slots["CONNECTIVITY"] => Some(n[1], LOCAL_CONNECTIVITY, c)
           /\ Known(n, c) /\ n[1] \in status[n][c].slots["MEMBERSHIP"] => Some(n[1], LOCAL_MEMBERSHIP, c)
           /\ c \in storage[n] => Some(n[1], LOCAL_MEMBERSHIP, c)
  <1>1. LogTypes /\ (\A a \in BG : LogOK(a)) /\ StageOK(n, c)
    BY Parts
  <1>2. \A t : Has(n, t, c, n[1]) => Some(n[1], t, c)
    BY <1>1, HasIsPlanned
  <1>3. c \in storage[n] => Has(n, LOCAL_MEMBERSHIP, c, n[1])
    BY <1>1, Chain DEF StageOK
  <1>4. Known(n, c) => Has(n, FROM_CLIENT, c, n[1]) /\ SlotsOK(n, c)
    BY <1>1 DEF Known, StageOK, StateOf
  <1> QED
    BY <1>2, <1>3, <1>4 DEF SlotsOK

(* Answering a request of a group whose stage has been reached keeps the      *)
(* invariant.                                                                 *)
LEMMA ReplyIInv ==
    ASSUME IInv, NEW m \in net, m.type = "REQUEST", Reply(m),
           UNCHANGED <<log, applied, scheduler, status, storage>>,
           Some(m.to[1], AskType(m.kind), m.cycle)
    PROVE  IInv'
  <1>1. MailTypes /\ m \in Request /\ m.to \in Node /\ m.to[1] \in BG /\ m.from \in Node
    BY Parts, FlightMembers
  <1> DEFINE y == ResponseTo(m)
  <1>2. SameQuestion(y, m) /\ Askee(m) = m.to[1] /\ y \in Response
    BY <1>1 DEF SameQuestion, ResponseTo, Asker, Askee, Request, Response
  <1>3. net' = (net \ {m}) \union {y} /\ waiting' = waiting
    BY DEF Reply
  <1>4. \A z \in Flight' : (z \in Flight /\ z # m) \/ z = y
    <2>1. \A n \in Node : \A w \in waiting[n] : KeptBy(n, w) # m
      BY DEF KeptBy
    <2> QED
      BY <1>3, <2>1 DEF Flight
  <1>5. MailTypes'
    BY <1>1, <1>2, <1>3 DEF MailTypes
  <1> HIDE DEF y
  <1>6. (\A x \in Flight : FlightOK(x))' /\ AskedOnce'
    BY <1>1, <1>2, <1>4, IdleIInv, OneMoves
  <1> QED
    BY <1>1, <1>5, <1>6, IdleIInv, HavesCarried, PartsNext

(* Keeping a request that came too early keeps the invariant.                 *)
LEMMA KeepWaitingIInv ==
    ASSUME IInv, NEW m \in net, m.type = "REQUEST", KeepWaiting(m),
           UNCHANGED <<log, applied, scheduler, status, storage>>
    PROVE  IInv'
  <1>1. MailTypes /\ m \in Request /\ m.to \in Node /\ m.to[1] \in BG /\ m.from \in Node
        /\ m.kind \in Kind /\ m.cycle \in Cycle
    BY Parts, FlightMembers DEF Request
  <1> DEFINE v == <<m.kind, m.cycle, m.from>>
             y == KeptBy(m.to, v)
  <1>2. SameQuestion(y, m) /\ y.type = "KEPT"
    BY <1>1 DEF SameQuestion, KeptBy, Asker, Askee
  <1>3. net' = net \ {m} /\ waiting' = [waiting EXCEPT ![m.to] = @ \union {v}]
    BY DEF KeepWaiting
  <1>4. \A n \in Node : \A w \in waiting'[n] : w \in waiting[n] \/ (n = m.to /\ w = v)
    BY <1>1, <1>3 DEF MailTypes
  <1>5. MailTypes'
    BY <1>1, <1>3 DEF MailTypes
  <1>6. \A z \in Flight' : (z \in Flight /\ z # m) \/ z = y
    <2> SUFFICES ASSUME NEW z \in Flight' PROVE (z \in Flight /\ z # m) \/ z = y
      OBVIOUS
    <2>1. CASE z \in net'
      BY <1>3, <2>1 DEF Flight
    <2>2. ASSUME NEW n \in Node, NEW w \in waiting'[n], z = KeptBy(n, w)
          PROVE  (z \in Flight /\ z # m) \/ z = y
      <3>1. z.type = "KEPT"
        BY <2>2 DEF KeptBy
      <3>2. CASE w \in waiting[n]
        BY <2>2, <3>1, <3>2 DEF Flight
      <3>3. CASE n = m.to /\ w = v
        BY <2>2, <3>3
      <3> QED
        BY <1>4, <3>2, <3>3
    <2> QED
      BY <2>1, <2>2 DEF Flight
  <1> HIDE DEF y
  <1>7. (\A x \in Flight : FlightOK(x))' /\ AskedOnce'
    BY <1>1, <1>2, <1>6, IdleIInv, OneMoves
  <1> QED
    BY <1>1, <1>5, <1>7, IdleIInv, HavesCarried, PartsNext

(* The three handlers of requests keep the invariant.                         *)
LEMMA HandleRequestIInv ==
    ASSUME IInv, NEW m \in net, HandleRequest(m)
    PROVE  IInv'
  <1>1. m.type = "REQUEST" /\ UNCHANGED <<log, applied, scheduler, status, storage>>
    BY DEF HandleRequest
  <1>2. m.to \in Node /\ m.cycle \in Cycle /\ m.kind \in Kind
    BY <1>1, Parts, FlightMembers DEF Request
  <1>3. CASE KeepWaiting(m)
    BY <1>1, <1>3, KeepWaitingIInv
  <1>4. CASE Reply(m)
    <2>1. Some(m.to[1], AskType(m.kind), m.cycle) \/ KeepWaiting(m)
      BY <1>2, AnswerIsApplied DEF HandleRequest, HandleFetchRequest, HandleConnectivityRequest,
         HandleMembershipRequest, IsReady, AskType, Known
    <2> QED
      BY <1>1, <1>3, <1>4, <2>1, ReplyIInv
  <1> QED
    BY <1>3, <1>4 DEF HandleRequest, HandleFetchRequest, HandleConnectivityRequest,
       HandleMembershipRequest

(* Forwarding an answer to the leader keeps the invariant.                    *)
LEMMA ForwardResponseIInv ==
    ASSUME IInv, NEW m \in net, ForwardResponse(m)
    PROVE  IInv'
  <1> DEFINE y == [m EXCEPT !.to = Leader(m.to[1])]
  <1>1. /\ MailTypes /\ m \in Response /\ m.to \in Node /\ m.to[1] \in BG /\ m \in Flight
        /\ m.type = "RESPONSE"
    BY Parts, FlightMembers DEF ForwardResponse
  <1>2. Leader(m.to[1]) \in Node /\ Leader(m.to[1])[1] = m.to[1]
    BY <1>1, Groups
  <1>3. SameQuestion(y, m) /\ y \in Response
    BY <1>1, <1>2 DEF SameQuestion, Asker, Askee, Response
  <1>4. /\ net' = (net \ {m}) \union {y} /\ waiting' = waiting
        /\ UNCHANGED <<log, applied, scheduler, status, storage>>
    BY DEF ForwardResponse
  <1>5. \A z \in Flight' : (z \in Flight /\ z # m) \/ z = y
    <2>1. \A n \in Node : \A w \in waiting[n] : KeptBy(n, w) # m
      BY <1>1 DEF KeptBy
    <2> QED
      BY <1>4, <2>1 DEF Flight
  <1>6. MailTypes'
    BY <1>1, <1>3, <1>4 DEF MailTypes
  <1>7. Some(Askee(m), AskType(m.kind), m.cycle)
    BY <1>1, Parts DEF FlightOK
  <1> HIDE DEF y
  <1>8. (\A x \in Flight : FlightOK(x))' /\ AskedOnce'
    BY <1>1, <1>3, <1>4, <1>5, <1>7, IdleIInv, OneMoves
  <1> QED
    BY <1>1, <1>4, <1>6, <1>8, IdleIInv, HavesCarried, PartsNext

(* A fetched result goes to the leader's queue.                                 *)
LEMMA HandleFetchResponseIInv ==
    ASSUME IInv, NEW m \in net, HandleFetchResponse(m)
    PROVE  IInv'
  <1> DEFINE b == m.to[1]
             c == m.cycle
             f == Work(FETCHED_RESULT, c, m.bg)
             l == Leader(b)
  <1>1. /\ m.type = "RESPONSE" /\ m.kind = "RESULT" /\ m.to = Leader(b)
        /\ net' = net \ {m} /\ Queue(b, pending[b] \union {f})
        /\ UNCHANGED <<applied, status, waiting, storage>>
    BY DEF HandleFetchResponse, ForLeader
  <1>2. /\ LogTypes /\ MailTypes /\ (\A a \in BG : LogOK(a)) /\ m \in Flight /\ FlightOK(m)
        /\ m.to \in Node /\ b \in BG /\ m.bg \in BG /\ c \in Cycle
        /\ Asker(m) = b /\ Askee(m) = m.bg
    BY <1>1, Parts, FlightMembers DEF Asker, Askee
  <1>3. m.bg \in Remote(b) /\ AskedFor(b, "RESULT", c) /\ ~Planned(b, FETCHED_RESULT, c, m.bg)
    BY <1>1, <1>2 DEF FlightOK, Have
  <1>4. InLog(b, FROM_CLIENT, c, b)
    <2>1. PICK v \in SL : Has(<<b, v>>, FROM_CLIENT, c, b)
      BY <1>3 DEF AskedFor, AskType
    <2> QED
      BY <1>2, <2>1, HasIsPlanned, Groups
  <1>5. /\ f \in Entry /\ f.requestType = FETCHED_RESULT /\ f.cycle = c /\ f.origin = m.bg
        /\ f.requestType # FROM_CLIENT
    BY <1>2, Groups DEF Work, Entry, RequestType, FROM_CLIENT, FETCHED_RESULT
  <1>6. Enabled(b, Len(log[b]), f)
    BY <1>3, <1>4, <1>5 DEF Enabled, InLog, FROM_CLIENT, FETCHED_RESULT, LOCAL_CONNECTIVITY,
       LOCAL_MEMBERSHIP, FULL_MEMBERSHIP
  <1> HIDE DEF f
  <1>7. WorkOK(b, pending[b] \union {f})
    BY <1>2, <1>3, <1>5, <1>6, MoreWork
  <1>8. LogStep(b, pending[b] \union {f})
    BY <1>1, <1>2, <1>7, QueueIsLogStep
  <1>9. PICK extra : extra = {f}
    OBVIOUS
  <1>10. /\ WorkOK(b, pending[b] \union extra) /\ LogStep(b, pending[b] \union extra)
         /\ \A e \in extra : e.requestType = FETCHED_RESULT
    BY <1>5, <1>7, <1>8, <1>9
  <1>11. /\ LogTypes' /\ StatusTypes' /\ KnowledgeGrows
         /\ \A a \in BG : LogOK(a)'
         /\ \A n \in Node, d \in Cycle : StageOK(n, d)'
         /\ \A a \in BG, d \in Cycle : PlanOK(a, d)'
         /\ \A a \in BG, d \in Cycle, k \in Kind : \A o \in Remote(a) :
               Have(a, o, k, d)' <=>
                  Have(a, o, k, d) \/ (k = "RESULT" /\ a = b /\ \E e \in extra : Is(e, FETCHED_RESULT, d, o))
    BY <1>1, <1>2, <1>10, QuietStep
  <1>12. OneNews(m)
    BY <1>1, <1>2, <1>5, <1>9, <1>11 DEF OneNews, Is
  <1>13. (\A z \in Flight' : z \in Flight /\ z # m) /\ MailTypes'
    <2>1. \A n \in Node : \A w \in waiting[n] : KeptBy(n, w) # m
      BY <1>1 DEF KeptBy
    <2> QED
      BY <1>1, <1>2, <2>1 DEF Flight, MailTypes
  <1>14. /\ (\A x \in Flight : FlightOK(x))' /\ AskedOnce'
         /\ \A a \in BG, d \in Cycle, k \in Kind : \A o \in Remote(a) : HaveOK(a, o, k, d)'
    BY <1>1, <1>11, <1>12, <1>13, OneAnswered
  <1> QED
    BY <1>11, <1>13, <1>14, PartsNext

(* An answer about connectivity or membership fills a slot at the leader; the   *)
(* last one starts the next stage.                                              *)
NextStage(kind) == IF kind = "CONNECTIVITY" THEN LOCAL_MEMBERSHIP ELSE FULL_MEMBERSHIP
Awaits(s, kind) ==
    \/ kind = "CONNECTIVITY" /\ s.state = "REPLICATED_CONNECTIVITY"
    \/ kind = "MEMBERSHIP" /\ s.state = "REPLICATED_MEMBERSHIP"

(* An answer the leader waits for is new, and the request for the next        *)
(* stage is not planned yet.                                                  *)
LEMMA AwaitedAnswer ==
    ASSUME IInv, NEW m \in net, m.type = "RESPONSE", m.to = Leader(m.to[1]),
           Awaits(status[m.to][m.cycle], m.kind)
    PROVE  LET b == m.to[1] IN
           /\ b \in BG /\ m.to \in Node /\ m.cycle \in Cycle /\ m.bg \in Remote(b)
           /\ m.kind \in Kind /\ Asker(m) = b /\ Askee(m) = m.bg
           /\ m.bg \notin status[m.to][m.cycle].slots[m.kind]
           /\ ~Has(m.to, FULL_MEMBERSHIP, m.cycle, b)
           /\ m.kind = "CONNECTIVITY" => Has(m.to, LOCAL_CONNECTIVITY, m.cycle, b)
           /\ m.kind = "MEMBERSHIP" => Has(m.to, LOCAL_MEMBERSHIP, m.cycle, b)
           /\ \A o : ~Planned(b, NextStage(m.kind), m.cycle, o)
           /\ \A o, work : work = Work(NextStage(m.kind), m.cycle, o) /\ o \in BG =>
                 WorkOK(b, pending[b] \union {work})
  <1> DEFINE b == m.to[1]
             c == m.cycle
             s == status[m.to][c]
  <1>1. /\ LogTypes /\ MailTypes /\ (\A a \in BG : LogOK(a)) /\ m \in Flight /\ FlightOK(m)
        /\ m.to \in Node /\ b \in BG /\ m.bg \in BG /\ c \in Cycle /\ m.kind \in Kind
        /\ Asker(m) = b /\ Askee(m) = m.bg
    BY Parts, FlightMembers DEF Asker, Askee
  <1>2. m.bg \in Remote(b) /\ ~Have(b, m.bg, m.kind, c) /\ m.kind # "RESULT"
    BY <1>1 DEF FlightOK, Awaits
  <1>3. m.bg \notin s.slots[m.kind] /\ ~Has(m.to, FULL_MEMBERSHIP, c, b)
    BY <1>2 DEF Have
  <1>4. StageOK(m.to, c) /\ PlanOK(b, c)
    BY <1>1, Parts
  <1>5. /\ m.kind = "CONNECTIVITY" => Has(m.to, LOCAL_CONNECTIVITY, c, b)
        /\ m.kind = "MEMBERSHIP" => Has(m.to, LOCAL_MEMBERSHIP, c, b)
        /\ Has(m.to, FROM_CLIENT, c, b)
    BY <1>4 DEF StageOK, StateOf, Awaits
  <1>6. /\ NextStage(m.kind) # FETCHED_RESULT /\ NextStage(m.kind) # FROM_CLIENT
        /\ NextStage(m.kind) \in RequestType
    BY DEF NextStage, RequestType, FROM_CLIENT, FETCHED_RESULT, LOCAL_MEMBERSHIP, FULL_MEMBERSHIP
  <1>7. \A o : ~Planned(b, NextStage(m.kind), c, o)
    <2>1. ~Planned(b, NextStage(m.kind), c, b)
      BY <1>2, <1>4 DEF PlanOK, NextStage, Awaits
    <2>2. \A o : Planned(b, NextStage(m.kind), c, o) => Planned(b, NextStage(m.kind), c, b)
      BY <1>6 DEF Planned, InLog, Before, Is
    <2> QED
      BY <2>1, <2>2
  <1>8. \A t, o : Has(m.to, t, c, o) => InLog(b, t, c, o)
    BY <1>1, HasIsPlanned
  <1>9. ASSUME NEW o \in BG, NEW f, f = Work(NextStage(m.kind), c, o)
        PROVE  WorkOK(b, pending[b] \union {f})
    <2>1. f \in Entry /\ f.requestType = NextStage(m.kind) /\ f.cycle = c /\ f.origin = o
      BY <1>1, <1>6, <1>9, Groups DEF Work, Entry
    <2>2. Enabled(b, Len(log[b]), f)
      BY <1>5, <1>8, <2>1 DEF Enabled, InLog, NextStage, Awaits, FROM_CLIENT, FETCHED_RESULT, LOCAL_CONNECTIVITY,
         LOCAL_MEMBERSHIP, FULL_MEMBERSHIP
    <2> QED
      BY <1>1, <1>6, <1>7, <2>1, <2>2, MoreWork
  <1> QED
    BY <1>1, <1>2, <1>3, <1>5, <1>7, <1>9

(* Counting such an answer, and planning the next stage if it was the last,   *)
(* keeps the invariant.                                                       *)
LEMMA AnswerIInv ==
    ASSUME IInv, NEW m \in net, m.type = "RESPONSE", m.to = Leader(m.to[1]),
           Awaits(status[m.to][m.cycle], m.kind),
           SetStatus(m.to, m.cycle, Counted(m, status[m.to][m.cycle])),
           net' = net \ {m}, UNCHANGED <<applied, waiting, storage>>,
           NEW extra, WorkOK(m.to[1], pending[m.to[1]] \union extra),
           LogStep(m.to[1], pending[m.to[1]] \union extra),
           \A e \in extra : /\ LastAnswer(status[m.to][m.cycle])
                            /\ e.requestType = NextStage(m.kind) /\ e.cycle = m.cycle
    PROVE  IInv'
  <1> DEFINE b == m.to[1]
             c == m.cycle
             s == status[m.to][c]
  <1>1. /\ b \in BG /\ m.to \in Node /\ c \in Cycle /\ m.bg \in Remote(b) /\ m.kind \in Kind
        /\ Asker(m) = b /\ Askee(m) = m.bg
        /\ m.bg \notin s.slots[m.kind]
        /\ ~Has(m.to, FULL_MEMBERSHIP, c, b)
        /\ m.kind = "CONNECTIVITY" => Has(m.to, LOCAL_CONNECTIVITY, c, b)
        /\ m.kind = "MEMBERSHIP" => Has(m.to, LOCAL_MEMBERSHIP, c, b)
    BY AwaitedAnswer
  <1>2. LogTypes /\ StatusTypes /\ MailTypes /\ \A a \in BG : LogOK(a)
    BY Parts
  <1>3. LogTypes' /\ KnowledgeGrows /\ \A a \in BG : LogOK(a)'
    BY <1>1, <1>2, KnowledgeStep, LogStepOK DEF LogStep
  <1>4. \A n \in Node : \A t, d, o : Has(n, t, d, o)' <=> Has(n, t, d, o)
    BY <1>1, <1>2, HasStep
  <1>5. \A a \in BG : \A d, v : EnvoyIs(a, d, v) => EnvoyIs(a, d, v)'
    BY <1>1, <1>2, PlannedStep
  <1>6. /\ status' = [status EXCEPT ![m.to][c] = Counted(m, s)]
        /\ status'[m.to][c] = Counted(m, s)
        /\ \A n \in Node, d \in Cycle : (n # m.to \/ d # c) => status'[n][d] = status[n][d]
    <2>1. status' = [status EXCEPT ![m.to][c] = Counted(m, s)]
      BY DEF SetStatus
    <2> QED
      BY <1>1, <1>2, <2>1 DEF StatusTypes
  <1>7. /\ StageOK(m.to, c)' /\ status'[m.to][c] \in Status
        /\ LastAnswer(s) <=> Remote(b) \subseteq status'[m.to][c].slots[m.kind]
    <2>1. StageOK(m.to, c)
      BY <1>1, Parts
    <2> QED
      BY <1>1, <1>2, <1>4, <1>5, <1>6, <2>1, StageAnswer DEF Awaits, Counted
  <1>8. ASSUME NEW n \in Node, NEW d \in Cycle PROVE StageOK(n, d)' /\ status'[n][d] \in Status
    <2>1. CASE n = m.to /\ d = c
      BY <1>7, <2>1
    <2>2. CASE n # m.to \/ d # c
      <3>1. status'[n][d] = status[n][d] /\ StageOK(n, d) /\ n[1] \in BG
        BY <1>6, <2>2, Parts, Groups
      <3> QED
        BY <1>2, <1>4, <1>5, <3>1, StageSame DEF StatusTypes
    <2> QED
      BY <2>1, <2>2
  <1>9. StatusTypes'
    <2>1. Counted(m, s) \in Status
      BY <1>6, <1>7
    <2> QED
      BY <1>1, <1>2, <1>6, <2>1 DEF StatusTypes
  <1>10. /\ s.slots[m.kind] \union {m.bg} = status'[m.to][c].slots[m.kind]
         /\ \A k \in Kind \ {m.kind} : status'[m.to][c].slots[k] = s.slots[k]
    <2>1. s \in Status
      BY <1>1, <1>2 DEF StatusTypes
    <2>2. s.slots \in [Kind -> SUBSET BG]
      BY <2>1 DEF Status
    <2>3. \A t \in Status : Counted(m, t).slots = [t.slots EXCEPT ![m.kind] = @ \union {m.bg}]
      BY DEF Counted, Status
    <2>4. status'[m.to][c].slots = [s.slots EXCEPT ![m.kind] = @ \union {m.bg}]
      BY <1>6, <2>1, <2>3
    <2> QED
      BY <1>1, <2>2, <2>4
  <1>11. \A a \in BG : \A t, d, o : t # FROM_CLIENT =>
            (Planned(a, t, d, o)' <=>
                Planned(a, t, d, o) \/ (a = b /\ \E e \in extra : Is(e, t, d, o)))
    BY <1>1, <1>2, PlannedPlus
  <1>12. \A e \in extra : \A d, o : ~Is(e, FETCHED_RESULT, d, o)
    BY DEF Is, NextStage, FETCHED_RESULT, LOCAL_MEMBERSHIP, FULL_MEMBERSHIP
  <1>13. ASSUME NEW a \in BG, NEW d \in Cycle, NEW k \in Kind, NEW o \in Remote(a)
         PROVE  Have(a, o, k, d)' <=>
                   Have(a, o, k, d) \/ (a = b /\ o = m.bg /\ k = m.kind /\ d = c)
    <2>1. CASE k = "RESULT"
      <3>1. Have(a, o, k, d)' <=> Planned(a, FETCHED_RESULT, d, o)'
        BY <2>1 DEF Have
      <3>2. Have(a, o, k, d) <=> Planned(a, FETCHED_RESULT, d, o)
        BY <2>1 DEF Have
      <3>3. k # m.kind
        BY <2>1 DEF Awaits
      <3> QED
        BY <1>11, <1>12, <3>1, <3>2, <3>3 DEF FROM_CLIENT, FETCHED_RESULT
    <2>2. CASE k # "RESULT"
      <3>1. Leader(a) \in Node /\ Leader(a)[1] = a
        BY Groups
      <3>2. Has(Leader(a), FULL_MEMBERSHIP, d, a)' <=> Has(Leader(a), FULL_MEMBERSHIP, d, a)
        BY <1>4, <3>1
      <3>3. CASE a = b /\ d = c
        BY <1>10, <2>2, <3>2, <3>3 DEF Have
      <3>4. CASE a # b \/ d # c
        <4>1. status'[Leader(a)][d] = status[Leader(a)][d]
          <5>1. Leader(a) # m.to \/ d # c
            BY <3>1, <3>4
          <5> QED
            BY <1>6, <3>1, <5>1
        <4> QED
          BY <2>2, <3>2, <3>4, <4>1 DEF Have
      <3> QED
        BY <3>3, <3>4
    <2> QED
      BY <2>1, <2>2
  <1>14. OneNews(m)
    BY <1>1, <1>13 DEF OneNews
  <1>15. ASSUME NEW a \in BG, NEW d \in Cycle PROVE PlanOK(a, d)'
    <2>1. /\ PlanOK(a, d) /\ Leader(a) \in Node
          /\ \A t, o : Has(Leader(a), t, d, o) => Has(Leader(a), t, d, o)'
          /\ \A o \in Remote(a), k \in Kind : Have(a, o, k, d) => Have(a, o, k, d)'
      BY <1>4, <1>13, Parts, Groups
    <2>2. CASE a # b \/ d # c \/ extra = {}
      <3>1. \A t : t # FROM_CLIENT /\ t # FETCHED_RESULT /\ Planned(a, t, d, a)' => Planned(a, t, d, a)
        BY <1>11, <2>2 DEF Is
      <3> QED
        BY <2>1, <3>1, PlanCarried
    <2>3. CASE a = b /\ d = c /\ extra # {}
      <3>1. /\ LastAnswer(s)
            /\ \A t : t # FROM_CLIENT /\ t # NextStage(m.kind) /\ Planned(b, t, c, b)' => Planned(b, t, c, b)
        BY <1>1, <1>11, <2>3 DEF Is
      <3>2. \A o \in Remote(b) : Have(b, o, m.kind, c)'
        <4>1. \A o \in Remote(b) : o \in status'[m.to][c].slots[m.kind]
          BY <1>7, <3>1
        <4> QED
          BY <4>1 DEF Have, Awaits
      <3>3. /\ m.kind = "CONNECTIVITY" => Has(m.to, LOCAL_CONNECTIVITY, c, b)'
            /\ m.kind = "MEMBERSHIP" => Has(m.to, LOCAL_MEMBERSHIP, c, b)'
            /\ m.kind = "CONNECTIVITY" \/ m.kind = "MEMBERSHIP"
        BY <1>1, <1>4 DEF Awaits
      <3>4. "CONNECTIVITY" \in Kind /\ "MEMBERSHIP" \in Kind
        BY DEF Kind
      <3>5. CASE m.kind = "CONNECTIVITY"
        BY <2>1, <2>3, <3>1, <3>2, <3>3, <3>4, <3>5 DEF PlanOK, NextStage, FROM_CLIENT, LOCAL_CONNECTIVITY,
           LOCAL_MEMBERSHIP, FULL_MEMBERSHIP
      <3>6. CASE m.kind = "MEMBERSHIP"
        BY <2>1, <2>3, <3>1, <3>2, <3>3, <3>4, <3>6 DEF PlanOK, NextStage, FROM_CLIENT, LOCAL_CONNECTIVITY,
           LOCAL_MEMBERSHIP, FULL_MEMBERSHIP
      <3> QED
        BY <3>3, <3>5, <3>6
    <2> QED
      BY <2>2, <2>3
  <1>16. (\A z \in Flight' : z \in Flight /\ z # m) /\ MailTypes'
    <2>1. \A n \in Node : \A w \in waiting[n] : KeptBy(n, w) # m
      BY DEF KeptBy
    <2> QED
      BY <1>2, <2>1 DEF Flight, MailTypes
  <1>17. /\ (\A x \in Flight : FlightOK(x))' /\ AskedOnce'
         /\ \A a \in BG, d \in Cycle, k \in Kind : \A o \in Remote(a) : HaveOK(a, o, k, d)'
    BY <1>3, <1>14, <1>16, OneAnswered
  <1> QED
    BY <1>3, <1>8, <1>9, <1>15, <1>16, <1>17, PartsNext

(* The handler of connectivity responses keeps the invariant.                 *)
LEMMA HandleConnectivityResponseIInv ==
    ASSUME IInv, NEW m \in net, HandleConnectivityResponse(m)
    PROVE  IInv'
  <1> DEFINE b == m.to[1]
             s == status[m.to][m.cycle]
             f == Work(LOCAL_MEMBERSHIP, m.cycle, m.bg)
  <1>1. /\ m.type = "RESPONSE" /\ m.to = Leader(b) /\ m.kind = "CONNECTIVITY"
        /\ Awaits(s, m.kind) /\ SetStatus(m.to, m.cycle, Counted(m, s))
        /\ net' = net \ {m} /\ UNCHANGED <<applied, waiting, storage>>
        /\ NextStage(m.kind) = LOCAL_MEMBERSHIP
    BY DEF HandleConnectivityResponse, ForLeader, Awaits, NextStage
  <1>2. PICK extra : extra = (IF LastAnswer(s) THEN {f} ELSE {})
    OBVIOUS
  <1>3. Queue(b, pending[b] \union extra)
    BY <1>2 DEF HandleConnectivityResponse
  <1>4. b \in BG /\ LogTypes /\ LogOK(b) /\ m.bg \in BG
    BY <1>1, AwaitedAnswer, Parts DEF Remote
  <1>5. WorkOK(b, pending[b] \union {f})
    BY <1>1, <1>4, AwaitedAnswer
  <1>6. WorkOK(b, pending[b] \union extra)
    <2>1. WorkOK(b, pending[b]) /\ pending[b] \union {} = pending[b]
      BY <1>4, PendingIsWork
    <2> QED
      BY <1>2, <1>5, <2>1
  <1>7. LogStep(b, pending[b] \union extra)
    BY <1>1, <1>3, <1>4, <1>6, QueueIsLogStep
  <1>8. \A e \in extra : /\ LastAnswer(s)
                         /\ e.requestType = NextStage(m.kind) /\ e.cycle = m.cycle
    BY <1>1, <1>2 DEF Work
  <1> QED
    BY <1>1, <1>6, <1>7, <1>8, AnswerIInv

(* The handler of membership responses keeps the invariant.                   *)
LEMMA HandleMembershipResponseIInv ==
    ASSUME IInv, NEW m \in net, HandleMembershipResponse(m)
    PROVE  IInv'
  <1> DEFINE b == m.to[1]
             s == status[m.to][m.cycle]
             f == Work(FULL_MEMBERSHIP, m.cycle, b)
  <1>1. /\ m.type = "RESPONSE" /\ m.to = Leader(b) /\ m.kind = "MEMBERSHIP"
        /\ Awaits(s, m.kind) /\ SetStatus(m.to, m.cycle, Counted(m, s))
        /\ net' = net \ {m} /\ UNCHANGED <<applied, waiting, storage>>
        /\ NextStage(m.kind) = FULL_MEMBERSHIP
    BY DEF HandleMembershipResponse, ForLeader, AcceptsMembership, Awaits, NextStage
  <1>2. PICK extra : extra = (IF LastAnswer(s) THEN {f} ELSE {})
    OBVIOUS
  <1>3. /\ LastAnswer(s) => extra = {f} /\ Queue(b, pending[b] \union {f})
        /\ ~LastAnswer(s) => extra = {} /\ UNCHANGED <<log, scheduler>>
    BY <1>2 DEF HandleMembershipResponse
  <1>4. b \in BG /\ LogTypes /\ LogOK(b)
    BY <1>1, AwaitedAnswer, Parts
  <1>5. WorkOK(b, pending[b] \union {f})
    BY <1>1, <1>4, AwaitedAnswer
  <1>6. WorkOK(b, pending[b]) /\ pending[b] \union {} = pending[b]
    BY <1>4, PendingIsWork
  <1>7. WorkOK(b, pending[b] \union extra)
    BY <1>3, <1>5, <1>6
  <1>8. LogStep(b, pending[b] \union extra)
    <2>1. CASE LastAnswer(s)
      BY <1>1, <1>3, <1>4, <1>5, <2>1, QueueIsLogStep
    <2>2. CASE ~LastAnswer(s)
      BY <1>1, <1>3, <1>4, <1>6, <2>2, IdleIsLogStep
    <2> QED
      BY <2>1, <2>2
  <1>9. \A e \in extra : /\ LastAnswer(s)
                         /\ e.requestType = NextStage(m.kind) /\ e.cycle = m.cycle
    BY <1>1, <1>2 DEF Work
  <1> QED
    BY <1>1, <1>7, <1>8, <1>9, AnswerIInv

-----------------------------------------------------------------------------
(* The commits.  An SL that enters a stage answers those who asked before, and  *)
(* its envoy asks: what it asks for nobody has asked for yet.                   *)
LEMMA AskAndAnswerStep ==
    ASSUME IInv, KnowledgeGrows, NoNews, NEW n \in Node, NEW kind \in Kind, NEW c \in Cycle,
           NEW asks, AskAndAnswer(n, kind, c, asks), Some(n[1], AskType(kind), c)',
           asks => ~AskedFor(n[1], kind, c) /\ AskedFor(n[1], kind, c)'
    PROVE  MailTypes' /\ (\A x \in Flight : FlightOK(x))' /\ AskedOnce'
  <1> DEFINE b == n[1]
             Kept(w) == w \in waiting[n] /\ w[1] = kind /\ w[2] = c
             ResponseFor(w) == [type |-> "RESPONSE", kind |-> kind, cycle |-> c, bg |-> b, to |-> w[3]]
             RequestOf(d, s) == [type |-> "REQUEST", kind |-> kind, cycle |-> c, from |-> n, to |-> <<d, s>>]
  <1>1. MailTypes /\ b \in BG /\ n \in Node /\ Remote(b) \subseteq BG /\ b \notin Remote(b)
    BY Parts, Groups
  <1>2. waiting' = NoLongerWaiting(n, kind, c)
    BY DEF AskAndAnswer
  <1>3. PICK pick \in [Remote(b) -> SL] :
           net' = net \union PendingResponses(n, kind, c)
                  \union (IF asks THEN EnvoyRequests(n, kind, c, pick) ELSE {})
    BY DEF AskAndAnswer
  <1> DEFINE Old(z)     == z \in Flight /\ \A w : Kept(w) => z # KeptBy(n, w)
             Answer(z)  == \E w : Kept(w) /\ z = ResponseFor(w)
             Asking(z) == asks /\ \E d \in Remote(b) : z = RequestOf(d, pick[d])
  <1>4. /\ \A z \in net' : z \in net \/ Answer(z) \/ Asking(z)
        /\ \A m \in Node : \A w \in waiting'[m] : w \in waiting[m] /\ (m = n => ~Kept(w))
    <2>1. \A z \in net' : z \in net \/ Answer(z) \/ Asking(z)
      BY <1>3 DEF PendingResponses, EnvoyRequests
    <2>2. \A m \in Node : \A w \in waiting'[m] : w \in waiting[m] /\ (m = n => ~Kept(w))
      BY <1>1, <1>2 DEF NoLongerWaiting, MailTypes
    <2> QED
      BY <2>1, <2>2
  <1>5. \A w : Kept(w) => /\ w[3] \in Node /\ KeptBy(n, w) \in Flight /\ ResponseFor(w) \in Response
                          /\ SameQuestion(ResponseFor(w), KeptBy(n, w)) /\ ResponseFor(w).type = "RESPONSE"
    <2> SUFFICES ASSUME NEW w, Kept(w)
                 PROVE  /\ w[3] \in Node /\ KeptBy(n, w) \in Flight /\ ResponseFor(w) \in Response
                        /\ SameQuestion(ResponseFor(w), KeptBy(n, w)) /\ ResponseFor(w).type = "RESPONSE"
      OBVIOUS
    <2>1. w[3] \in Node /\ KeptBy(n, w) \in Flight
      BY <1>1, FlightMembers
    <2> QED
      BY <1>1, <2>1 DEF Response, SameQuestion, KeptBy, Asker, Askee
  <1>6. \A d \in Remote(b) : LET z == RequestOf(d, pick[d]) IN
           /\ z \in Request /\ z.kind = kind /\ z.cycle = c /\ z.type = "REQUEST"
           /\ Asker(z) = b /\ Askee(z) = d
    <2> SUFFICES ASSUME NEW d \in Remote(b), NEW z, z = RequestOf(d, pick[d])
                 PROVE  /\ z \in Request /\ z.kind = kind /\ z.cycle = c /\ z.type = "REQUEST"
                        /\ Asker(z) = b /\ Askee(z) = d
      OBVIOUS
    <2>1. <<d, pick[d]>> \in Node /\ <<d, pick[d]>>[1] = d
      BY <1>1, <1>3, Groups
    <2> QED
      BY <1>1, <2>1 DEF Request, Asker, Askee
  <1>7. MailTypes'
    <2>1. \A z \in net' : z \in Request \union Response
      BY <1>1, <1>4, <1>5, <1>6 DEF MailTypes
    <2>2. waiting' \in [Node -> SUBSET (Kind \X Cycle \X Node)]
      BY <1>1, <1>2 DEF MailTypes, NoLongerWaiting
    <2> QED
      BY <2>1, <2>2 DEF MailTypes
  <1>8. ASSUME NEW z \in Flight' PROVE Old(z) \/ Answer(z) \/ Asking(z)
    <2>1. CASE z \in net'
      <3>1. z \in net => Old(z)
        <4>1. z \in net => z.type # "KEPT" /\ z \in Flight
          BY <1>1, FlightMembers
        <4> QED
          BY <4>1 DEF KeptBy
      <3> QED
        BY <1>4, <2>1, <3>1
    <2>2. ASSUME NEW m \in Node, NEW w \in waiting'[m], z = KeptBy(m, w) PROVE Old(z)
      <3>1. w \in waiting[m] /\ z \in Flight
        BY <1>1, <1>4, <2>2, FlightMembers
      <3>2. ASSUME NEW v, Kept(v), z = KeptBy(n, v) PROVE FALSE
        <4>1. m = n /\ w[1] = v[1] /\ w[2] = v[2] /\ w[3] = v[3]
          BY <2>2, <3>2 DEF KeptBy
        <4> QED
          BY <1>4, <3>1, <3>2, <4>1
      <3> QED
        BY <3>1, <3>2
    <2> QED
      BY <2>1, <2>2 DEF Flight
  <1>9. \A x \in Flight : /\ FlightOK(x) /\ ~Have(Asker(x), Askee(x), x.kind, x.cycle)'
                          /\ Asker(x) \in BG /\ Askee(x) \in BG
    <2> SUFFICES ASSUME NEW x \in Flight
                 PROVE  /\ FlightOK(x) /\ ~Have(Asker(x), Askee(x), x.kind, x.cycle)'
                        /\ Asker(x) \in BG /\ Askee(x) \in BG
      OBVIOUS
    <2>1. FlightOK(x) /\ x.kind \in Kind /\ x.cycle \in Cycle /\ Asker(x) \in BG /\ Askee(x) \in BG
      BY <1>1, Parts, FlightMembers
    <2> QED
      BY <2>1 DEF NoNews, FlightOK
  <1> HIDE DEF Old, Answer, Asking, ResponseFor, RequestOf, Kept
  <1>10. ASSUME NEW z \in Flight' PROVE FlightOK(z)'
    <2>1. CASE Old(z)
      <3>1. z \in Flight
        BY <2>1 DEF Old
      <3> QED
        BY <1>9, <3>1, FlightCarried
    <2>2. CASE Answer(z)
      <3>1. PICK w : Kept(w) /\ z = ResponseFor(w)
        BY <2>2 DEF Answer
      <3>2. PICK x \in Flight : SameQuestion(z, x)
        BY <1>5, <3>1
      <3>3. FlightOK(x)'
        BY <1>9, <3>2, FlightCarried
      <3>4. Askee(z) = b /\ z.kind = kind /\ z.cycle = c
        BY <3>1 DEF ResponseFor, Askee
      <3> QED
        BY <1>1, <3>2, <3>3, <3>4 DEF FlightOK, SameQuestion
    <2>3. CASE Asking(z)
      <3>1. PICK d \in Remote(b) : z = RequestOf(d, pick[d])
        BY <2>3 DEF Asking
      <3>2. z.kind = kind /\ z.cycle = c /\ z.type = "REQUEST" /\ Asker(z) = b /\ Askee(z) = d
        BY <1>6, <3>1
      <3>3. ~AskedFor(b, kind, c) /\ AskedFor(b, kind, c)'
        BY <2>3 DEF Asking
      <3>4. ~Have(b, d, kind, c)
        BY <1>1, <3>3, Parts DEF HaveOK
      <3>5. ~Have(b, d, kind, c)'
        BY <1>1, <3>4 DEF NoNews
      <3> QED
        BY <3>2, <3>3, <3>5 DEF FlightOK
    <2> QED
      BY <1>8, <2>1, <2>2, <2>3
  <1>11. \A z : Asking(z) => \A x \in Flight : ~SameQuestion(z, x)
    <2> SUFFICES ASSUME NEW z, Asking(z), NEW x \in Flight, SameQuestion(z, x) PROVE FALSE
      OBVIOUS
    <2>1. AskedFor(Asker(x), x.kind, x.cycle)
      BY <1>9 DEF FlightOK
    <2>2. Asker(z) = b /\ z.kind = kind /\ z.cycle = c /\ ~AskedFor(b, kind, c)
      BY <1>6 DEF Asking
    <2> QED
      BY <2>1, <2>2 DEF SameQuestion
  <1>12. ASSUME NEW x \in Flight', NEW y \in Flight', SameQuestion(x, y) PROVE x = y
    <2>1. \A z : Answer(z) => \E w : Kept(w) /\ z = ResponseFor(w) /\ KeptBy(n, w) \in Flight
                                   /\ SameQuestion(z, KeptBy(n, w))
      BY <1>5 DEF Answer
    <2>2. \A z, w : Old(z) /\ Kept(w) => z # KeptBy(n, w)
      BY DEF Old
    <2>3. \A z : Old(z) => z \in Flight
      BY DEF Old
    <2>4. \A f, g \in Flight : SameQuestion(f, g) => f = g
      BY Parts DEF AskedOnce
    <2>5. /\ \A f, g : SameQuestion(f, g) => SameQuestion(g, f)
          /\ \A f, g, h : SameQuestion(f, g) /\ SameQuestion(g, h) => SameQuestion(f, h)
      BY DEF SameQuestion
    <2>6. \A f, g : Old(f) /\ Answer(g) => ~SameQuestion(f, g)
      BY <2>1, <2>2, <2>3, <2>4, <2>5
    <2>7. ASSUME NEW f, NEW g, Answer(f), Answer(g), SameQuestion(f, g) PROVE f = g
      <3>1. PICK v : Kept(v) /\ f = ResponseFor(v) /\ KeptBy(n, v) \in Flight /\ SameQuestion(f, KeptBy(n, v))
        BY <2>1, <2>7
      <3>2. PICK w : Kept(w) /\ g = ResponseFor(w) /\ KeptBy(n, w) \in Flight /\ SameQuestion(g, KeptBy(n, w))
        BY <2>1, <2>7
      <3>3. KeptBy(n, v) = KeptBy(n, w)
        BY <2>4, <2>5, <2>7, <3>1, <3>2
      <3>4. v[3] = w[3]
        BY <3>3 DEF KeptBy
      <3> QED
        BY <3>1, <3>2, <3>4 DEF ResponseFor
    <2>8. ASSUME NEW f, NEW g, Asking(f), Answer(g) PROVE ~SameQuestion(f, g)
      BY <1>11, <2>1, <2>5, <2>8
    <2>9. ASSUME NEW f, NEW g, Asking(f), Asking(g), SameQuestion(f, g) PROVE f = g
      <3>1. PICK d \in Remote(b) : f = RequestOf(d, pick[d])
        BY <2>9 DEF Asking
      <3>2. PICK a \in Remote(b) : g = RequestOf(a, pick[a])
        BY <2>9 DEF Asking
      <3>3. d = Askee(f) /\ a = Askee(g)
        BY <1>6, <3>1, <3>2
      <3> QED
        BY <2>9, <3>1, <3>2, <3>3 DEF SameQuestion
    <2>10. (Old(x) \/ Answer(x) \/ Asking(x)) /\ (Old(y) \/ Answer(y) \/ Asking(y))
      BY <1>8
    <2> QED
      BY <1>11, <1>12, <2>3, <2>4, <2>5, <2>6, <2>7, <2>8, <2>9, <2>10
  <1> QED
    BY <1>7, <1>10, <1>12 DEF AskedOnce

(* What every commit has in common: SL n applies entry e, and the leader may    *)
(* add work about e's cycle.                                                    *)
CommitWork(n, e, extra) ==
    /\ CanCommit(n)
    /\ e = NextEntry(n)
    /\ WorkOK(n[1], pending[n[1]] \union extra)
    /\ n = Leader(n[1]) \/ extra = {}
    /\ Finally(n, pending[n[1]] \union extra)

(* A commit makes one more entry applied at one SL, and plans at most the     *)
(* extra work.                                                                *)
LEMMA CommitStep ==
    ASSUME IInv, NEW n \in Node, NEW e, NEW extra, CommitWork(n, e, extra)
    PROVE  /\ LogTypes' /\ KnowledgeGrows
           /\ \A a \in BG : LogOK(a)'
           /\ e \in Entry /\ e.cycle \in Cycle /\ n[1] \in BG
           /\ \A m \in Node : \A t, c, o :
                 Has(m, t, c, o)' <=> Has(m, t, c, o) \/ (m = n /\ Is(e, t, c, o))
           /\ \A a \in BG : \A c, v : EnvoyIs(a, c, v) => EnvoyIs(a, c, v)'
           /\ \A a \in BG : \A t, c, o : t # FROM_CLIENT =>
                 (Planned(a, t, c, o)' <=>
                     Planned(a, t, c, o) \/ (a = n[1] /\ \E f \in extra : Is(f, t, c, o)))
  <1> DEFINE b == n[1]
  <1>1. LogTypes /\ b \in BG /\ \A a \in BG : LogOK(a)
    BY Parts, Groups
  <1>2. CanCommit(n) /\ e = NextEntry(n) /\ WorkOK(b, pending[b] \union extra)
    BY DEF CommitWork
  <1>3. Applies(n) /\ LogStep(b, pending[b] \union extra)
    <2>1. Finally(n, pending[b] \union extra)
      BY DEF CommitWork
    <2>2. n # Leader(b) => pending[b] \union extra = pending[b]
      BY DEF CommitWork
    <2>3. PICK work : work = pending[b] \union extra
      OBVIOUS
    <2>4. Finally(n, work) /\ WorkOK(b, work) /\ (n # Leader(b) => work = pending[b])
      BY <1>2, <2>1, <2>2, <2>3
    <2>5. Applies(n) /\ (n = Leader(b) => LogStep(b, work)) /\ (n # Leader(b) => LogStep(b, pending[b]))
      BY <1>1, <1>2, <2>4, FinallyIsLogStep
    <2> QED
      BY <2>3, <2>4, <2>5
  <1>4. LogTypes' /\ KnowledgeGrows /\ \A a \in BG : LogOK(a)'
    BY <1>1, <1>2, <1>3, KnowledgeStep, LogStepOK DEF LogStep
  <1>5. e \in Entry /\ e.cycle \in Cycle
    BY <1>1, <1>2, NextIsNew DEF Entry
  <1>6. \A m \in Node : \A t, c, o :
           Has(m, t, c, o)' <=> Has(m, t, c, o) \/ (m = n /\ Is(e, t, c, o))
    BY <1>1, <1>2, <1>3, HasStep
  <1>7. \A a \in BG : \A c, v : EnvoyIs(a, c, v) => EnvoyIs(a, c, v)'
    BY <1>1, <1>2, <1>3, PlannedStep
  <1>8. \A a \in BG : \A t, c, o : t # FROM_CLIENT =>
           (Planned(a, t, c, o)' <=>
               Planned(a, t, c, o) \/ (a = b /\ \E f \in extra : Is(f, t, c, o)))
    BY <1>1, <1>2, <1>3, PlannedPlus
  <1> QED
    BY <1>1, <1>4, <1>5, <1>6, <1>7, <1>8

(* The rest of a commit: the status of e's cycle at SL n.  What the leader has  *)
(* of the other groups stays the same.                                          *)
CommitStatus(n, e, extra, st) ==
    /\ status' = [status EXCEPT ![n][e.cycle] = st]
    /\ st \in Status
    /\ storage' \in [Node -> SUBSET Cycle]
    /\ \A m \in Node, c \in Cycle : m # n \/ c # e.cycle => (c \in storage'[m] <=> c \in storage[m])
    /\ n = Leader(n[1]) => \A k \in {"CONNECTIVITY", "MEMBERSHIP"}, d \in Remote(n[1]) :
                              Have(n[1], d, k, e.cycle)' <=> Have(n[1], d, k, e.cycle)
    /\ \A f \in extra : /\ f.requestType = LOCAL_CONNECTIVITY /\ f.cycle = e.cycle
                        /\ \A o \in Remote(n[1]) : Has(n, FETCHED_RESULT, e.cycle, o)'

(* A commit gives no leader an answer of another group.                       *)
LEMMA CommitHaves ==
    ASSUME IInv, NEW n \in Node, NEW e, NEW extra, NEW st, CommitWork(n, e, extra),
           CommitStatus(n, e, extra, st)
    PROVE  \A a \in BG, c \in Cycle, k \in Kind : \A d \in Remote(a) :
              Have(a, d, k, c)' <=> Have(a, d, k, c)
  <1> DEFINE b == n[1]
  <1>1. LogTypes /\ StatusTypes /\ b \in BG
    BY Parts, Groups
  <1>2. /\ e \in Entry /\ e.cycle \in Cycle
        /\ \A m \in Node : \A t, c, o :
              Has(m, t, c, o)' <=> Has(m, t, c, o) \/ (m = n /\ Is(e, t, c, o))
        /\ \A a \in BG : \A t, c, o : t # FROM_CLIENT =>
              (Planned(a, t, c, o)' <=>
                  Planned(a, t, c, o) \/ (a = b /\ \E f \in extra : Is(f, t, c, o)))
    BY CommitStep
  <1>3. \A m \in Node, c \in Cycle : m # n \/ c # e.cycle => status'[m][c] = status[m][c]
    BY <1>1, <1>2 DEF CommitStatus, StatusTypes
  <1>4. ASSUME NEW a \in BG, NEW c \in Cycle, NEW k \in Kind, NEW d \in Remote(a)
        PROVE  Have(a, d, k, c)' <=> Have(a, d, k, c)
    <2>1. CASE k = "RESULT"
      <3>1. \A f \in extra : ~Is(f, FETCHED_RESULT, c, d)
        BY DEF CommitStatus, Is, LOCAL_CONNECTIVITY, FETCHED_RESULT
      <3>2. Planned(a, FETCHED_RESULT, c, d)' <=> Planned(a, FETCHED_RESULT, c, d)
        BY <1>2, <3>1 DEF FROM_CLIENT, FETCHED_RESULT
      <3>3. Have(a, d, k, c)' <=> Planned(a, FETCHED_RESULT, c, d)'
        BY <2>1 DEF Have
      <3> QED
        BY <2>1, <3>2, <3>3 DEF Have
    <2>2. CASE k # "RESULT"
      <3>1. Leader(a) \in Node /\ Leader(a)[1] = a /\ k \in {"CONNECTIVITY", "MEMBERSHIP"}
        BY <2>2, Groups DEF Kind
      <3>2. CASE Leader(a) = n /\ c = e.cycle
        BY <3>1, <3>2 DEF CommitStatus
      <3>3. CASE Leader(a) # n \/ c # e.cycle
        <4>1. status'[Leader(a)][c] = status[Leader(a)][c]
          BY <1>3, <3>1, <3>3
        <4>2. Has(Leader(a), FULL_MEMBERSHIP, c, a)' <=> Has(Leader(a), FULL_MEMBERSHIP, c, a)
          BY <1>2, <3>1, <3>3 DEF Is
        <4> QED
          BY <2>2, <4>1, <4>2 DEF Have
      <3> QED
        BY <3>2, <3>3
    <2> QED
      BY <2>1, <2>2
  <1> QED
    BY <1>4

(* A commit keeps the plan of every group in order.                           *)
LEMMA CommitPlan ==
    ASSUME IInv, NEW n \in Node, NEW e, NEW extra, NEW st, CommitWork(n, e, extra),
           CommitStatus(n, e, extra, st), NEW a \in BG, NEW c \in Cycle
    PROVE  PlanOK(a, c)'
  <1> DEFINE b == n[1]
  <1>1. /\ b \in BG /\ PlanOK(a, c) /\ Leader(a) \in Node /\ Leader(a)[1] = a
    BY Parts, Groups
  <1>2. /\ e \in Entry /\ e.cycle \in Cycle
        /\ \A m \in Node : \A t, d, o :
              Has(m, t, d, o)' <=> Has(m, t, d, o) \/ (m = n /\ Is(e, t, d, o))
        /\ \A t, d, o : t # FROM_CLIENT =>
              (Planned(a, t, d, o)' <=>
                  Planned(a, t, d, o) \/ (a = b /\ \E f \in extra : Is(f, t, d, o)))
    BY CommitStep
  <1>3. \A k \in Kind, d \in Remote(a) : Have(a, d, k, c)' <=> Have(a, d, k, c)
    BY CommitHaves
  <1>4. \A t, o : Has(Leader(a), t, c, o) => Has(Leader(a), t, c, o)'
    BY <1>1, <1>2
  <1>5. CASE a # b \/ c # e.cycle \/ extra = {}
    <2>1. \A t : t # FROM_CLIENT /\ t # FETCHED_RESULT /\ Planned(a, t, c, a)' => Planned(a, t, c, a)
      BY <1>2, <1>5 DEF CommitStatus, Is
    <2> QED
      BY <1>1, <1>3, <1>4, <2>1, PlanCarried
  <1>6. CASE a = b /\ c = e.cycle /\ extra # {}
    <2>1. /\ n = Leader(b) /\ \A o \in Remote(b) : Has(n, FETCHED_RESULT, c, o)'
      BY <1>6 DEF CommitWork, CommitStatus
    <2>2. \A t : t # FROM_CLIENT /\ t # LOCAL_CONNECTIVITY /\ Planned(a, t, c, a)' => Planned(a, t, c, a)
      BY <1>2 DEF CommitStatus, Is
    <2>3. "CONNECTIVITY" \in Kind /\ "MEMBERSHIP" \in Kind
      BY DEF Kind
    <2> QED
      BY <1>1, <1>3, <1>4, <1>6, <2>1, <2>2, <2>3 DEF PlanOK, FROM_CLIENT, LOCAL_CONNECTIVITY,
         LOCAL_MEMBERSHIP, FULL_MEMBERSHIP
  <1> QED
    BY <1>5, <1>6

(* A commit keeps the invariant if it does so for the status of its cycle     *)
(* and for the mail.                                                          *)
LEMMA CommitIInv ==
    ASSUME IInv, NEW n \in Node, NEW e, NEW extra, NEW st, CommitWork(n, e, extra),
           CommitStatus(n, e, extra, st), StageOK(n, e.cycle)',
           MailTypes', (\A x \in Flight : FlightOK(x))', AskedOnce'
    PROVE  IInv'
  <1>1. StatusTypes /\ n[1] \in BG
    BY Parts, Groups
  <1>2. /\ LogTypes' /\ KnowledgeGrows /\ e.cycle \in Cycle
        /\ \A a \in BG : LogOK(a)'
        /\ \A m \in Node : \A t, c, o :
              Has(m, t, c, o)' <=> Has(m, t, c, o) \/ (m = n /\ Is(e, t, c, o))
        /\ \A a \in BG : \A c, v : EnvoyIs(a, c, v) => EnvoyIs(a, c, v)'
    BY CommitStep
  <1>3. \A m \in Node, c \in Cycle : m # n \/ c # e.cycle => status'[m][c] = status[m][c]
    BY <1>1, <1>2 DEF CommitStatus, StatusTypes
  <1>4. StatusTypes'
    BY <1>1, <1>2 DEF CommitStatus, StatusTypes
  <1>5. ASSUME NEW m \in Node, NEW c \in Cycle PROVE StageOK(m, c)'
    <2>1. CASE m = n /\ c = e.cycle
      BY <2>1
    <2>2. CASE m # n \/ c # e.cycle
      <3>1. /\ StageOK(m, c) /\ m[1] \in BG /\ status'[m][c] = status[m][c]
            /\ c \in storage'[m] <=> c \in storage[m]
            /\ \A t, o : Has(m, t, c, o)' <=> Has(m, t, c, o)
        BY <1>2, <1>3, <2>2, Parts, Groups DEF CommitStatus, Is
      <3> QED
        BY <1>2, <3>1, StageSame
    <2> QED
      BY <2>1, <2>2
  <1>6. NoNews
    BY CommitHaves DEF NoNews
  <1> QED
    BY <1>2, <1>4, <1>5, <1>6, CommitPlan, HavesCarried, PartsNext

(* A commit that plans nothing is one with no extra work.                     *)
LEMMA NoExtraWork ==
    ASSUME IInv, NEW n \in Node, NEW e, e = NextEntry(n), CanCommit(n), Finally(n, pending[n[1]]),
           NEW extra, extra = {}
    PROVE  CommitWork(n, e, extra)
  <1>1. n[1] \in BG /\ LogTypes /\ LogOK(n[1])
    BY Parts, Groups
  <1>2. WorkOK(n[1], pending[n[1]]) /\ pending[n[1]] \union extra = pending[n[1]]
    BY <1>1, PendingIsWork
  <1> QED
    BY <1>2 DEF CommitWork

(* What leaves the mail alone keeps it right.                                 *)
LEMMA QuietMail ==
    ASSUME IInv, KnowledgeGrows, NoNews, UNCHANGED <<waiting, net>>
    PROVE  MailTypes' /\ (\A x \in Flight : FlightOK(x))' /\ AskedOnce'
  <1>1. MailTypes' /\ Flight' = Flight /\ AskedOnce'
    BY Parts DEF MailTypes, Flight, AskedOnce
  <1>2. ASSUME NEW x \in Flight PROVE FlightOK(x)'
    <2>1. FlightOK(x) /\ x.kind \in Kind /\ x.cycle \in Cycle /\ Asker(x) \in BG /\ Askee(x) \in BG
      BY Parts, FlightMembers
    <2>2. ~Have(Asker(x), Askee(x), x.kind, x.cycle)'
      BY <2>1 DEF NoNews, FlightOK
    <2> QED
      BY <2>1, <2>2, FlightCarried
  <1> QED
    BY <1>1, <1>2

(* Only the envoy of the cycle asks, and not before it enters the stage.        *)
LEMMA EnvoyAsks ==
    ASSUME IInv, NEW n \in Node, NEW e, NEW extra, CommitWork(n, e, extra),
           NEW kind, AskType(kind) = e.requestType, e.requestType # FETCHED_RESULT,
           NEW envoy, EnvoyIs(n[1], e.cycle, envoy)
    PROVE  /\ Some(n[1], AskType(kind), e.cycle)'
           /\ IsPrimaryEnvoy(n, envoy) => ~AskedFor(n[1], kind, e.cycle) /\ AskedFor(n[1], kind, e.cycle)'
  <1> DEFINE b == n[1]
             c == e.cycle
  <1>1. /\ LogTypes /\ b \in BG /\ n[2] \in SL /\ n = <<b, n[2]>> /\ \A a \in BG : LogOK(a)
    BY Parts, Groups
  <1>2. /\ \A m \in Node : \A t, d, o :
              Has(m, t, d, o)' <=> Has(m, t, d, o) \/ (m = n /\ Is(e, t, d, o))
        /\ \A a \in BG : \A d, v : EnvoyIs(a, d, v) => EnvoyIs(a, d, v)'
    BY CommitStep
  <1>3. ~Has(n, e.requestType, c, b)
    BY <1>1, NextIsNew DEF CommitWork
  <1>4. Has(n, e.requestType, c, b)'
    BY <1>2 DEF Is
  <1>5. Some(b, AskType(kind), c)'
    BY <1>1, <1>4 DEF Some
  <1>6. ASSUME IsPrimaryEnvoy(n, envoy) PROVE ~AskedFor(b, kind, c) /\ AskedFor(b, kind, c)'
    <2>1. n = <<b, envoy>> /\ envoy \in SL
      BY <1>1, <1>6 DEF IsPrimaryEnvoy
    <2>2. ASSUME NEW v \in SL, EnvoyIs(b, c, v), Has(<<b, v>>, AskType(kind), c, b) PROVE FALSE
      <3>1. v = envoy
        BY <1>1, <2>2, OneEnvoy
      <3> QED
        BY <1>3, <2>1, <2>2, <3>1
    <2>3. EnvoyIs(b, c, envoy)'
      BY <1>1, <1>2
    <2>4. Has(<<b, envoy>>, AskType(kind), c, b)'
      BY <1>4, <2>1
    <2> QED
      BY <2>1, <2>2, <2>3, <2>4 DEF AskedFor
  <1> QED
    BY <1>5, <1>6

(* The commit of a batch keeps the invariant.                                 *)
LEMMA CommitFromClientIInv ==
    ASSUME IInv, NEW n \in Node, CanCommit(n), CommitFromClient(n, NextEntry(n))
    PROVE  IInv'
  <1> DEFINE b == n[1]
  <1>1. PICK e : e = NextEntry(n)
    OBVIOUS
  <1>2. PICK extra : extra = {}
    OBVIOUS
  <1>3. PICK st : st = [Unknown EXCEPT !.state = "REPLICATED_RESULTS", !.slots["RESULT"] = {b}, !.envoy = e.envoy]
    OBVIOUS
  <1>4. /\ e.requestType = FROM_CLIENT /\ status' = [status EXCEPT ![n][e.cycle] = st]
        /\ AskAndAnswer(n, "RESULT", e.cycle, IsPrimaryEnvoy(n, e.envoy))
        /\ storage' = storage /\ Finally(n, pending[b])
    BY <1>1, <1>3 DEF CommitFromClient, SetStatus
  <1>5. CommitWork(n, e, extra)
    BY <1>1, <1>2, <1>4, NoExtraWork
  <1>6. LogTypes /\ StatusTypes /\ b \in BG /\ \A a \in BG : LogOK(a)
    BY Parts, Groups
  <1>7. /\ e \in Entry /\ e.cycle \in Cycle /\ KnowledgeGrows
        /\ \A m \in Node : \A t, c, o :
              Has(m, t, c, o)' <=> Has(m, t, c, o) \/ (m = n /\ Is(e, t, c, o))
        /\ \A a \in BG : \A c, v : EnvoyIs(a, c, v) => EnvoyIs(a, c, v)'
    BY <1>5, CommitStep
  <1>8. StageOK(n, e.cycle)
    BY <1>7, Parts
  <1>9. status[n][e.cycle] = Unknown /\ ~Has(n, FULL_MEMBERSHIP, e.cycle, b)
    BY <1>1, <1>4, <1>6, <1>8, StageBefore DEF StageOK
  <1>10. EnvoyIs(b, e.cycle, e.envoy)
    <2>1. applied[n] + 1 \in 1..Len(log[b]) /\ e = log[b][applied[n] + 1]
      BY <1>1, <1>6 DEF CanCommit, NextEntry, LogTypes
    <2>2. Is(e, FROM_CLIENT, e.cycle, b)
      BY <1>4 DEF Is, FROM_CLIENT, FETCHED_RESULT
    <2> QED
      BY <2>1, <2>2 DEF EnvoyIs
  <1>11. st \in Status
    <2>1. e.envoy \in SL /\ 0 \in 0..NumBG
      BY <1>7, SizeAssumption, FS_CardinalityType DEF Entry, NumBG
    <2> QED
      BY <1>3, <1>6, <2>1 DEF Status, Unknown, States, Kind
  <1>12. status'[n][e.cycle] = st
    BY <1>4, <1>6, <1>7 DEF StatusTypes
  <1>13. StageOK(n, e.cycle)'
    <2>1. AppliesOf(n, e.cycle, e) /\ EnvoyIs(b, e.cycle, e.envoy)'
      BY <1>6, <1>7, <1>10 DEF AppliesOf
    <2> QED
      BY <1>1, <1>3, <1>4, <1>6, <1>7, <1>8, <1>12, <2>1, StageFromClient
  <1>14. ASSUME n = Leader(b), NEW k \in {"CONNECTIVITY", "MEMBERSHIP"}, NEW d \in Remote(b)
         PROVE  Have(b, d, k, e.cycle)' <=> Have(b, d, k, e.cycle)
    <2>1. ~Have(b, d, k, e.cycle)
      BY <1>9, <1>14 DEF Have, Unknown, Kind
    <2>2. ~Has(n, FULL_MEMBERSHIP, e.cycle, b)'
      BY <1>4, <1>7, <1>9 DEF Is, FROM_CLIENT, FULL_MEMBERSHIP
    <2>3. st.slots[k] = {}
      BY <1>3, <1>14 DEF Unknown, Kind
    <2> QED
      BY <1>12, <1>14, <2>1, <2>2, <2>3 DEF Have
  <1>15. CommitStatus(n, e, extra, st)
    BY <1>2, <1>4, <1>6, <1>11, <1>14 DEF CommitStatus, StatusTypes
  <1>16. MailTypes' /\ (\A x \in Flight : FlightOK(x))' /\ AskedOnce'
    <2>1. AskType("RESULT") = e.requestType /\ e.requestType # FETCHED_RESULT /\ "RESULT" \in Kind
      BY <1>4 DEF AskType, Kind, FROM_CLIENT, FETCHED_RESULT
    <2>2. NoNews
      BY <1>5, <1>15, CommitHaves DEF NoNews
    <2>3. /\ Some(b, AskType("RESULT"), e.cycle)'
          /\ IsPrimaryEnvoy(n, e.envoy) => ~AskedFor(b, "RESULT", e.cycle) /\ AskedFor(b, "RESULT", e.cycle)'
      BY <1>5, <1>10, <2>1, EnvoyAsks
    <2> QED
      BY <1>4, <1>7, <2>1, <2>2, <2>3, AskAndAnswerStep
  <1> QED
    BY <1>5, <1>13, <1>15, <1>16, CommitIInv

(* The commit of the group's own connectivity or membership keeps the         *)
(* invariant.                                                                 *)
LEMMA CommitLocalIInv ==
    ASSUME IInv, NEW n \in Node, CanCommit(n), NEW t, NEW kind, NEW state,
           \/ t = LOCAL_CONNECTIVITY /\ kind = "CONNECTIVITY" /\ state = "REPLICATED_CONNECTIVITY"
           \/ t = LOCAL_MEMBERSHIP /\ kind = "MEMBERSHIP" /\ state = "REPLICATED_MEMBERSHIP",
           CommitLocal(n, NextEntry(n), t, kind, state)
    PROVE  IInv'
  <1> DEFINE b == n[1]
  <1>1. PICK e : e = NextEntry(n)
    OBVIOUS
  <1>2. PICK extra : extra = {}
    OBVIOUS
  <1>3. PICK s : s = status[n][e.cycle]
    OBVIOUS
  <1>4. PICK st : st = Entered(s, state, kind, b)
    OBVIOUS
  <1>5. /\ e.requestType = t /\ status' = [status EXCEPT ![n][e.cycle] = st] /\ Known(n, e.cycle)
        /\ AskAndAnswer(n, kind, e.cycle, IsPrimaryEnvoy(n, s.envoy))
        /\ storage' = storage /\ Finally(n, pending[b])
    BY <1>1, <1>3, <1>4 DEF CommitLocal, SetStatus, Entered
  <1>6. CommitWork(n, e, extra)
    BY <1>1, <1>2, <1>5, NoExtraWork
  <1>7. LogTypes /\ StatusTypes /\ b \in BG /\ \A a \in BG : LogOK(a)
    BY Parts, Groups
  <1>8. /\ e \in Entry /\ e.cycle \in Cycle /\ KnowledgeGrows
        /\ \A m \in Node : \A u, c, o :
              Has(m, u, c, o)' <=> Has(m, u, c, o) \/ (m = n /\ Is(e, u, c, o))
        /\ \A a \in BG : \A c, v : EnvoyIs(a, c, v) => EnvoyIs(a, c, v)'
    BY <1>6, CommitStep
  <1>9. StageOK(n, e.cycle) /\ s \in Status
    BY <1>3, <1>7, <1>8, Parts DEF StatusTypes
  <1>10. EnvoyIs(b, e.cycle, s.envoy)
    BY <1>3, <1>5, <1>9 DEF StageOK, Known
  <1>11. status'[n][e.cycle] = st
    BY <1>5, <1>7, <1>8 DEF StatusTypes
  <1>12. kind \in Kind
    BY DEF Kind
  <1>13. StageOK(n, e.cycle)' /\ st \in Status
    <2>1. AppliesOf(n, e.cycle, e)
      BY <1>7, <1>8 DEF AppliesOf
    <2>2. \/ /\ e.requestType = LOCAL_CONNECTIVITY
             /\ kind = "CONNECTIVITY" /\ state = "REPLICATED_CONNECTIVITY"
          \/ /\ e.requestType = LOCAL_MEMBERSHIP
             /\ kind = "MEMBERSHIP" /\ state = "REPLICATED_MEMBERSHIP"
      BY <1>5
    <2>3. \A v : EnvoyIs(b, e.cycle, v) => EnvoyIs(b, e.cycle, v)'
      BY <1>7, <1>8
    <2>4. status'[n][e.cycle] = Entered(s, state, kind, b)
      BY <1>4, <1>11
    <2>5. e.cycle \in Cycle /\ StageOK(n, e.cycle) /\ storage' = storage
      BY <1>5, <1>8, <1>9
    <2>6. StageOK(n, e.cycle)' /\ status'[n][e.cycle] \in Status
      BY <1>1, <1>3, <1>7, <1>12, <2>1, <2>2, <2>3, <2>4, <2>5, StageLocal
    <2> QED
      BY <1>11, <2>6
  <1>14. ASSUME n = Leader(b), NEW k \in {"CONNECTIVITY", "MEMBERSHIP"}, NEW d \in Remote(b)
         PROVE  Have(b, d, k, e.cycle)' <=> Have(b, d, k, e.cycle)
    <2>1. Has(n, FULL_MEMBERSHIP, e.cycle, b)' <=> Has(n, FULL_MEMBERSHIP, e.cycle, b)
      BY <1>5, <1>8 DEF Is, LOCAL_CONNECTIVITY, LOCAL_MEMBERSHIP, FULL_MEMBERSHIP
    <2>2. s.slots \in [Kind -> SUBSET BG] /\ k \in Kind /\ d # b
      BY <1>9, <1>14 DEF Status, Kind, Remote
    <2>3. st.slots = [s.slots EXCEPT ![kind] = @ \union {b}]
      BY <1>4, <1>9 DEF Status, Entered
    <2>4. d \in st.slots[k] <=> d \in s.slots[k]
      BY <1>12, <2>2, <2>3
    <2> QED
      BY <1>3, <1>11, <1>14, <2>1, <2>4 DEF Have
  <1>15. CommitStatus(n, e, extra, st)
    BY <1>2, <1>5, <1>7, <1>13, <1>14 DEF CommitStatus, StatusTypes
  <1>16. MailTypes' /\ (\A x \in Flight : FlightOK(x))' /\ AskedOnce'
    <2>1. AskType(kind) = e.requestType /\ e.requestType # FETCHED_RESULT
      BY <1>5 DEF AskType, FETCHED_RESULT, LOCAL_CONNECTIVITY, LOCAL_MEMBERSHIP
    <2>2. NoNews
      BY <1>6, <1>15, CommitHaves DEF NoNews
    <2>3. /\ Some(b, AskType(kind), e.cycle)'
          /\ IsPrimaryEnvoy(n, s.envoy) => ~AskedFor(b, kind, e.cycle) /\ AskedFor(b, kind, e.cycle)'
      BY <1>6, <1>10, <2>1, EnvoyAsks
    <2> QED
      BY <1>5, <1>8, <1>12, <2>1, <2>2, <2>3, AskAndAnswerStep
  <1> QED
    BY <1>6, <1>13, <1>15, <1>16, CommitIInv

(* The commit of the full membership keeps the invariant.                     *)
LEMMA CommitFullMembershipIInv ==
    ASSUME IInv, NEW n \in Node, CanCommit(n), CommitFullMembership(n, NextEntry(n))
    PROVE  IInv'
  <1> DEFINE b == n[1]
  <1>1. PICK e : e = NextEntry(n)
    OBVIOUS
  <1>2. PICK extra : extra = {}
    OBVIOUS
  <1>3. PICK st : st = Unknown
    OBVIOUS
  <1>4. /\ e.requestType = FULL_MEMBERSHIP /\ status' = [status EXCEPT ![n][e.cycle] = st]
        /\ storage' = [storage EXCEPT ![n] = @ \union {e.cycle}]
        /\ UNCHANGED <<waiting, net>> /\ Finally(n, pending[b])
    BY <1>1, <1>3 DEF CommitFullMembership, SetStatus
  <1>5. CommitWork(n, e, extra)
    BY <1>1, <1>2, <1>4, NoExtraWork
  <1>6. LogTypes /\ StatusTypes /\ b \in BG /\ \A a \in BG : LogOK(a)
    BY Parts, Groups
  <1>7. /\ e \in Entry /\ e.cycle \in Cycle /\ KnowledgeGrows
        /\ \A m \in Node : \A t, c, o :
              Has(m, t, c, o)' <=> Has(m, t, c, o) \/ (m = n /\ Is(e, t, c, o))
    BY <1>5, CommitStep
  <1>8. StageOK(n, e.cycle) /\ PlanOK(b, e.cycle)
    BY <1>6, <1>7, Parts
  <1>9. status'[n][e.cycle] = st
    BY <1>4, <1>6, <1>7 DEF StatusTypes
  <1>10. StageOK(n, e.cycle)'
    <2>1. AppliesOf(n, e.cycle, e)
      BY <1>6, <1>7 DEF AppliesOf
    <2> QED
      BY <1>1, <1>3, <1>4, <1>6, <1>7, <1>8, <1>9, <2>1, StageFullMembership
  <1>11. st \in Status
    <2>1. 0 \in SL /\ 0 \in 0..NumBG
      BY Groups, SizeAssumption, FS_CardinalityType DEF NumBG
    <2> QED
      BY <1>3, <2>1 DEF Status, Unknown, States, Kind
  <1>12. ASSUME n = Leader(b), NEW k \in {"CONNECTIVITY", "MEMBERSHIP"}, NEW d \in Remote(b)
         PROVE  Have(b, d, k, e.cycle)' /\ Have(b, d, k, e.cycle)
    <2>1. Has(n, FULL_MEMBERSHIP, e.cycle, b)'
      BY <1>4, <1>6, <1>7 DEF Is, FETCHED_RESULT, FULL_MEMBERSHIP
    <2>2. Planned(b, FULL_MEMBERSHIP, e.cycle, b)
      <3>1. InLog(b, FULL_MEMBERSHIP, e.cycle, e.origin)
        BY <1>1, <1>4, <1>5, <1>6, NextIsNew DEF CommitWork
      <3> QED
        BY <3>1 DEF Planned, InLog, Before, Is, FETCHED_RESULT, FULL_MEMBERSHIP
    <2>3. Has(n, LOCAL_MEMBERSHIP, e.cycle, b) /\ Have(b, d, "MEMBERSHIP", e.cycle)
      BY <1>8, <1>12, <2>2 DEF PlanOK
    <2>4. Planned(b, LOCAL_MEMBERSHIP, e.cycle, b)
      BY <1>6, <2>3, HasIsPlanned
    <2>5. Have(b, d, "CONNECTIVITY", e.cycle)
      BY <1>8, <1>12, <2>4 DEF PlanOK
    <2> QED
      BY <1>12, <2>1, <2>3, <2>5 DEF Have
  <1>13. CommitStatus(n, e, extra, st)
    <2>1. /\ storage' \in [Node -> SUBSET Cycle]
          /\ \A m \in Node, c \in Cycle : m # n \/ c # e.cycle => (c \in storage'[m] <=> c \in storage[m])
      BY <1>4, <1>6, <1>7 DEF StatusTypes
    <2> QED
      BY <1>2, <1>4, <1>11, <1>12, <2>1 DEF CommitStatus
  <1>14. MailTypes' /\ (\A x \in Flight : FlightOK(x))' /\ AskedOnce'
    <2>1. NoNews
      BY <1>5, <1>13, CommitHaves DEF NoNews
    <2> QED
      BY <1>4, <1>7, <2>1, QuietMail
  <1> QED
    BY <1>5, <1>10, <1>13, <1>14, CommitIInv

(* A fetched result; the last one starts the exchange of connectivity.          *)
LEMMA LastResultIsLast ==
    ASSUME IInv, NEW n \in Node, CanCommit(n), NEW e, e = NextEntry(n), e.requestType = FETCHED_RESULT,
           NEW s, s = status[n][e.cycle], s.state = "REPLICATED_RESULTS",
           e.origin \notin s.slots["RESULT"]
    PROVE  /\ e \in Entry /\ e.cycle \in Cycle /\ e.origin \in Remote(n[1])
           /\ InLog(n[1], FROM_CLIENT, e.cycle, n[1])
           /\ ~Has(n, FETCHED_RESULT, e.cycle, e.origin)
           /\ LastResult(s) => \A o \in Remote(n[1]) : InLog(n[1], FETCHED_RESULT, e.cycle, o)
  <1> DEFINE b == n[1]
             c == e.cycle
  <1>1. LogTypes /\ StatusTypes /\ b \in BG /\ \A a \in BG : LogOK(a)
    BY Parts, Groups
  <1>2. /\ e \in Entry /\ c \in Cycle /\ ~Has(n, FETCHED_RESULT, c, e.origin)
        /\ Enabled(b, applied[n], e) /\ InLog(b, FETCHED_RESULT, c, e.origin)
    BY <1>1, NextIsNew DEF Entry
  <1>3. e.origin \in Remote(b) /\ Has(n, FROM_CLIENT, c, b)
    BY <1>2 DEF Enabled, Has, FROM_CLIENT, FETCHED_RESULT
  <1>4. InLog(b, FROM_CLIENT, c, b)
    BY <1>1, <1>3, HasIsPlanned
  <1>5. StageOK(n, c) /\ s \in Status
    BY <1>1, <1>2, Parts DEF StatusTypes
  <1>6. PICK S \in SUBSET BG : S = s.slots["RESULT"]
    BY <1>5 DEF Status, Kind
  <1>7. S = {b} \union {o \in Remote(b) : Has(n, FETCHED_RESULT, c, o)} /\ s.counter = Cardinality(S \ {b})
    BY <1>5, <1>6 DEF StageOK, SlotsOK, CounterOf, Filled
  <1>8. ASSUME LastResult(s), NEW o \in Remote(b) PROVE InLog(b, FETCHED_RESULT, c, o)
    <2>1. Cardinality((S \union {e.origin}) \ {b}) = NumBG - 1
      BY <1>1, <1>3, <1>6, <1>7, <1>8, Answers DEF LastResult
    <2>2. S \union {e.origin} \in SUBSET BG
      BY <1>3, <1>6 DEF Remote
    <2>3. o \in S \union {e.origin}
      BY <1>1, <1>8, <2>1, <2>2, Answers
    <2>4. o \in S => Has(n, FETCHED_RESULT, c, o)
      BY <1>7, <1>8 DEF Remote
    <2> QED
      BY <1>1, <1>2, <2>3, <2>4, HasIsPlanned
  <1> QED
    BY <1>2, <1>3, <1>4, <1>8

(* The commit of a fetched result keeps the invariant.                        *)
LEMMA CommitFetchedResultIInv ==
    ASSUME IInv, NEW n \in Node, CanCommit(n), CommitFetchedResult(n, NextEntry(n))
    PROVE  IInv'
  <1> DEFINE b == n[1]
             f == Work(LOCAL_CONNECTIVITY, NextEntry(n).cycle, b)
  <1>1. PICK e : e = NextEntry(n)
    OBVIOUS
  <1>2. PICK s : s = status[n][e.cycle]
    OBVIOUS
  <1>3. PICK st : st = Fetched(s, e.origin)
    OBVIOUS
  <1>4. st.slots = [s.slots EXCEPT !["RESULT"] = @ \union {e.origin}]
    <2>1. s \in Status
      <3>1. n[1] \in BG /\ StatusTypes /\ e \in Entry
        BY <1>1, Parts, NextIsNew, Groups
      <3> QED
        BY <1>2, <3>1 DEF StatusTypes, Entry
    <2> QED
      BY <1>3, <2>1 DEF Fetched, Status
  <1>5. PICK extra : extra = IF n = Leader(b) /\ LastResult(s) THEN {f} ELSE {}
    OBVIOUS
  <1>6. /\ e.requestType = FETCHED_RESULT /\ s.state = "REPLICATED_RESULTS"
        /\ e.origin \notin s.slots["RESULT"]
        /\ status' = [status EXCEPT ![n][e.cycle] = st]
        /\ UNCHANGED <<waiting, storage, net>>
        /\ Finally(n, pending[b] \union IF LastResult(s) THEN {f} ELSE {})
    BY <1>1, <1>2, <1>3 DEF CommitFetchedResult, SetStatus, Fetched
  <1>7. /\ e \in Entry /\ e.cycle \in Cycle /\ e.origin \in Remote(b)
        /\ InLog(b, FROM_CLIENT, e.cycle, b)
        /\ ~Has(n, FETCHED_RESULT, e.cycle, e.origin)
        /\ LastResult(s) => \A o \in Remote(b) : InLog(b, FETCHED_RESULT, e.cycle, o)
    BY <1>1, <1>2, <1>6, LastResultIsLast
  <1>8. LogTypes /\ StatusTypes /\ b \in BG /\ \A a \in BG : LogOK(a)
    BY Parts, Groups
  <1>9. StageOK(n, e.cycle) /\ PlanOK(b, e.cycle) /\ s \in Status
    BY <1>2, <1>7, <1>8, Parts DEF StatusTypes
  <1>10. f \in Entry /\ f.requestType = LOCAL_CONNECTIVITY /\ f.cycle = e.cycle /\ f.origin = b
    BY <1>1, <1>7, <1>8, Groups DEF Work, Entry, RequestType
  <1> HIDE DEF f
  <1>11. WorkOK(b, pending[b] \union extra)
    <2>1. CASE n = Leader(b) /\ LastResult(s)
      <3>1. Enabled(b, Len(log[b]), f)
        BY <1>7, <1>10, <2>1 DEF Enabled, InLog, FROM_CLIENT, FETCHED_RESULT, LOCAL_CONNECTIVITY,
           LOCAL_MEMBERSHIP, FULL_MEMBERSHIP
      <3>2. ~Planned(b, LOCAL_CONNECTIVITY, e.cycle, b)
        BY <1>7, <1>9, <2>1 DEF PlanOK
      <3> QED
        BY <1>5, <1>8, <1>10, <2>1, <3>1, <3>2, MoreWork DEF FROM_CLIENT, LOCAL_CONNECTIVITY
    <2>2. CASE ~(n = Leader(b) /\ LastResult(s))
      <3>1. pending[b] \union extra = pending[b]
        BY <1>5, <2>2
      <3> QED
        BY <1>8, <3>1, PendingIsWork
    <2> QED
      BY <2>1, <2>2
  <1>12. CommitWork(n, e, extra)
    <2>1. n = Leader(b) \/ extra = {}
      BY <1>5
    <2>2. Finally(n, pending[b] \union extra)
      <3>1. CASE n = Leader(b)
        BY <1>5, <1>6, <3>1
      <3>2. CASE n # Leader(b)
        BY <1>6, <3>2 DEF Finally
      <3> QED
        BY <3>1, <3>2
    <2> QED
      BY <1>1, <1>11, <2>1, <2>2 DEF CommitWork
  <1>13. /\ KnowledgeGrows
         /\ \A m \in Node : \A t, c, o :
               Has(m, t, c, o)' <=> Has(m, t, c, o) \/ (m = n /\ Is(e, t, c, o))
         /\ \A a \in BG : \A c, v : EnvoyIs(a, c, v) => EnvoyIs(a, c, v)'
    BY <1>12, CommitStep
  <1>14. status'[n][e.cycle] = st
    BY <1>6, <1>7, <1>8 DEF StatusTypes
  <1>15. /\ StageOK(n, e.cycle)' /\ st \in Status
         /\ LastResult(s) <=> \A o \in Remote(b) : Has(n, FETCHED_RESULT, e.cycle, o)'
    <2>1. AppliesOf(n, e.cycle, e)
      BY <1>8, <1>13 DEF AppliesOf
    <2>2. \A v : EnvoyIs(b, e.cycle, v) => EnvoyIs(b, e.cycle, v)'
      BY <1>8, <1>13
    <2>3. storage' = storage
      BY <1>6
    <2>4. status'[n][e.cycle] = Fetched(s, e.origin)
      BY <1>3, <1>14
    <2>5. /\ StageOK(n, e.cycle)' /\ status'[n][e.cycle] \in Status
          /\ LastResult(s) <=> \A o \in Remote(b) : Has(n, FETCHED_RESULT, e.cycle, o)'
      BY <1>1, <1>2, <1>6, <1>7, <1>8, <1>9, <2>1, <2>2, <2>3, <2>4, StageFetchedResult
    <2> QED
      BY <1>14, <2>5
  <1>16. ASSUME n = Leader(b), NEW k \in {"CONNECTIVITY", "MEMBERSHIP"}, NEW d \in Remote(b)
         PROVE  Have(b, d, k, e.cycle)' <=> Have(b, d, k, e.cycle)
    <2>1. Has(n, FULL_MEMBERSHIP, e.cycle, b)' <=> Has(n, FULL_MEMBERSHIP, e.cycle, b)
      BY <1>6, <1>13 DEF Is, FETCHED_RESULT, FULL_MEMBERSHIP
    <2>2. st.slots[k] = s.slots[k]
      <3>1. s.slots \in [Kind -> SUBSET BG] /\ k \in Kind /\ k # "RESULT"
        BY <1>9, <1>16 DEF Status, Kind
      <3> QED
        BY <1>4, <3>1
    <2> QED
      BY <1>2, <1>14, <1>16, <2>1, <2>2 DEF Have
  <1>17. CommitStatus(n, e, extra, st)
    <2>1. \A g \in extra : g = f /\ LastResult(s)
      BY <1>5
    <2> QED
      BY <1>6, <1>8, <1>10, <1>15, <1>16, <2>1 DEF CommitStatus, StatusTypes
  <1>18. MailTypes' /\ (\A x \in Flight : FlightOK(x))' /\ AskedOnce'
    <2>1. NoNews
      BY <1>12, <1>17, CommitHaves DEF NoNews
    <2> QED
      BY <1>6, <1>13, <2>1, QuietMail
  <1> QED
    BY <1>12, <1>15, <1>17, <1>18, CommitIInv

(* Every commit keeps the invariant.                                          *)
LEMMA CommitKeepsIInv ==
    ASSUME IInv, NEW n \in Node, Commit(n)
    PROVE  IInv'
  <1>1. CanCommit(n)
    BY DEF Commit
  <1>2. CASE CommitFromClient(n, NextEntry(n))
    BY <1>1, <1>2, CommitFromClientIInv
  <1>3. CASE CommitFetchedResult(n, NextEntry(n))
    BY <1>1, <1>3, CommitFetchedResultIInv
  <1>4. CASE CommitLocalConnectivity(n, NextEntry(n))
    <2>1. CommitLocal(n, NextEntry(n), LOCAL_CONNECTIVITY, "CONNECTIVITY", "REPLICATED_CONNECTIVITY")
      BY <1>4 DEF CommitLocalConnectivity
    <2> QED
      BY <1>1, <2>1, CommitLocalIInv
  <1>5. CASE CommitLocalMembership(n, NextEntry(n))
    <2>1. CommitLocal(n, NextEntry(n), LOCAL_MEMBERSHIP, "MEMBERSHIP", "REPLICATED_MEMBERSHIP")
      BY <1>5 DEF CommitLocalMembership
    <2> QED
      BY <1>1, <2>1, CommitLocalIInv
  <1>6. CASE CommitFullMembership(n, NextEntry(n))
    BY <1>1, <1>6, CommitFullMembershipIInv
  <1> QED
    BY <1>2, <1>3, <1>4, <1>5, <1>6 DEF Commit, NextEntry

(* Every step keeps the invariant.                                            *)
LEMMA NextIInv == IInv /\ [Next]_vars => IInv'
  <1> SUFFICES ASSUME IInv, [Next]_vars PROVE IInv'
    OBVIOUS
  <1>1. CASE \E b \in BG : ReceiveBatch(b)
    BY <1>1, ReceiveBatchIInv
  <1>2. CASE \E n \in Node : Commit(n)
    BY <1>2, CommitKeepsIInv
  <1>3. CASE \E m \in net : Handle(m)
    BY <1>3, HandleRequestIInv, ForwardResponseIInv, HandleFetchResponseIInv,
       HandleConnectivityResponseIInv, HandleMembershipResponseIInv DEF Handle
  <1>4. CASE UNCHANGED vars
    <2>1. \E b \in BG : TRUE
      BY MostBatches
    <2>2. /\ LogTypes' /\ StatusTypes' /\ KnowledgeGrows /\ NoNews
          /\ \A a \in BG : LogOK(a)'
          /\ \A n \in Node, c \in Cycle : StageOK(n, c)'
          /\ \A a \in BG, c \in Cycle : PlanOK(a, c)'
      BY <1>4, <2>1, IdleIInv DEF vars
    <2>3. MailTypes' /\ (\A x \in Flight : FlightOK(x))' /\ AskedOnce'
      BY <1>4, <2>2, QuietMail DEF vars
    <2> QED
      BY <2>2, <2>3, HavesCarried, PartsNext
  <1> QED
    BY <1>1, <1>2, <1>3, <1>4 DEF Next

(* The invariant from which everything below follows.                           *)
THEOREM SpecIInv == Spec => []IInv
  <1>1. Init => IInv
    BY InitIInv
  <1>2. IInv /\ [Next]_vars => IInv'
    BY NextIInv
  <1> QED
    BY <1>1, <1>2, PTL DEF Spec

-----------------------------------------------------------------------------
(* What the invariant means for the properties.                                 *)

(* When an SL has finished a cycle, every other group has the result and the    *)
(* connectivity of its group, and every SL everywhere has the results of all.   *)
LEMMA FinishedEverywhere ==
    ASSUME IInv, NEW n \in Node, NEW c \in Cycle, c \in storage[n]
    PROVE  /\ \A a \in Remote(n[1]) : Have(a, n[1], "RESULT", c) /\ Have(a, n[1], "CONNECTIVITY", c)
           /\ \A m \in Node : Has(m, LOCAL_CONNECTIVITY, c, m[1])
  <1> DEFINE d == n[1]
  <1>1. LogTypes /\ d \in BG /\ (\A a \in BG : LogOK(a)) /\ StageOK(n, c) /\ PlanOK(d, c)
    BY Parts, Groups
  <1>2. Has(n, FULL_MEMBERSHIP, c, d)
    BY <1>1 DEF StageOK
  <1>3. Some(d, FULL_MEMBERSHIP, c) /\ Planned(d, FULL_MEMBERSHIP, c, d)
    BY <1>1, <1>2, HasIsPlanned
  <1>4. "MEMBERSHIP" \in Kind
    BY DEF Kind
  <1>5. \A a \in Remote(d) : a \in BG /\ d \in Remote(a) /\ Some(a, LOCAL_MEMBERSHIP, c)
    <2> SUFFICES ASSUME NEW a \in Remote(d)
                 PROVE  a \in BG /\ d \in Remote(a) /\ Some(a, LOCAL_MEMBERSHIP, c)
      OBVIOUS
    <2>1. Have(d, a, "MEMBERSHIP", c)
      BY <1>1, <1>3 DEF PlanOK
    <2>2. HaveOK(d, a, "MEMBERSHIP", c)
      BY <1>1, <1>4, Parts
    <2>3. Some(a, AskType("MEMBERSHIP"), c)
      BY <2>1, <2>2 DEF HaveOK
    <2> QED
      BY <1>1, <2>3 DEF AskType, Remote
  <1>6. ASSUME NEW a \in Remote(d)
        PROVE  Have(a, d, "RESULT", c) /\ Have(a, d, "CONNECTIVITY", c)
    <2>1. Planned(a, LOCAL_MEMBERSHIP, c, a)
      <3>1. PICK s \in SL : Has(<<a, s>>, LOCAL_MEMBERSHIP, c, a)
        BY <1>5 DEF Some
      <3>2. <<a, s>> \in Node /\ <<a, s>>[1] = a
        BY <1>5, Groups
      <3> QED
        BY <1>1, <3>1, <3>2, HasIsPlanned
    <2>2. PlanOK(a, c) /\ Leader(a) \in Node /\ Leader(a)[1] = a
      BY <1>5, Parts, Groups
    <2>3. Has(Leader(a), LOCAL_CONNECTIVITY, c, a) /\ Have(a, d, "CONNECTIVITY", c)
      BY <1>5, <2>1, <2>2 DEF PlanOK
    <2>4. Has(Leader(a), FETCHED_RESULT, c, d)
      BY <1>1, <1>5, <2>2, <2>3, Chain
    <2>5. Planned(a, FETCHED_RESULT, c, d)
      BY <1>1, <2>2, <2>4, HasIsPlanned
    <2> QED
      BY <2>3, <2>5 DEF Have
  <1>7. ASSUME NEW m \in Node PROVE Has(m, LOCAL_CONNECTIVITY, c, m[1])
    <2>1. m[1] \in BG
      BY Groups
    <2>2. CASE m[1] = d
      <3>1. Has(m, LOCAL_MEMBERSHIP, c, d)
        BY <1>1, <1>3, <2>2, GroupChain
      <3> QED
        BY <1>1, <2>2, <3>1, Chain
    <2>3. CASE m[1] # d
      BY <1>1, <1>5, <2>1, <2>3, GroupChain DEF Remote
    <2> QED
      BY <2>2, <2>3
  <1> QED
    BY <1>6, <1>7

(* The invariant implies the safety properties one by one: the group that     *)
(* asks lacks an answer that a finished cycle would have given it.            *)
LEMMA NoStaleRequestHolds == IInv => NoStaleRequest
  <1> SUFFICES ASSUME IInv, NEW m \in net, m.type = "REQUEST", m.kind # "MEMBERSHIP",
                      m.cycle \in storage[m.to]
               PROVE  FALSE
    BY DEF NoStaleRequest
  <1>1. /\ m \in Flight /\ FlightOK(m) /\ m.to \in Node /\ m.cycle \in Cycle /\ m.kind \in Kind
        /\ Asker(m) \in BG /\ Askee(m) = m.to[1]
    BY Parts, FlightMembers DEF Askee
  <1>2. Asker(m) \in Remote(m.to[1])
    BY <1>1 DEF FlightOK, Remote
  <1>3. Have(Asker(m), Askee(m), m.kind, m.cycle)
    BY <1>1, <1>2, FinishedEverywhere DEF Kind
  <1> QED
    BY <1>1, <1>3 DEF FlightOK

(* An answer in flight is one its asker's leader does not have yet.           *)
LEMMA ResponsesFindTheirCycleHolds == IInv => ResponsesFindTheirCycle
  <1> SUFFICES ASSUME IInv, NEW m \in net, m.type = "RESPONSE", m.kind # "RESULT"
               PROVE  /\ Known(Leader(m.to[1]), m.cycle)
                      /\ m.bg \notin status[Leader(m.to[1])][m.cycle].slots[m.kind]
    BY DEF ResponsesFindTheirCycle
  <1> DEFINE b == m.to[1]
             c == m.cycle
             l == Leader(b)
  <1>1. /\ m \in Flight /\ FlightOK(m) /\ b \in BG /\ c \in Cycle /\ m.kind \in Kind
        /\ Asker(m) = b /\ Askee(m) = m.bg
        /\ LogTypes /\ l \in Node /\ l[1] = b /\ \A a \in BG : LogOK(a)
    BY Parts, FlightMembers, Groups DEF Asker, Askee
  <1>2. StageOK(l, c)
    BY <1>1, Parts
  <1>3. ~Has(l, FULL_MEMBERSHIP, c, b) /\ m.bg \notin status[l][c].slots[m.kind]
    BY <1>1 DEF FlightOK, Have
  <1>4. Has(l, FROM_CLIENT, c, b)
    <2>1. Some(b, LOCAL_CONNECTIVITY, c) \/ Some(b, LOCAL_MEMBERSHIP, c)
      BY <1>1 DEF FlightOK, AskedFor, AskType, Some, Kind
    <2>2. Some(b, LOCAL_MEMBERSHIP, c) => Has(l, LOCAL_CONNECTIVITY, c, b)
      BY <1>1, GroupChain
    <2>3. Has(l, LOCAL_CONNECTIVITY, c, b) => Has(l, FROM_CLIENT, c, b)
      BY <1>1, Chain
    <2>4. Some(b, LOCAL_CONNECTIVITY, c) => Has(l, FROM_CLIENT, c, b)
      BY <1>1, GroupChain
    <2> QED
      BY <2>1, <2>2, <2>3, <2>4
  <1>5. Known(l, c)
    BY <1>1, <1>2, <1>3, <1>4 DEF StageOK, StateOf, Known
  <1> QED
    BY <1>3, <1>5

(* The next entry finds its cycle in its stage, by StageBefore.               *)
LEMMA CommitFindsItsStageHolds == IInv => CommitFindsItsStage
  <1> SUFFICES ASSUME IInv, NEW n \in Node, CanCommit(n), NEW e, e = NextEntry(n), NEW s, s = status[n][e.cycle]
               PROVE  IF e.requestType = FROM_CLIENT
                      THEN ~Known(n, e.cycle) /\ e.cycle \notin storage[n]
                      ELSE /\ s.state = StageOf(e.requestType)
                           /\ e.requestType = FETCHED_RESULT => e.origin \notin s.slots["RESULT"]
    BY DEF CommitFindsItsStage, NextEntry
  <1>1. LogTypes /\ n[1] \in BG /\ \A a \in BG : LogOK(a)
    BY Parts, Groups
  <1>2. /\ e \in Entry /\ e.cycle \in Cycle /\ Enabled(n[1], applied[n], e)
        /\ ~Has(n, e.requestType, e.cycle, e.origin)
    BY <1>1, NextIsNew DEF Entry
  <1>3. StageOK(n, e.cycle)
    BY <1>2, Parts
  <1>4. /\ e.requestType = FROM_CLIENT => StateOf(n, e.cycle) = "NONE" /\ ~Has(n, FULL_MEMBERSHIP, e.cycle, n[1])
        /\ e.requestType # FROM_CLIENT => StateOf(n, e.cycle) = StageOf(e.requestType)
    BY <1>1, StageBefore
  <1>5. CASE e.requestType = FROM_CLIENT
    BY <1>3, <1>4, <1>5 DEF StageOK, Known
  <1>6. CASE e.requestType # FROM_CLIENT
    <2>1. s.state = StageOf(e.requestType)
      BY <1>3, <1>4, <1>6 DEF StageOK
    <2>2. ASSUME e.requestType = FETCHED_RESULT PROVE e.origin \notin s.slots["RESULT"]
      <3>1. SlotsOK(n, e.cycle)
        BY <1>3, <2>1, <2>2, Stages DEF StageOK
      <3>2. e.origin # n[1]
        BY <1>2, <2>2 DEF Enabled, Remote
      <3> QED
        BY <1>2, <2>2, <3>1, <3>2 DEF SlotsOK
    <2> QED
      BY <1>6, <2>1, <2>2
  <1> QED
    BY <1>5, <1>6

(* Who is asked for the membership has applied its batch, so that a cycle     *)
(* it does not know is finished.                                              *)
LEMMA FinishedNotUnbegunHolds == IInv => FinishedNotUnbegun
  <1> SUFFICES ASSUME IInv, NEW m \in net, m.type = "REQUEST", m.kind = "MEMBERSHIP"
               PROVE  Known(m.to, m.cycle) \/ m.cycle \in storage[m.to]
    BY DEF FinishedNotUnbegun
  <1> DEFINE d == m.to[1]
             a == m.from[1]
             c == m.cycle
  <1>1. /\ m \in Flight /\ FlightOK(m) /\ m.to \in Node /\ c \in Cycle /\ d \in BG /\ a \in BG
        /\ Asker(m) = a /\ Askee(m) = d
        /\ LogTypes /\ \A b \in BG : LogOK(b)
    BY Parts, FlightMembers, Groups DEF Asker, Askee
  <1>2. StageOK(m.to, c) /\ PlanOK(a, c)
    BY <1>1, Parts
  <1>3. PICK v \in SL : Has(<<a, v>>, LOCAL_MEMBERSHIP, c, a)
    BY <1>1 DEF FlightOK, AskedFor, AskType
  <1>4. Planned(a, LOCAL_MEMBERSHIP, c, a)
    <2>1. <<a, v>> \in Node /\ <<a, v>>[1] = a
      BY <1>1, Groups
    <2> QED
      BY <1>1, <1>3, <2>1, HasIsPlanned
  <1>5. Have(a, d, "CONNECTIVITY", c) /\ d \in Remote(a)
    BY <1>1, <1>2, <1>4 DEF PlanOK, FlightOK
  <1>6. Some(d, LOCAL_CONNECTIVITY, c)
    <2>1. "CONNECTIVITY" \in Kind
      BY DEF Kind
    <2>2. HaveOK(a, d, "CONNECTIVITY", c)
      BY <1>1, <1>5, <2>1, Parts
    <2> QED
      BY <1>5, <2>2 DEF HaveOK, AskType
  <1>7. Has(m.to, FROM_CLIENT, c, d)
    BY <1>1, <1>6, GroupChain
  <1> QED
    BY <1>2, <1>7 DEF StageOK, StateOf, Known

(* A finished cycle has its results at every SL.                              *)
LEMMA FinishedMeansReplicatedHolds == IInv => FinishedMeansReplicated
  <1> SUFFICES ASSUME IInv, NEW n \in Node, NEW c \in storage[n], NEW m \in Node, c \notin storage[m]
               PROVE  status[m][c].slots["RESULT"] = BG
    BY DEF FinishedMeansReplicated
  <1>1. /\ LogTypes /\ m[1] \in BG /\ c \in Cycle /\ \A b \in BG : LogOK(b)
    BY Parts, Groups DEF StatusTypes
  <1>2. Has(m, LOCAL_CONNECTIVITY, c, m[1])
    BY <1>1, FinishedEverywhere
  <1>3. Has(m, FROM_CLIENT, c, m[1]) /\ \A o \in Remote(m[1]) : Has(m, FETCHED_RESULT, c, o)
    BY <1>1, <1>2, Chain
  <1>4. StageOK(m, c)
    BY <1>1, Parts
  <1>5. SlotsOK(m, c)
    BY <1>3, <1>4 DEF StageOK, StateOf
  <1> QED
    BY <1>1, <1>3, <1>5 DEF SlotsOK, Remote

(* The counter of a cycle is the number of groups that answered.              *)
LEMMA CountedOnceHolds == IInv => CountedOnce
  <1> SUFFICES ASSUME IInv, NEW n \in Node, NEW c \in Cycle PROVE status[n][c].counter = CounterOf(n, c)
    BY DEF CountedOnce, CounterOf, Filled
  <1> QED
    BY Parts DEF StageOK

(* Messages, statuses and logs keep their types.                                *)
THEOREM TypeCorrect == Spec => []TypeOK
  <1>1. IInv => TypeOK
    BY DEF IInv
  <1> QED
    BY <1>1, SpecIInv, PTL

(* No assertion of a Round 3 handler trips and none throws: requests are never  *)
(* stale, answers find their cycle and a free slot, and an entry is applied in  *)
(* the stage before its own.                                                    *)
THEOREM NoAssertionTrips == Spec => []AssertionsHold
  <1>1. IInv => AssertionsHold
    BY NoStaleRequestHolds, ResponsesFindTheirCycleHolds, CommitFindsItsStageHolds DEF AssertionsHold
  <1> QED
    BY <1>1, SpecIInv, PTL

(* An SL asked for the membership of a cycle it does not know has finished it.  *)
THEOREM UnknownMeansFinished == Spec => []FinishedNotUnbegun
  BY FinishedNotUnbegunHolds, SpecIInv, PTL

(* Once any SL has finished a cycle, every SL of every group has applied the    *)
(* results of all groups.                                                       *)
THEOREM CyclesReplicated == Spec => []FinishedMeansReplicated
  BY FinishedMeansReplicatedHolds, SpecIInv, PTL

(* The counters of answers count groups, each of them once.                     *)
THEOREM AnswersCountedOnce == Spec => []CountedOnce
  BY CountedOnceHolds, SpecIInv, PTL

(* The leader never leaves work in its queue while the slot is free.            *)
THEOREM NoWorkWaits == Spec => []WorkNeverWaits
  <1>1. IInv => WorkNeverWaits
    BY DEF IInv, LogOK, NoIdleWork, WorkNeverWaits
  <1> QED
    BY <1>1, SpecIInv, PTL

-----------------------------------------------------------------------------
(* Each group is a replicated log.                                              *)
Extended(b) == \E e \in Entry : log' = [log EXCEPT ![b] = Append(@, e)]

(* One step extends the log of one group at most, when its leader has applied   *)
(* all of it, and one SL of that group applies an entry at most.                *)
GroupMove(b) ==
    /\ log' = log \/ (Extended(b) /\ applied'[Leader(b)] = Len(log[b]))
    /\ applied' = applied \/ \E n \in Node : n[1] = b /\ Applies(n) /\ (n # Leader(b) => log' = log)
    /\ next_cycle' = next_cycle \/ SendBatch(b)

(* A batch that is sent out extends the log of its group by one entry.        *)
LEMMA BatchEntry ==
    ASSUME LogTypes, NEW b \in BG, SendBatch(b)
    PROVE  Extended(b) /\ next_cycle[b] \in Cycle
  <1> DEFINE e == [requestType |-> FROM_CLIENT, cycle |-> next_cycle[b], origin |-> b, envoy |-> envoys_rr[b]]
  <1>1. next_cycle[b] \in Cycle
    <2>1. next_cycle[b] \in 1..(MaxCycle + 1) /\ next_cycle[b] <= Batches[b] /\ Batches[b] \in Nat
      BY BatchesAssumption DEF LogTypes, SendBatch
    <2> QED
      BY <2>1, MaxCycleBound DEF Cycle
  <1>2. e \in Entry
    BY <1>1 DEF LogTypes, Entry, RequestType
  <1>3. log' = [log EXCEPT ![b] = Append(@, e)]
    BY DEF SendBatch
  <1> HIDE DEF e
  <1> QED
    BY <1>1, <1>2, <1>3 DEF Extended

(* Starting an instance extends the log or leaves it, and numbers a batch     *)
(* only if it sends one.                                                      *)
LEMMA SpawnMoves ==
    ASSUME LogTypes, NEW b \in BG, NEW work \in SUBSET Entry, SpawnRound2(b, work)
    PROVE  /\ log' = log \/ Extended(b)
           /\ next_cycle' = next_cycle \/ SendBatch(b)
  <1>1. CASE work # {} /\ SendPending(b, work)
    BY <1>1 DEF SendPending, Top, Extended
  <1>2. CASE work = {} /\ SendBatch(b)
    BY <1>2, BatchEntry DEF Extended, SendBatch
  <1>3. CASE UNCHANGED <<log, next_cycle, envoys_rr>>
    BY <1>3
  <1> QED
    BY <1>1, <1>2, <1>3 DEF SpawnRound2

(* Queueing work moves at most the log of the group.                          *)
LEMMA QueueMoves ==
    ASSUME LogTypes, NEW b \in BG, NEW work \in SUBSET Entry, Queue(b, work), applied' = applied
    PROVE  GroupMove(b)
  <1>1. CASE SlotFree(b)
    BY <1>1, SpawnMoves DEF Queue, GroupMove, SlotFree
  <1>2. CASE ~SlotFree(b)
    BY <1>2 DEF Queue, GroupMove
  <1> QED
    BY <1>1, <1>2

(* The end of a commit applies one entry and may extend the log by one.       *)
LEMMA FinallyMoves ==
    ASSUME LogTypes, NEW n \in Node, LogOK(n[1]), CanCommit(n), NEW work \in SUBSET Entry, Finally(n, work)
    PROVE  GroupMove(n[1])
  <1> DEFINE b == n[1]
  <1>1. b \in BG /\ Applies(n)
    BY Groups DEF Finally, Applies
  <1>2. CASE n = Leader(b)
    <2>1. applied'[Leader(b)] = Len(log[b])
      BY <1>1, <1>2 DEF LogOK, InStep, CanCommit, Applies, LogTypes
    <2> QED
      BY <1>1, <1>2, <2>1, SpawnMoves DEF Finally, GroupMove
  <1>3. CASE n # Leader(b)
    BY <1>1, <1>3 DEF Finally, GroupMove, scheduler
  <1> QED
    BY <1>2, <1>3

(* The work that is queued consists of entries.                               *)
LEMMA MoreEntries ==
    ASSUME LogTypes, NEW b \in BG, NEW t \in RequestType, NEW c \in Cycle, NEW o \in BG
    PROVE  pending[b] \union {Work(t, c, o)} \in SUBSET Entry /\ pending[b] \in SUBSET Entry
  <1>1. Work(t, c, o) \in Entry
    BY Groups DEF Work, Entry
  <1>2. pending[b] \in SUBSET Entry
    BY DEF LogTypes
  <1> QED
    BY <1>1, <1>2

(* Every commit moves only its own group.                                     *)
LEMMA CommitMoves ==
    ASSUME IInv, NEW n \in Node, Commit(n)
    PROVE  GroupMove(n[1])
  <1> DEFINE b == n[1]
             w == Work(LOCAL_CONNECTIVITY, NextEntry(n).cycle, b)
  <1>1. LogTypes /\ b \in BG /\ (\A a \in BG : LogOK(a)) /\ CanCommit(n)
    BY Parts, Groups DEF Commit
  <1>2. NextEntry(n).cycle \in Cycle
    BY <1>1, NextIsNew DEF Entry
  <1>3. LOCAL_CONNECTIVITY \in RequestType
    BY DEF RequestType
  <1>4. pending[b] \in SUBSET Entry /\ pending[b] \union {w} \in SUBSET Entry
    BY <1>1, <1>2, <1>3, MoreEntries
  <1>5. Finally(n, pending[b]) \/ Finally(n, pending[b] \union {w})
    <2>1. CASE CommitFetchedResult(n, NextEntry(n))
      <3>1. PICK more : /\ more = {} \/ more = {w}
                        /\ Finally(n, pending[b] \union more)
        BY <2>1 DEF CommitFetchedResult
      <3>2. pending[b] \union {} = pending[b]
        OBVIOUS
      <3> QED
        BY <3>1, <3>2
    <2>2. CASE ~CommitFetchedResult(n, NextEntry(n))
      BY <2>2 DEF Commit, NextEntry, CommitFromClient, CommitLocalConnectivity, CommitLocalMembership, CommitLocal,
         CommitFullMembership
    <2> QED
      BY <2>1, <2>2
  <1> HIDE DEF w
  <1> QED
    BY <1>1, <1>4, <1>5, FinallyMoves

(* Every handler of a message moves one group at most.                        *)
LEMMA HandleMoves ==
    ASSUME IInv, NEW m \in net, Handle(m)
    PROVE  \E b \in BG : GroupMove(b)
  <1> DEFINE b == m.to[1]
  <1>1. LogTypes /\ b \in BG
    BY Parts, FlightMembers
  <1>2. CASE UNCHANGED <<log, applied, scheduler>>
    BY <1>1, <1>2 DEF GroupMove, scheduler
  <1>3. ASSUME NEW t \in RequestType, NEW o \in BG, NEW c \in Cycle, NEW more,
               more = {} \/ more = {Work(t, c, o)},
               Queue(b, pending[b] \union more), applied' = applied
        PROVE  GroupMove(b)
    <2>1. pending[b] \union more \in SUBSET Entry
      BY <1>1, <1>3, MoreEntries
    <2> QED
      BY <1>1, <1>3, <2>1, QueueMoves
  <1>4. /\ m.type = "RESPONSE" => m.bg \in BG /\ m.cycle \in Cycle
        /\ FETCHED_RESULT \in RequestType /\ LOCAL_MEMBERSHIP \in RequestType /\ FULL_MEMBERSHIP \in RequestType
    BY Parts, FlightMembers DEF Response, RequestType
  <1>5. CASE HandleFetchResponse(m)
    <2>1. PICK more : more = {Work(FETCHED_RESULT, m.cycle, m.bg)}
      OBVIOUS
    <2>2. m.type = "RESPONSE" /\ Queue(b, pending[b] \union more) /\ applied' = applied
      BY <1>5, <2>1 DEF HandleFetchResponse, ForLeader
    <2> QED
      BY <1>1, <1>3, <1>4, <2>1, <2>2
  <1>6. CASE HandleConnectivityResponse(m)
    <2>1. PICK more : more = IF LastAnswer(status[m.to][m.cycle]) THEN {Work(LOCAL_MEMBERSHIP, m.cycle, m.bg)} ELSE {}
      OBVIOUS
    <2>2. m.type = "RESPONSE" /\ Queue(b, pending[b] \union more) /\ applied' = applied
      BY <1>6, <2>1 DEF HandleConnectivityResponse, ForLeader
    <2>3. more = {} \/ more = {Work(LOCAL_MEMBERSHIP, m.cycle, m.bg)}
      BY <2>1
    <2> QED
      BY <1>1, <1>3, <1>4, <2>2, <2>3
  <1>7. CASE HandleMembershipResponse(m)
    <2>1. PICK more : more = {Work(FULL_MEMBERSHIP, m.cycle, b)}
      OBVIOUS
    <2>2. /\ m.type = "RESPONSE" /\ applied' = applied
          /\ Queue(b, pending[b] \union more) \/ UNCHANGED <<log, scheduler>>
      BY <1>7, <2>1 DEF HandleMembershipResponse, ForLeader
    <2> QED
      BY <1>1, <1>2, <1>3, <1>4, <2>1, <2>2
  <1> QED
    BY <1>2, <1>5, <1>6, <1>7 DEF Handle, HandleRequest, ForwardResponse

(* Every step moves one group at most.                                        *)
LEMMA NextMoves ==
    ASSUME IInv, [Next]_vars
    PROVE  \E b \in BG : GroupMove(b)
  <1>1. ASSUME NEW b \in BG, ReceiveBatch(b) PROVE GroupMove(b)
    <2>1. LogTypes
      BY Parts
    <2> QED
      BY <1>1, <2>1, BatchEntry DEF ReceiveBatch, GroupMove, SlotFree, Extended, SendBatch
  <1>2. ASSUME NEW n \in Node, Commit(n) PROVE \E b \in BG : GroupMove(b)
    BY <1>2, CommitMoves, Groups
  <1>3. CASE UNCHANGED vars
    BY <1>3, MostBatches DEF vars, scheduler, GroupMove
  <1> QED
    BY <1>1, <1>2, <1>3, HandleMoves DEF Next

(* Such a move is a step of GroupLog for every group.                         *)
LEMMA GroupStep ==
    ASSUME LogTypes, NEW b \in BG, GroupMove(b), NEW a \in BG
    PROVE  [Group(a)!Next]_(Group(a)!vars)
  <1>1. CASE a # b
    <2>1. log'[a] = log[a]
      BY <1>1 DEF GroupMove, Extended, LogTypes
    <2>2. \A s \in SL : applied'[<<a, s>>] = applied[<<a, s>>]
      <3>1. ASSUME NEW n \in Node, n[1] = b, applied' = [applied EXCEPT ![n] = @ + 1], NEW s \in SL
            PROVE  applied'[<<a, s>>] = applied[<<a, s>>]
        <4>1. <<a, s>> \in Node /\ <<a, s>> # n
          BY <1>1, <3>1, Groups
        <4> QED
          BY <3>1, <4>1 DEF LogTypes
      <3> QED
        BY <3>1 DEF GroupMove, Applies
    <2>3. [s \in SL |-> applied[<<a, s>>]]' = [s \in SL |-> applied[<<a, s>>]]
      BY <2>2
    <2> QED
      BY <2>1, <2>3 DEF Group!vars
  <1>2. CASE a = b
    <2>1. Extended(b) /\ applied'[Leader(b)] = Len(log[b]) => Group(a)!Extend
      <3> SUFFICES ASSUME Extended(b), applied'[Leader(b)] = Len(log[b]) PROVE Group(a)!Extend
        OBVIOUS
      <3>1. PICK e \in Entry : log'[b] = Append(log[b], e)
        BY DEF Extended, LogTypes
      <3>2. [s \in SL |-> applied[<<b, s>>]]'[0] = Len(log[b])
        BY Groups DEF Leader
      <3> QED
        BY <1>2, <3>1, <3>2 DEF Group!Extend, Group!Leader
    <2>2. CASE applied' = applied
      <3>1. [s \in SL |-> applied[<<a, s>>]]' = [s \in SL |-> applied[<<a, s>>]]
        BY <2>2
      <3> QED
        BY <1>2, <2>1, <3>1 DEF GroupMove, Group!vars, Group!Next
    <2>3. ASSUME NEW n \in Node, n[1] = b, Applies(n), n # Leader(b) => log' = log PROVE Group(a)!Next
      <3> DEFINE s == n[2]
      <3>1. s \in SL /\ n = <<b, s>>
        BY <2>3, Groups
      <3>2. /\ applied[<<b, s>>] < Len(log[b])
            /\ \A r \in SL : applied[<<b, r>>] >= applied[<<b, s>>]
        BY <2>3, <3>1 DEF Applies, CanCommit
      <3>3. \A r \in SL : applied'[<<b, r>>] = IF r = s THEN applied[<<b, r>>] + 1 ELSE applied[<<b, r>>]
        <4> SUFFICES ASSUME NEW r \in SL
                     PROVE  applied'[<<b, r>>] = IF r = s THEN applied[<<b, r>>] + 1 ELSE applied[<<b, r>>]
          OBVIOUS
        <4>1. <<b, r>> \in Node /\ (r # s => <<b, r>> # n)
          BY <3>1, Groups
        <4>2. applied' = [applied EXCEPT ![n] = @ + 1]
          BY <2>3 DEF Applies
        <4>3. applied'[n] = applied[n] + 1 /\ (r # s => applied'[<<b, r>>] = applied[<<b, r>>])
          BY <4>1, <4>2 DEF LogTypes
        <4>4. r = s => <<b, r>> = n
          BY <3>1
        <4> HIDE DEF s
        <4> QED
          BY <4>3, <4>4
      <3>4. Group(a)!Deliver(s)
        <4>1. [r \in SL |-> applied[<<b, r>>]]' = [[r \in SL |-> applied[<<b, r>>]] EXCEPT ![s] = @ + 1]
          BY <3>1, <3>3
        <4> QED
          BY <1>2, <3>1, <3>2, <4>1 DEF Group!Deliver, Group!SL, SL
      <3>5. log'[a] = log[a] \/ (s = 0 /\ Group(a)!Extend)
        <4>1. CASE log' = log
          BY <4>1
        <4>2. CASE Extended(b) /\ applied'[Leader(b)] = Len(log[b])
          <5>1. log' # log
            <6>1. PICK e \in Entry : log'[b] = Append(log[b], e) /\ log[b] \in Seq(Entry)
              BY <4>2 DEF Extended, LogTypes
            <6>2. Len(log'[b]) # Len(log[b])
              BY <6>1
            <6> QED
              BY <6>2
          <5>2. s = 0
            BY <2>3, <3>1, <5>1 DEF Leader
          <5> QED
            BY <2>1, <4>2, <5>2
        <4> QED
          BY <4>1, <4>2 DEF GroupMove
      <3> QED
        BY <3>1, <3>4, <3>5 DEF Group!Next, Group!SL, SL, Group!Leader
    <2> QED
      BY <1>2, <2>2, <2>3 DEF GroupMove
  <1> QED
    BY <1>1, <1>2

(* What Round 3 takes for granted about the groups is what Round 2 delivers:    *)
(* whatever the handlers do, each group moves as a replicated log.              *)
THEOREM GroupsAreLogs == Spec => ImplementsGroupLogs
  <1>1. Init => \A b \in BG : Group(b)!Init
    <2> SUFFICES ASSUME Init, NEW b \in BG PROVE Group(b)!Init
      OBVIOUS
    <2>1. \A s \in SL : applied[<<b, s>>] = 0
      BY Groups DEF Init
    <2> QED
      BY <2>1 DEF Init, Group!Init, Group!SL, SL
  <1>2. IInv /\ [Next]_vars => [\A b \in BG : [Group(b)!Next]_(Group(b)!vars)]_vars
    <2> SUFFICES ASSUME IInv, [Next]_vars PROVE \A b \in BG : [Group(b)!Next]_(Group(b)!vars)
      OBVIOUS
    <2>1. LogTypes
      BY Parts
    <2> QED
      BY <2>1, NextMoves, GroupStep
  <1> QED
    BY <1>1, <1>2, SpecIInv, PTL DEF Spec, ImplementsGroupLogs

-----------------------------------------------------------------------------
(* All groups together implement the abstract cycles.                           *)
Producible(a, c) == a \in BG /\ c \in Cycle /\ c < next_cycle[a]
Holds(n, a, c) == c \in storage[n] \/ a \in status[n][c].slots["RESULT"]

(* Nothing is learnt that was not produced, and nothing is learnt twice.        *)
Gains(n, a, c) ==
    /\ Producible(a, c) /\ ~Holds(n, a, c)
    /\ \A m \in Node, b \in BG, d \in Cycle :
          Holds(m, b, d)' <=> Holds(m, b, d) \/ (m = n /\ b = a /\ d = c)
GainsNothing == \A m \in Node, b \in BG, d \in Cycle : Holds(m, b, d)' <=> Holds(m, b, d)

Finishes(n, c) ==
    /\ c \in Cycle /\ c \notin storage[n]
    /\ \A b \in BG : Holds(n, b, c)'
    /\ storage' = [storage EXCEPT ![n] = @ \union {c}]

AbstractStep(n) ==
    /\ GainsNothing \/ \E a, c : Gains(n, a, c)
    /\ storage' = storage \/ \E c : Finishes(n, c)
    /\ next_cycle' = next_cycle \/ SendBatch(n[1])

(* Sending out a batch produces the result of its cycle.                      *)
LEMMA BatchProduces ==
    ASSUME LogTypes, NEW b \in BG, SendBatch(b)
    PROVE  Abstract!Produce(b)
  <1> DEFINE produced == {r \in BG \X Cycle : r[2] < next_cycle[r[1]]}
             c == next_cycle[b]
  <1>1. c \in Cycle
    BY BatchEntry
  <1>2. next_cycle' = [next_cycle EXCEPT ![b] = c + 1] /\ c \in Nat
    BY <1>1 DEF SendBatch, LogTypes, Cycle
  <1>3. <<b, c>> \notin produced
    BY <1>2
  <1>4. ASSUME NEW d \in 1..(c - 1) PROVE <<b, d>> \in produced
    <2>1. d \in Cycle /\ d < next_cycle[b]
      BY <1>1, MaxCycleBound DEF Cycle
    <2> QED
      BY <2>1
  <1>5. produced' = produced \union {<<b, c>>}
    <2>1. ASSUME NEW r \in BG \X Cycle
          PROVE  r[2] < next_cycle'[r[1]] <=> r[2] < next_cycle[r[1]] \/ r = <<b, c>>
      <3>1. r = <<r[1], r[2]>> /\ r[1] \in BG /\ r[2] \in Nat
        BY DEF Cycle
      <3>2. CASE r[1] = b
        <4>1. next_cycle'[r[1]] = c + 1
          BY <1>2, <3>2 DEF LogTypes
        <4> QED
          BY <1>2, <3>1, <3>2, <4>1
      <3>3. CASE r[1] # b
        BY <1>2, <3>1, <3>3 DEF LogTypes
      <3> QED
        BY <3>2, <3>3
    <2>2. <<b, c>> \in BG \X Cycle
      BY <1>1
    <2> QED
      BY <2>1, <2>2
  <1> QED
    BY <1>1, <1>3, <1>4, <1>5 DEF Abstract!Produce, Abstract!Cycle, Cycle

(* A step that gains one result, finishes one cycle or produces is one of     *)
(* Cycles.                                                                    *)
LEMMA AbstractStepMaps ==
    ASSUME LogTypes, StatusTypes, StatusTypes', NEW n \in Node, AbstractStep(n)
    PROVE  [Abstract!Next]_(Abstract!vars)
  <1> DEFINE produced == {r \in BG \X Cycle : r[2] < next_cycle[r[1]]}
             held == [m \in Node |-> {r \in BG \X Cycle :
                         r[2] \in storage[m] \/ r[1] \in status[m][r[2]].slots["RESULT"]}]
  <1>1. /\ \A m \in Node, b \in BG, d \in Cycle : <<b, d>> \in held[m] <=> Holds(m, b, d)
        /\ \A m \in Node, b \in BG, d \in Cycle : <<b, d>> \in held'[m] <=> Holds(m, b, d)'
        /\ \A m \in Node : held[m] \subseteq BG \X Cycle /\ held'[m] \subseteq BG \X Cycle
        /\ DOMAIN held = Node /\ DOMAIN held' = Node
        /\ held = [m \in Node |-> held[m]] /\ held' = [m \in Node |-> held'[m]]
    BY DEF Holds
  <1>2. \A b \in BG, d \in Cycle : <<b, d>> \in produced <=> Producible(b, d)
    BY DEF Producible
  <1>3. n[1] \in BG
    BY Groups
  <1>4. UNCHANGED produced \/ Abstract!Produce(n[1])
    BY <1>3, BatchProduces DEF AbstractStep
  <1>5. UNCHANGED held \/ Abstract!Learn(n)
    <2>1. CASE GainsNothing
      <3>1. \A m \in Node : held'[m] = held[m]
        BY <1>1, <2>1 DEF GainsNothing
      <3> HIDE DEF held
      <3> QED
        BY <1>1, <3>1
    <2>2. ASSUME NEW a, NEW c, Gains(n, a, c) PROVE Abstract!Learn(n)
      <3>1. a \in BG /\ c \in Cycle
        BY <2>2 DEF Gains, Producible
      <3>2. <<a, c>> \in produced \ held[n]
        BY <1>1, <1>2, <2>2, <3>1 DEF Gains
      <3>3. \A m \in Node : held'[m] = IF m = n THEN held[m] \union {<<a, c>>} ELSE held[m]
        <4> SUFFICES ASSUME NEW m \in Node
                     PROVE  held'[m] = IF m = n THEN held[m] \union {<<a, c>>} ELSE held[m]
          OBVIOUS
        <4>1. \A b \in BG, d \in Cycle : <<b, d>> \in held'[m] <=> <<b, d>> \in held[m] \/ (m = n /\ <<b, d>> = <<a, c>>)
          <5> HIDE DEF held
          <5>1. \A b \in BG, d \in Cycle : Holds(m, b, d)' <=> Holds(m, b, d) \/ (m = n /\ b = a /\ d = c)
            BY <2>2 DEF Gains
          <5> QED
            BY <1>1, <5>1
        <4>2. held[m] \subseteq BG \X Cycle /\ held'[m] \subseteq BG \X Cycle /\ <<a, c>> \in BG \X Cycle
          BY <1>1, <3>1
        <4>3. \A r \in BG \X Cycle : r \in held'[m] <=> r \in held[m] \/ (m = n /\ r = <<a, c>>)
          <5> HIDE DEF held
          <5> SUFFICES ASSUME NEW b \in BG, NEW d \in Cycle
                       PROVE  <<b, d>> \in held'[m] <=> <<b, d>> \in held[m] \/ (m = n /\ <<b, d>> = <<a, c>>)
            OBVIOUS
          <5> QED
            BY <4>1
        <4> HIDE DEF held
        <4>4. CASE m = n
          BY <4>2, <4>3, <4>4
        <4>5. CASE m # n
          BY <4>2, <4>3, <4>5
        <4> QED
          BY <4>4, <4>5
      <3>4. held' = [held EXCEPT ![n] = @ \union {<<a, c>>}]
        <4> HIDE DEF held
        <4> QED
          BY <1>1, <3>3
      <3> QED
        BY <3>2, <3>4 DEF Abstract!Learn
    <2> QED
      BY <2>1, <2>2 DEF AbstractStep
  <1>6. UNCHANGED storage \/ Abstract!Finish(n)
    <2>1. ASSUME NEW c, Finishes(n, c) PROVE Abstract!Finish(n)
      <3>1. c \in Cycle \ storage[n] /\ storage' = [storage EXCEPT ![n] = @ \union {c}]
        BY <2>1 DEF Finishes
      <3>2. BG \X {c} \subseteq held'[n]
        <4>1. \A b \in BG : <<b, c>> \in held'[n]
          BY <1>1, <2>1, <3>1 DEF Finishes
        <4> HIDE DEF held
        <4> QED
          BY <4>1
      <3> QED
        BY <3>1, <3>2 DEF Abstract!Finish, Abstract!Cycle, Cycle
    <2> QED
      BY <2>1 DEF AbstractStep
  <1>7. n \in Abstract!Node
    BY DEF Abstract!Node, Node, SL
  <1> QED
    BY <1>4, <1>5, <1>6, <1>7 DEF Abstract!Next

(* Where the slots of results and the storage stay, nothing is gained.        *)
LEMMA SameResults ==
    ASSUME storage' = storage,
           \A n \in Node, c \in Cycle : status'[n][c].slots["RESULT"] = status[n][c].slots["RESULT"]
    PROVE  GainsNothing
  BY DEF GainsNothing, Holds

(* An update of one status changes what is held for that cycle at that SL     *)
(* only.                                                                      *)
LEMMA OtherResults ==
    ASSUME StatusTypes, NEW n \in Node, NEW c \in Cycle, NEW st, status' = [status EXCEPT ![n][c] = st],
           storage' = storage \/ storage' = [storage EXCEPT ![n] = @ \union {c}]
    PROVE  /\ status'[n][c] = st
           /\ \A m \in Node, d \in Cycle : \A b : (m # n \/ d # c) => (Holds(m, b, d)' <=> Holds(m, b, d))
  <1>1. /\ status'[n][c] = st
        /\ \A m \in Node, d \in Cycle : (m # n \/ d # c) => status'[m][d] = status[m][d]
    BY DEF StatusTypes
  <1>2. \A m \in Node, d \in Cycle : (m # n \/ d # c) => (d \in storage'[m] <=> d \in storage[m])
    BY DEF StatusTypes
  <1> QED
    BY <1>1, <1>2 DEF Holds

(* The commit of a batch gains the group's own result.                        *)
LEMMA CommitFromClientGains ==
    ASSUME IInv, NEW n \in Node, CanCommit(n), NEW e, e = NextEntry(n), CommitFromClient(n, e)
    PROVE  Gains(n, n[1], e.cycle) /\ storage' = storage
  <1> DEFINE b == n[1]
             c == e.cycle
  <1>1. LogTypes /\ StatusTypes /\ b \in BG /\ \A a \in BG : LogOK(a)
    BY Parts, Groups
  <1>2. e \in Entry /\ c \in Cycle /\ InLog(b, e.requestType, c, e.origin)
    BY <1>1, NextIsNew DEF Entry
  <1>3. StageOK(n, c) /\ e.requestType = FROM_CLIENT
    BY <1>2, Parts DEF CommitFromClient
  <1>4. status[n][c] = Unknown /\ c \notin storage[n]
    BY <1>1, <1>3, StageBefore DEF StageOK
  <1>5. Producible(b, c)
    <2>1. InLog(b, FROM_CLIENT, c, b)
      BY <1>2, <1>3 DEF InLog, Before, Is, FROM_CLIENT, FETCHED_RESULT
    <2> QED
      BY <1>1, <1>2, <2>1 DEF LogOK, NoRepetition, Producible
  <1>6. PICK st : st = [Unknown EXCEPT !.state = "REPLICATED_RESULTS", !.slots["RESULT"] = {b}, !.envoy = e.envoy]
    OBVIOUS
  <1>7. status' = [status EXCEPT ![n][c] = st] /\ storage' = storage
    BY <1>6 DEF CommitFromClient, SetStatus
  <1>8. /\ status'[n][c] = st
        /\ \A m \in Node, d \in Cycle : \A a : (m # n \/ d # c) => (Holds(m, a, d)' <=> Holds(m, a, d))
    BY <1>1, <1>2, <1>7, OtherResults
  <1>9. st.slots["RESULT"] = {b} /\ status[n][c].slots["RESULT"] = {}
    BY <1>4, <1>6 DEF Unknown, Kind
  <1>10. \A a : ~Holds(n, a, c) /\ (Holds(n, a, c)' <=> a = b)
    BY <1>4, <1>7, <1>8, <1>9 DEF Holds
  <1> QED
    BY <1>5, <1>7, <1>8, <1>10 DEF Gains

(* The commit of a fetched result gains the result of its origin.             *)
LEMMA CommitFetchedResultGains ==
    ASSUME IInv, NEW n \in Node, CanCommit(n), NEW e, e = NextEntry(n), CommitFetchedResult(n, e)
    PROVE  Gains(n, e.origin, e.cycle) /\ storage' = storage
  <1> DEFINE b == n[1]
             c == e.cycle
             o == e.origin
  <1>1. PICK s : s = status[n][c]
    OBVIOUS
  <1>2. PICK st : st = Fetched(s, o)
    OBVIOUS
  <1>3. /\ e.requestType = FETCHED_RESULT /\ s.state = "REPLICATED_RESULTS"
        /\ o \notin s.slots["RESULT"]
        /\ status' = [status EXCEPT ![n][c] = st] /\ storage' = storage
    BY <1>1, <1>2 DEF CommitFetchedResult, SetStatus, Fetched
  <1>4. LogTypes /\ StatusTypes /\ b \in BG /\ \A a \in BG : LogOK(a)
    BY Parts, Groups
  <1>5. e \in Entry /\ c \in Cycle /\ o \in Remote(b) /\ o \in BG /\ InLog(b, FETCHED_RESULT, c, o)
    BY <1>1, <1>3, <1>4, LastResultIsLast, NextIsNew DEF Remote
  <1>6. Producible(o, c)
    <2>1. Have(b, o, "RESULT", c) /\ "RESULT" \in Kind
      BY <1>5 DEF Have, Planned, Kind
    <2>2. HaveOK(b, o, "RESULT", c)
      BY <1>4, <1>5, <2>1, Parts
    <2>3. PICK r \in SL : Has(<<o, r>>, FROM_CLIENT, c, o)
      BY <2>1, <2>2 DEF HaveOK, AskType, Some
    <2>4. InLog(o, FROM_CLIENT, c, o)
      <3>1. <<o, r>> \in Node /\ <<o, r>>[1] = o
        BY <1>5, Groups
      <3> QED
        BY <1>4, <2>3, <3>1, HasIsPlanned
    <2> QED
      BY <1>4, <1>5, <2>4 DEF LogOK, NoRepetition, Producible
  <1>7. StageOK(n, c) /\ s \in Status
    BY <1>1, <1>4, <1>5, Parts DEF StatusTypes
  <1>8. c \notin storage[n]
    BY <1>1, <1>3, <1>7 DEF StageOK, StateOf
  <1>9. st.slots["RESULT"] = s.slots["RESULT"] \union {o}
    <2>1. st.slots = [s.slots EXCEPT !["RESULT"] = @ \union {o}]
      BY <1>2, <1>7 DEF Fetched, Status
    <2>2. s.slots \in [Kind -> SUBSET BG] /\ "RESULT" \in Kind
      BY <1>7 DEF Status, Kind
    <2> QED
      BY <2>1, <2>2
  <1>10. /\ status'[n][c] = st
         /\ \A m \in Node, d \in Cycle : \A a : (m # n \/ d # c) => (Holds(m, a, d)' <=> Holds(m, a, d))
    BY <1>3, <1>4, <1>5, OtherResults
  <1>11. ~Holds(n, o, c) /\ \A a : Holds(n, a, c)' <=> Holds(n, a, c) \/ a = o
    BY <1>1, <1>3, <1>8, <1>9, <1>10 DEF Holds
  <1> QED
    BY <1>3, <1>6, <1>10, <1>11 DEF Gains

(* The commit of the connectivity or of the membership gains nothing.         *)
LEMMA CommitLocalGains ==
    ASSUME IInv, NEW n \in Node, CanCommit(n), NEW t, NEW kind \in Kind \ {"RESULT"}, NEW state,
           CommitLocal(n, NextEntry(n), t, kind, state)
    PROVE  GainsNothing /\ storage' = storage
  <1>1. PICK c : c = NextEntry(n).cycle
    OBVIOUS
  <1>2. PICK s : s = status[n][c]
    OBVIOUS
  <1>3. PICK st : st = Entered(s, state, kind, n[1])
    OBVIOUS
  <1>4. status' = [status EXCEPT ![n][c] = st] /\ storage' = storage
    BY <1>1, <1>2, <1>3 DEF CommitLocal, SetStatus, Entered
  <1>5. LogTypes /\ StatusTypes /\ \A a \in BG : LogOK(a)
    BY Parts
  <1>6. c \in Cycle
    BY <1>1, <1>5, NextIsNew DEF Entry
  <1>7. s \in Status
    BY <1>2, <1>5, <1>6 DEF StatusTypes
  <1>8. st.slots["RESULT"] = s.slots["RESULT"]
    <2>1. st.slots = [s.slots EXCEPT ![kind] = @ \union {n[1]}]
      BY <1>3, <1>7 DEF Entered, Status
    <2>2. s.slots \in [Kind -> SUBSET BG] /\ "RESULT" \in Kind /\ kind # "RESULT"
      BY <1>7 DEF Status, Kind
    <2> QED
      BY <2>1, <2>2
  <1>9. /\ status'[n][c] = st
        /\ \A m \in Node, d \in Cycle : \A a : (m # n \/ d # c) => (Holds(m, a, d)' <=> Holds(m, a, d))
    BY <1>4, <1>5, <1>6, OtherResults
  <1>10. \A a : Holds(n, a, c)' <=> Holds(n, a, c)
    BY <1>2, <1>4, <1>8, <1>9 DEF Holds
  <1> QED
    BY <1>4, <1>9, <1>10 DEF GainsNothing

(* The commit of the full membership finishes the cycle.                      *)
LEMMA CommitFullMembershipFinishes ==
    ASSUME IInv, NEW n \in Node, CanCommit(n), NEW e, e = NextEntry(n), CommitFullMembership(n, e)
    PROVE  GainsNothing /\ Finishes(n, e.cycle)
  <1> DEFINE b == n[1]
             c == e.cycle
  <1>1. /\ e.requestType = FULL_MEMBERSHIP /\ status' = [status EXCEPT ![n][c] = Unknown]
        /\ storage' = [storage EXCEPT ![n] = @ \union {c}]
    BY DEF CommitFullMembership, SetStatus
  <1>2. LogTypes /\ StatusTypes /\ b \in BG /\ \A a \in BG : LogOK(a)
    BY Parts, Groups
  <1>3. e \in Entry /\ c \in Cycle
    BY <1>2, NextIsNew DEF Entry
  <1>4. StageOK(n, c)
    BY <1>3, Parts
  <1>5. StateOf(n, c) = "REPLICATED_MEMBERSHIP"
    BY <1>1, <1>2, StageBefore, Stages DEF FROM_CLIENT, FULL_MEMBERSHIP
  <1>6. /\ c \notin storage[n] /\ SlotsOK(n, c) /\ Has(n, LOCAL_MEMBERSHIP, c, b)
    BY <1>4, <1>5 DEF StageOK, StateOf
  <1>7. \A o \in Remote(b) : Has(n, FETCHED_RESULT, c, o)
    BY <1>2, <1>6, Chain
  <1>8. status[n][c].slots["RESULT"] = BG
    BY <1>2, <1>6, <1>7 DEF SlotsOK, Remote
  <1>9. \A m \in Node, d \in Cycle : \A a : (m # n \/ d # c) => (Holds(m, a, d)' <=> Holds(m, a, d))
    BY <1>1, <1>2, <1>3, OtherResults
  <1>10. c \in storage'[n]
    BY <1>1, <1>2 DEF StatusTypes
  <1>11. \A a \in BG : Holds(n, a, c)' /\ Holds(n, a, c)
    BY <1>8, <1>10 DEF Holds
  <1> QED
    BY <1>1, <1>3, <1>6, <1>9, <1>11 DEF GainsNothing, Finishes

(* A commit is a step of Cycles.                                              *)
LEMMA CommitIsAbstract ==
    ASSUME IInv, NEW n \in Node, Commit(n)
    PROVE  AbstractStep(n)
  <1>1. CanCommit(n) /\ GroupMove(n[1])
    BY CommitMoves DEF Commit
  <1>2. CASE CommitFromClient(n, NextEntry(n))
    BY <1>1, <1>2, CommitFromClientGains DEF AbstractStep, GroupMove
  <1>3. CASE CommitFetchedResult(n, NextEntry(n))
    BY <1>1, <1>3, CommitFetchedResultGains DEF AbstractStep, GroupMove
  <1>4. CASE CommitLocalConnectivity(n, NextEntry(n))
    <2>1. "CONNECTIVITY" \in Kind \ {"RESULT"}
      BY DEF Kind
    <2>2. GainsNothing /\ storage' = storage
      BY <1>1, <1>4, <2>1, CommitLocalGains DEF CommitLocalConnectivity
    <2> QED
      BY <1>1, <2>2 DEF AbstractStep, GroupMove
  <1>5. CASE CommitLocalMembership(n, NextEntry(n))
    <2>1. "MEMBERSHIP" \in Kind \ {"RESULT"}
      BY DEF Kind
    <2>2. GainsNothing /\ storage' = storage
      BY <1>1, <1>5, <2>1, CommitLocalGains DEF CommitLocalMembership
    <2> QED
      BY <1>1, <2>2 DEF AbstractStep, GroupMove
  <1>6. CASE CommitFullMembership(n, NextEntry(n))
    BY <1>1, <1>6, CommitFullMembershipFinishes DEF AbstractStep, GroupMove
  <1> QED
    BY <1>2, <1>3, <1>4, <1>5, <1>6 DEF Commit, NextEntry

(* Counting an answer gains no result.                                        *)
LEMMA AnswerGainsNothing ==
    ASSUME IInv, NEW m \in net, m.type = "RESPONSE", m.kind # "RESULT", storage' = storage,
           SetStatus(m.to, m.cycle, Counted(m, status[m.to][m.cycle]))
    PROVE  GainsNothing
  <1>1. m.to \in Node /\ m.cycle \in Cycle /\ m.kind \in Kind /\ StatusTypes
    BY Parts, FlightMembers DEF Response
  <1>2. PICK s : s = status[m.to][m.cycle]
    OBVIOUS
  <1>3. PICK st : st = Counted(m, s)
    OBVIOUS
  <1>4. s \in Status
    BY <1>1, <1>2 DEF StatusTypes
  <1>5. st.slots["RESULT"] = s.slots["RESULT"]
    <2>1. st.slots = [s.slots EXCEPT ![m.kind] = @ \union {m.bg}]
      BY <1>3, <1>4 DEF Counted, Status
    <2>2. s.slots \in [Kind -> SUBSET BG] /\ "RESULT" \in Kind
      BY <1>4 DEF Status, Kind
    <2> QED
      BY <2>1, <2>2
  <1>6. status' = [status EXCEPT ![m.to][m.cycle] = st]
    BY <1>2, <1>3 DEF SetStatus
  <1>7. /\ status'[m.to][m.cycle] = st
        /\ \A n \in Node, d \in Cycle : \A a : (n # m.to \/ d # m.cycle) => (Holds(n, a, d)' <=> Holds(n, a, d))
    BY <1>1, <1>6, OtherResults
  <1>8. \A a : Holds(m.to, a, m.cycle)' <=> Holds(m.to, a, m.cycle)
    BY <1>2, <1>5, <1>7 DEF Holds
  <1> QED
    BY <1>7, <1>8 DEF GainsNothing

(* Every step is one of Cycles or a stutter.                                  *)
LEMMA NextIsAbstract ==
    ASSUME IInv, [Next]_vars
    PROVE  \E n \in Node : AbstractStep(n)
  <1>1. CASE \E n \in Node : Commit(n)
    BY <1>1, CommitIsAbstract
  <1>2. CASE storage' = storage /\ GainsNothing
    <2>1. PICK b \in BG : GroupMove(b)
      BY NextMoves
    <2>2. Leader(b) \in Node /\ Leader(b)[1] = b
      BY Groups
    <2> QED
      BY <1>2, <2>1, <2>2 DEF AbstractStep, GroupMove
  <1>3. CASE UNCHANGED <<status, storage>>
    BY <1>2, <1>3, SameResults
  <1>4. ASSUME NEW m \in net, HandleConnectivityResponse(m) \/ HandleMembershipResponse(m)
        PROVE  storage' = storage /\ GainsNothing
    <2>1. /\ m.type = "RESPONSE" /\ m.kind # "RESULT" /\ storage' = storage
          /\ SetStatus(m.to, m.cycle, Counted(m, status[m.to][m.cycle]))
      BY <1>4 DEF HandleConnectivityResponse, HandleMembershipResponse, ForLeader
    <2> QED
      BY <2>1, AnswerGainsNothing
  <1>5. CASE \E m \in net : Handle(m)
    BY <1>2, <1>3, <1>4, <1>5 DEF Handle, HandleRequest, ForwardResponse, HandleFetchResponse
  <1> QED
    BY <1>1, <1>3, <1>5 DEF Next, vars, ReceiveBatch

(* Round 3 keeps the promise of a cycle: a group's result is applied by an SL   *)
(* only after the group proposed it, and only once, and an SL finishes a cycle  *)
(* once, with the results of all groups.                                        *)
THEOREM CyclesImplemented == Spec => ImplementsCycles
  <1>1. Init => Abstract!Init
    <2> SUFFICES ASSUME Init PROVE Abstract!Init
      OBVIOUS
    <2>1. {r \in BG \X Cycle : r[2] < next_cycle[r[1]]} = {}
      BY DEF Init, Cycle
    <2>2. \A n \in Node : {r \in BG \X Cycle : r[2] \in storage[n] \/ r[1] \in status[n][r[2]].slots["RESULT"]} = {}
      BY DEF Init, Unknown, Kind
    <2> QED
      BY <2>1, <2>2 DEF Init, Abstract!Init, Abstract!Node, Node, SL
  <1>2. IInv /\ IInv' /\ [Next]_vars => [Abstract!Next]_(Abstract!vars)
    <2> SUFFICES ASSUME IInv, IInv', [Next]_vars PROVE [Abstract!Next]_(Abstract!vars)
      OBVIOUS
    <2>1. LogTypes /\ StatusTypes
      BY Parts
    <2>2. StatusTypes'
      BY DEF IInv, TypeOK, StatusTypes
    <2> QED
      BY <2>1, <2>2, NextIsAbstract, AbstractStepMaps
  <1> QED
    BY <1>1, <1>2, SpecIInv, PTL DEF Spec, ImplementsCycles, Abstract!Spec

-----------------------------------------------------------------------------
(* The round robin of envoys, for a group of 3f + 1 SLs with 2f + 1 envoys:   *)
(* after three batches the next SL is the first envoy.                        *)
LEMMA ThreeBatches ==
    ASSUME NEW f \in Nat, NumSL = 3 * f + 1, NumEnvoys = 2 * f + 1, NEW rr \in SL
    PROVE  NextEnvoy(NextEnvoy(NextEnvoy(rr))) = (rr + 1) % NumSL
  <1>1. \A x \in SL : NextEnvoy(x) = IF x + (2 * f + 1) < 3 * f + 1 THEN x + (2 * f + 1) ELSE x - f
    <2> SUFFICES ASSUME NEW x \in SL
                 PROVE  NextEnvoy(x) = IF x + (2 * f + 1) < 3 * f + 1 THEN x + (2 * f + 1) ELSE x - f
      OBVIOUS
    <2> DEFINE n == 3 * f + 1
               y == x + (2 * f + 1)
    <2>1. NextEnvoy(x) = y % n /\ y \in 0..(2 * n - 1) /\ n \in Nat \ {0}
      BY DEF NextEnvoy, SL
    <2> HIDE DEF y, n
    <2>2. y % n = IF y < n THEN y ELSE y - n
      BY <2>1
    <2>3. x \in Nat
      BY DEF SL
    <2> QED
      BY <2>1, <2>2, <2>3 DEF y, n
  <1>2. \A x \in SL : NextEnvoy(x) \in SL
    BY <1>1 DEF SL
  <1>3. (rr + 1) % NumSL = IF rr = 3 * f THEN 0 ELSE rr + 1
    <2> DEFINE n == 3 * f + 1
    <2>1. n \in Nat \ {0} /\ rr \in 0..(n - 1) /\ NumSL = n
      BY DEF SL
    <2> HIDE DEF n
    <2>2. (rr + 1) % n = IF rr = n - 1 THEN 0 ELSE rr + 1
      BY <2>1
    <2> QED
      BY <2>1, <2>2 DEF n
  <1> DEFINE r1 == NextEnvoy(rr)
             r2 == NextEnvoy(r1)
             r3 == NextEnvoy(r2)
  <1>4. /\ r1 \in SL /\ r2 \in SL
        /\ r1 = IF rr + (2 * f + 1) < 3 * f + 1 THEN rr + (2 * f + 1) ELSE rr - f
        /\ r2 = IF r1 + (2 * f + 1) < 3 * f + 1 THEN r1 + (2 * f + 1) ELSE r1 - f
        /\ r3 = IF r2 + (2 * f + 1) < 3 * f + 1 THEN r2 + (2 * f + 1) ELSE r2 - f
    BY <1>1, <1>2
  <1> HIDE DEF r1, r2, r3
  <1>5. r3 = IF rr = 3 * f THEN 0 ELSE rr + 1
    BY <1>4 DEF SL
  <1> QED
    BY <1>3, <1>5 DEF r1, r2, r3

(* ConnManager.cpp:709: with 2f + 1 envoys the round robin goes through all   *)
(* 3f + 1 SLs of a group: the first envoys it takes, from any SL on, are not   *)
(* a part of them.                                                            *)
THEOREM EveryoneIsFirstEnvoy ==
    ASSUME NEW f \in Nat, NumSL = 3 * f + 1, NumEnvoys = 2 * f + 1,
           NEW Taken \in SUBSET SL, Taken # {}, \A rr \in Taken : NextEnvoy(rr) \in Taken
    PROVE  Taken = SL
  <1>1. PICK first \in Taken : TRUE
    OBVIOUS
  <1>2. NumSL \in Nat \ {0} /\ first \in Nat
    BY SizeAssumption DEF SL
  <1>3. \A rr \in Taken : (rr + 1) % NumSL \in Taken
    BY ThreeBatches
  <1> DEFINE Missed == {k \in Nat : (first + k) % NumSL \notin Taken}
  <1>4. Missed = {}
    <2> SUFFICES ASSUME Missed # {} PROVE FALSE
      OBVIOUS
    <2>1. PICK k \in Missed : \A j \in Missed : ~(<<j, k>> \in OpToRel(<, Nat))
      <3>1. Missed \subseteq Nat
        OBVIOUS
      <3> QED
        BY <3>1, NatLessThanWellFounded, WFMin
    <2>2. k \in Nat /\ \A j \in Nat : j < k => (first + j) % NumSL \in Taken
      BY <2>1 DEF OpToRel
    <2>3. k # 0
      <3>1. (first + 0) % NumSL = first
        BY <1>2 DEF SL
      <3>2. 0 \notin Missed
        BY <1>1, <3>1
      <3> QED
        BY <2>1, <3>2
    <2>4. (first + (k - 1)) % NumSL \in Taken
      BY <2>2, <2>3
    <2>5. (((first + (k - 1)) % NumSL) + 1) % NumSL = (first + k) % NumSL
      <3> DEFINE x == first + (k - 1)
      <3>1. x \in Nat /\ first + k = x + 1
        BY <1>2, <2>2, <2>3
      <3> HIDE DEF x
      <3>2. ((x % NumSL) + 1) % NumSL = (x + 1) % NumSL
        BY <1>2, <3>1, SMTT(60)
      <3> QED
        BY <3>1, <3>2 DEF x
    <2> QED
      BY <1>3, <2>1, <2>4, <2>5
  <1>5. ASSUME NEW s \in SL PROVE s \in Taken
    <2> DEFINE k == NumSL - first + s
    <2>1. k \in Nat /\ first + k = s + NumSL
      BY <1>2 DEF SL
    <2>2. (s + NumSL) % NumSL = s
      BY <1>2 DEF SL
    <2> QED
      BY <1>4, <2>1, <2>2
  <1> QED
    BY <1>5

==============================================================================
