------------------------- MODULE Round3BaselineProofs -------------------------
(* Proofs about Round3Baseline, for any number of groups, SLs and batches:    *)
(* the invariants, and that it implements the abstract Cycles.                *)
EXTENDS Round3Baseline, FiniteSetTheorems, WellFoundedInduction, TLAPS

FROM_CLIENT == Original!FROM_CLIENT
SL == Original!SL
Entry == Original!Entry

-----------------------------------------------------------------------------
(* The invariant.                                                             *)

(* The batch of a cycle is in the log once, and never in the leader's queue.  *)
LogOK ==
    /\ \A n \in Node : applied[n] <= Len(log[n[1]])
    /\ \A b \in BG : \A i \in 1..Len(log[b]) :
          log[b][i].requestType = FROM_CLIENT =>
              /\ log[b][i].cycle < next_cycle[b]
              /\ \A j \in 1..Len(log[b]) :
                    log[b][j].requestType = FROM_CLIENT /\ log[b][j].cycle = log[b][i].cycle => j = i
    /\ \A b \in BG : \A e \in pending[b] : e.requestType # FROM_CLIENT

(* SL n has applied the batch of cycle c.                                     *)
Begun(n, c) ==
    \E i \in 1..applied[n] : log[n[1]][i].requestType = FROM_CLIENT /\ log[n[1]][i].cycle = c

St(n, c) == status[n][c].state

(* A cycle is unknown before its batch and after its end, and leaves its      *)
(* first stage when all groups have answered.                                 *)
StageOK(n, c) ==
    /\ ~Begun(n, c) => St(n, c) = "NONE" /\ c \notin storage[n]
    /\ c \in storage[n] => St(n, c) = "NONE"
    /\ St(n, c) = "NONE" => status[n][c].answered = {}
    /\ St(n, c) \notin {"NONE", "REPLICATED_RESULTS"} => status[n][c].answered = BG

Stages == \A n \in Node, c \in Cycle : StageOK(n, c)

(* What is under way between an SL and a group it has asked: a request, a     *)
(* request that is kept, a response.                                          *)
Kept(n, w) == [type |-> "KEPT", kind |-> w[1], cycle |-> w[2], from |-> w[3], to |-> n]
Flights == {m \in net : m.type \in {"REQUEST", "RESPONSE"}}
           \union UNION {{Kept(n, w) : w \in waiting[n]} : n \in Node}

Asker(x) == IF x.type = "RESPONSE" THEN x.to ELSE x.from
Asked(x) == IF x.type = "RESPONSE" THEN x.bg ELSE x.to[1]

(* The asker is in its first stage, without the answer; an answered cycle has *)
(* been proposed.                                                             *)
FlightOK(x) ==
    /\ St(Asker(x), x.cycle) = "REPLICATED_RESULTS"
    /\ Asked(x) \notin status[Asker(x)][x.cycle].answered
    /\ x.type = "RESPONSE" => x.cycle < next_cycle[x.bg]

FlightsOK == \A x \in Flights : FlightOK(x)

SameQuestion(x, y) == Asker(x) = Asker(y) /\ Asked(x) = Asked(y) /\ x.cycle = y.cycle

AskedOnce == \A x, y \in Flights : SameQuestion(x, y) => x = y

(* The agreement between the leaders.                                         *)
VoteStates == {"PREPREPARE_BASELINE", "PARTIALCOMMITS_BASELINE", "FULLCOMMIT_BASELINE"}

Sent(c) ==
    \/ St(Leader(GlobalBG), c) \in VoteStates
    \/ c \in storage[Leader(GlobalBG)]
Done(b, c) == St(Leader(b), c) = "FULLCOMMIT_BASELINE" \/ c \in storage[Leader(b)]
Voted(b, c) == St(Leader(b), c) = "PARTIALCOMMITS_BASELINE" \/ Done(b, c)
AllDone(c) == \A b \in BG : Done(b, c)

Vote(b, c, col) ==
    [type |-> "PARTIAL_COMMIT_BASELINE", cycle |-> c, bg |-> b, to |-> Leader(col)]

(* Whose vote the collector has taken.                                        *)
Counted(c, col) == {b \in BG : Voted(b, c) /\ Vote(b, c, col) \notin net}

MessageOK(m, c, col) ==
    /\ m.type = "PREPREPARE_BASELINE" =>
          Sent(c) /\ m.collector = col /\ m.to = Leader(m.to[1]) /\ ~Voted(m.to[1], c)
    /\ m.type = "PARTIAL_COMMIT_BASELINE" => Voted(m.bg, c) /\ m.to = Leader(col)
    /\ m.type = "FULL_COMMIT_BASELINE" => m.to = Leader(m.to[1]) /\ AllDone(c)

(* col is the collector of cycle c: it alone counts, what it counts are the   *)
(* votes it has taken, and nobody finishes before it has them all.            *)
AgreementOn(c, col) ==
    /\ \A m \in net : m.cycle = c => MessageOK(m, c, col)
    /\ \A b \in BG : Voted(b, c) => Sent(c)
    /\ \A b \in BG : c \in storage[Leader(b)] => AllDone(c)
    /\ \A b \in BG : St(Leader(b), c) = "PARTIALCOMMITS_BASELINE" =>
          b = col /\ status[Leader(b)][c].counter = Cardinality(Counted(c, col))
    /\ ~Voted(col, c) => Counted(c, col) = {}

Agreement == \A c \in Cycle : \E col \in BG : AgreementOn(c, col)

IInv == TypeOK /\ LogOK /\ Stages /\ FlightsOK /\ AskedOnce /\ Agreement

-----------------------------------------------------------------------------
(* Constants, types and the log.                                              *)

(* A finite set of groups has one with the most batches.                      *)
LEMMA MostBatches == \E b \in BG : \A a \in BG : Batches[a] <= Batches[b]
  <1> DEFINE Without == {U \in SUBSET BG : U # {} /\ ~\E b \in U : \A a \in U : Batches[a] <= Batches[b]}
  <1> SUFFICES ASSUME Without # {} PROVE FALSE
    BY GlobalAssumption
  <1>1. FiniteSubsetsOf(BG) = SUBSET BG
    BY SizeAssumption, FS_FiniteSubsetsOfFinite
  <1>2. IsWellFoundedOn(StrictSubsetOrdering(BG), SUBSET BG)
    BY <1>1, FS_StrictSubsetOrderingWellFounded
  <1>3. PICK U \in Without : \A V \in Without : ~(<<V, U>> \in StrictSubsetOrdering(BG))
    <2> HIDE DEF Without
    <2>1. Without \subseteq SUBSET BG
      BY DEF Without
    <2> QED
      BY <1>2, <2>1, WFMin
  <1>4. PICK x \in U : TRUE
    OBVIOUS
  <1> DEFINE V == U \ {x}
  <1>5. <<V, U>> \in StrictSubsetOrdering(BG)
    BY DEF StrictSubsetOrdering
  <1>6. V \notin Without /\ V \in SUBSET BG
    BY <1>3, <1>5
  <1>7. \A b \in BG : Batches[b] \in Nat
    BY BatchesAssumption
  <1>8. CASE V = {}
    BY <1>7, <1>8
  <1>9. CASE V # {}
    <2>1. PICK m \in V : \A a \in V : Batches[a] <= Batches[m]
      BY <1>6, <1>9
    <2>2. CASE Batches[x] <= Batches[m]
      BY <2>1, <2>2
    <2>3. CASE Batches[m] < Batches[x]
      BY <1>7, <2>1, <2>3
    <2> QED
      BY <1>7, <2>2, <2>3
  <1> QED
    BY <1>8, <1>9

(* The last cycle is a number and bounds the batches of every group.          *)
LEMMA MaxCycleBound ==
    Original!MaxCycle \in Nat /\ \A b \in BG : Batches[b] <= Original!MaxCycle
  <1>1. \E c \in {Batches[b] : b \in BG} : \A b \in BG : Batches[b] <= c
    BY MostBatches
  <1>2. /\ Original!MaxCycle \in {Batches[b] : b \in BG}
        /\ \A b \in BG : Batches[b] <= Original!MaxCycle
    BY <1>1 DEF Original!MaxCycle
  <1> QED
    BY <1>2, BatchesAssumption

(* SL 0 leads, an SL is its group and its number.                             *)
LEMMA Groups ==
    /\ Node = BG \X SL /\ 0 \in SL /\ FirstEnvoy \in SL
    /\ \A rr \in SL : Original!NextEnvoy(rr) \in SL
    /\ \A b \in BG : Leader(b) = <<b, 0>> /\ Leader(b) \in Node /\ Leader(b)[1] = b
    /\ \A n \in Node : n[1] \in BG /\ n[2] \in SL
    /\ \A b \in BG : b \notin Original!Remote(b) /\ Original!Remote(b) = BG \ {b}
  <1>1. 0 \in SL /\ NumSL \in Nat \ {0} /\ NumEnvoys \in Nat /\ FirstEnvoy \in SL
    BY SizeAssumption, EnvoysAssumption DEF SL, Original!SL
  <1>2. \A x \in Int : x % NumSL \in SL
    BY <1>1 DEF SL, Original!SL
  <1>3. \A rr \in SL : Original!NextEnvoy(rr) \in SL
    BY <1>1, <1>2 DEF Original!NextEnvoy, SL, Original!SL
  <1> QED
    BY <1>1, <1>3 DEF Node, Leader, Original!Node, Original!Leader, Original!Remote, SL

(* The number of groups and the cycles.                                       *)
LEMMA Sizes ==
    /\ NumBG \in Nat /\ NumBG > 1 /\ NumBG = Cardinality(BG)
    /\ Cycle = 1..Original!MaxCycle /\ \A c \in Cycle : c \in Nat
  <1>1. Cardinality(BG) \in Nat /\ Cardinality(BG) > 1
    BY SizeAssumption, FS_CardinalityType
  <1>2. Original!MaxCycle \in Nat
    BY MaxCycleBound
  <1>3. \A c \in 1..Original!MaxCycle : c \in Nat
    BY <1>2
  <1>4. NumBG = Cardinality(BG)
    BY DEF NumBG
  <1>5. Cycle = 1..Original!MaxCycle
    BY DEF Cycle, Original!Cycle
  <1> QED
    BY <1>1, <1>3, <1>4, <1>5

(* What the leader's scheduler does to a group: nothing to the log, or one    *)
(* entry more, the next batch or an entry of another kind.                    *)
Appends(b) ==
    \E e \in Entry :
        /\ log' = [log EXCEPT ![b] = Append(@, e)]
        /\ \/ e.requestType # FROM_CLIENT /\ next_cycle' = next_cycle
           \/ /\ e.requestType = FROM_CLIENT /\ e.cycle = next_cycle[b]
              /\ next_cycle' = [next_cycle EXCEPT ![b] = @ + 1]

Grows(b) ==
    /\ (log' = log /\ next_cycle' = next_cycle) \/ Appends(b)
    /\ pending' \in [BG -> SUBSET Entry]
    /\ \A a \in BG : \A e \in pending'[a] : e.requestType # FROM_CLIENT
    /\ envoys_rr' \in [BG -> SL]

IsWork(work) == work \in SUBSET Entry /\ \A e \in work : e.requestType # FROM_CLIENT

(* A batch appends one entry to the log of its group.                         *)
LEMMA SendBatchAppends ==
    ASSUME TypeOK, NEW b \in BG, Original!SendBatch(b)
    PROVE  Appends(b) /\ envoys_rr' \in [BG -> SL]
  <1> DEFINE e == [requestType |-> FROM_CLIENT, cycle |-> next_cycle[b], origin |-> b,
                   envoy |-> envoys_rr[b]]
  <1>1. /\ next_cycle[b] <= Batches[b]
        /\ log' = [log EXCEPT ![b] = Append(@, e)]
        /\ next_cycle' = [next_cycle EXCEPT ![b] = @ + 1]
        /\ envoys_rr' = [envoys_rr EXCEPT ![b] = Original!NextEnvoy(@)]
    BY DEF Original!SendBatch, FROM_CLIENT
  <1>2. next_cycle[b] \in Original!Cycle
    <2>1. next_cycle[b] \in 1..(Original!MaxCycle + 1)
      BY DEF TypeOK
    <2>2. Batches[b] <= Original!MaxCycle /\ Batches[b] \in Nat /\ Original!MaxCycle \in Nat
      BY MaxCycleBound, BatchesAssumption
    <2> HIDE DEF e
    <2> QED
      BY <1>1, <2>1, <2>2 DEF Original!Cycle
  <1>3. FROM_CLIENT \in Original!RequestType
    BY DEF FROM_CLIENT, Original!RequestType
  <1>4. envoys_rr \in [BG -> SL]
    BY DEF TypeOK, SL
  <1>5. e \in Entry
    BY <1>2, <1>3, <1>4 DEF Entry, Original!Entry, SL
  <1>6. e.requestType = FROM_CLIENT /\ e.cycle = next_cycle[b]
    OBVIOUS
  <1> HIDE DEF e
  <1>7. Appends(b)
    BY <1>1, <1>5, <1>6 DEF Appends
  <1> QED
    BY <1>1, <1>4, <1>7, Groups

(* Starting an instance of Round 2 logs at most one entry.                    *)
LEMMA SpawnGrows ==
    ASSUME TypeOK, LogOK, NEW b \in BG, NEW work, IsWork(work), Original!SpawnRound2(b, work)
    PROVE  Grows(b)
  <1>1. /\ pending \in [BG -> SUBSET Entry] /\ envoys_rr \in [BG -> SL]
        /\ \A a \in BG : \A e \in pending[a] : e.requestType # FROM_CLIENT
    BY DEF TypeOK, LogOK, Entry, SL
  <1>2. CASE Original!SendPending(b, work)
    <2>1. PICK e \in Original!Top(work) :
            /\ log' = [log EXCEPT ![b] = Append(@, e)]
            /\ pending' = [pending EXCEPT ![b] = work \ {e}]
            /\ next_cycle' = next_cycle /\ envoys_rr' = envoys_rr
      BY <1>2 DEF Original!SendPending
    <2>2. e \in Entry /\ e.requestType # FROM_CLIENT
      BY <2>1 DEF Original!Top, IsWork
    <2> QED
      BY <1>1, <2>1, <2>2 DEF Grows, Appends, IsWork
  <1>3. CASE Original!SendBatch(b) /\ pending' = [pending EXCEPT ![b] = {}]
    BY <1>1, <1>3, SendBatchAppends DEF Grows
  <1>4. CASE pending' = [pending EXCEPT ![b] = {}] /\ UNCHANGED <<log, next_cycle, envoys_rr>>
    BY <1>1, <1>4 DEF Grows
  <1> QED
    BY <1>2, <1>3, <1>4 DEF Original!SpawnRound2

(* So does queueing work, which may start one.                                *)
LEMMA QueueGrows ==
    ASSUME TypeOK, LogOK, NEW b \in BG, NEW work, IsWork(work), Original!Queue(b, work)
    PROVE  Grows(b)
  <1>1. CASE Original!SpawnRound2(b, work)
    BY <1>1, SpawnGrows
  <1>2. CASE pending' = [pending EXCEPT ![b] = work] /\ UNCHANGED <<log, next_cycle, envoys_rr>>
    BY <1>2 DEF Grows, TypeOK, LogOK, Entry, SL, IsWork
  <1> QED
    BY <1>1, <1>2 DEF Original!Queue

(* No entry is logged when log and scheduler stay.                            *)
LEMMA IdleGrows ==
    ASSUME TypeOK, LogOK, UNCHANGED <<log, scheduler>>, NEW b \in BG
    PROVE  Grows(b)
  BY DEF Grows, TypeOK, LogOK, Entry, SL, scheduler

(* SL n applies the next entry of its group's log.                            *)
Advances(n) == Original!CanCommit(n) /\ applied' = [applied EXCEPT ![n] = @ + 1]

NextEntry(n) == log[n[1]][applied[n] + 1]

(* The end of a commit advances the SL and may log the next entry.            *)
LEMMA FinallyGrows ==
    ASSUME TypeOK, LogOK, NEW n \in Node, Original!CanCommit(n), Original!Finally(n, pending[n[1]])
    PROVE  Advances(n) /\ Grows(n[1])
  <1>1. n[1] \in BG
    BY Groups
  <1>2. PICK work : work = pending[n[1]]
    OBVIOUS
  <1>3. IsWork(work)
    BY <1>1, <1>2 DEF IsWork, TypeOK, LogOK, Entry
  <1>4. Original!SpawnRound2(n[1], work) \/ UNCHANGED <<log, scheduler>>
    BY <1>2 DEF Original!Finally, Original!scheduler, scheduler
  <1>5. Grows(n[1])
    BY <1>1, <1>3, <1>4, SpawnGrows, IdleGrows
  <1> QED
    BY <1>5 DEF Original!Finally, Advances

(* What a step does to the log, seen from the SLs.                            *)
LogStep == \E b \in BG : Grows(b) /\ (applied' = applied \/ \E n \in Node : Advances(n))

(* What a group keeps while it logs.                                          *)
LEMMA Growth ==
    ASSUME TypeOK, NEW b \in BG, Grows(b)
    PROVE  /\ log' \in [BG -> Seq(Entry)]
           /\ next_cycle' \in [BG -> 1..(Original!MaxCycle + 1)]
           /\ \A a \in BG : /\ Len(log[a]) <= Len(log'[a])
                            /\ \A i \in 1..Len(log[a]) : log'[a][i] = log[a][i]
                            /\ next_cycle[a] <= next_cycle'[a]
  <1>1. log \in [BG -> Seq(Entry)] /\ next_cycle \in [BG -> 1..(Original!MaxCycle + 1)]
        /\ Original!MaxCycle \in Nat
    BY MaxCycleBound DEF TypeOK, Entry
  <1>2. CASE log' = log /\ next_cycle' = next_cycle
    BY <1>1, <1>2
  <1>3. CASE Appends(b)
    <2>1. PICK e \in Entry :
            /\ log' = [log EXCEPT ![b] = Append(@, e)]
            /\ \/ next_cycle' = next_cycle
               \/ /\ e.cycle = next_cycle[b]
                  /\ next_cycle' = [next_cycle EXCEPT ![b] = @ + 1]
      BY <1>3 DEF Appends
    <2>2. e.cycle \in 1..Original!MaxCycle
      BY DEF Entry, Original!Entry, Original!Cycle
    <2>3. next_cycle' \in [BG -> 1..(Original!MaxCycle + 1)]
          /\ \A a \in BG : next_cycle[a] <= next_cycle'[a]
      <3>1. CASE next_cycle' = next_cycle
        BY <1>1, <3>1
      <3>2. CASE e.cycle = next_cycle[b] /\ next_cycle' = [next_cycle EXCEPT ![b] = @ + 1]
        <4>1. PICK c \in 1..Original!MaxCycle : c = e.cycle
          BY <2>2
        <4>2. next_cycle' = [next_cycle EXCEPT ![b] = c + 1] /\ next_cycle[b] = c
          BY <3>2, <4>1
        <4>3. c + 1 \in 1..(Original!MaxCycle + 1) /\ c <= c + 1
          BY <1>1
        <4>4. \A a \in BG : next_cycle'[a] = next_cycle[a] \/ (a = b /\ next_cycle'[a] = c + 1)
          BY <1>1, <4>2
        <4>5. \A a \in BG : next_cycle[a] \in Nat
          BY <1>1
        <4> QED
          BY <1>1, <4>2, <4>3, <4>4, <4>5
      <3> QED
        BY <2>1, <3>1, <3>2
    <2>4. log' \in [BG -> Seq(Entry)]
      BY <1>1, <2>1
    <2>5. ASSUME NEW a \in BG
          PROVE  /\ Len(log[a]) <= Len(log'[a])
                 /\ \A i \in 1..Len(log[a]) : log'[a][i] = log[a][i]
      BY <1>1, <2>1
    <2> QED
      BY <2>3, <2>4, <2>5
  <1> QED
    BY <1>2, <1>3 DEF Grows

(* The types of log and scheduler are kept.                                   *)
LEMMA LogTypes ==
    ASSUME TypeOK, LogStep
    PROVE  /\ log' \in [BG -> Seq(Entry)] /\ applied' \in [Node -> Nat]
           /\ pending' \in [BG -> SUBSET Entry]
           /\ next_cycle' \in [BG -> 1..(Original!MaxCycle + 1)]
           /\ envoys_rr' \in [BG -> SL]
  <1>1. PICK b \in BG : Grows(b) /\ (applied' = applied \/ \E n \in Node : Advances(n))
    BY DEF LogStep
  <1>2. applied' \in [Node -> Nat]
    <2>1. applied \in [Node -> Nat]
      BY DEF TypeOK
    <2>2. CASE \E n \in Node : Advances(n)
      BY <2>1, <2>2 DEF Advances
    <2> QED
      BY <1>1, <2>1, <2>2
  <1> QED
    BY <1>1, <1>2, Growth DEF Grows

(* The invariant of the log is kept.                                          *)
LEMMA LogCarried ==
    ASSUME TypeOK, LogOK, LogStep
    PROVE  LogOK'
  <1>1. PICK b \in BG : Grows(b) /\ (applied' = applied \/ \E n \in Node : Advances(n))
    BY DEF LogStep
  <1>2. /\ log \in [BG -> Seq(Entry)] /\ applied \in [Node -> Nat] /\ next_cycle \in [BG -> Nat]
    BY MaxCycleBound DEF TypeOK, Entry
  <1>3. log' \in [BG -> Seq(Entry)] /\ applied' \in [Node -> Nat]
    BY LogTypes
  <1>4. \A a \in BG : /\ Len(log[a]) <= Len(log'[a])
                      /\ next_cycle[a] <= next_cycle'[a]
    BY <1>1, Growth
  <1>5. ASSUME NEW n \in Node PROVE applied'[n] <= Len(log'[n[1]])
    <2>1. n[1] \in BG /\ applied[n] <= Len(log[n[1]])
      BY Groups DEF LogOK
    <2>2. applied'[n] <= Len(log[n[1]])
      <3>1. CASE applied' = applied
        BY <2>1, <3>1
      <3>2. CASE \E m \in Node : Advances(m)
        <4>1. PICK m \in Node : Advances(m)
          BY <3>2
        <4>2. CASE m = n
          BY <1>2, <2>1, <4>1, <4>2 DEF Advances, Original!CanCommit
        <4>3. CASE m # n
          BY <1>2, <2>1, <4>1, <4>3 DEF Advances
        <4> QED
          BY <4>2, <4>3
      <3> QED
        BY <1>1, <3>1, <3>2
    <2> QED
      BY <1>2, <1>3, <1>4, <2>1, <2>2
  <1>6. ASSUME NEW a \in BG, NEW i \in 1..Len(log'[a]), log'[a][i].requestType = FROM_CLIENT
        PROVE  /\ log'[a][i].cycle < next_cycle'[a]
               /\ \A j \in 1..Len(log'[a]) : log'[a][j].requestType = FROM_CLIENT
                     /\ log'[a][j].cycle = log'[a][i].cycle => j = i
    <2>1. CASE log' = log /\ next_cycle' = next_cycle
      BY <1>6, <2>1 DEF LogOK
    <2>2. CASE Appends(b)
      <3>1. PICK e \in Entry :
              /\ log' = [log EXCEPT ![b] = Append(@, e)]
              /\ \/ e.requestType # FROM_CLIENT /\ next_cycle' = next_cycle
                 \/ /\ e.requestType = FROM_CLIENT /\ e.cycle = next_cycle[b]
                    /\ next_cycle' = [next_cycle EXCEPT ![b] = @ + 1]
        BY <2>2 DEF Appends
      <3>2. CASE a # b
        BY <1>2, <1>6, <3>1, <3>2 DEF LogOK
      <3>3. CASE a = b
        <4>1. PICK L \in Nat : L = Len(log[b])
          BY <1>2
        <4>2. Len(log'[b]) = L + 1 /\ log'[b][L + 1] = e
              /\ \A k \in 1..L : log'[b][k] = log[b][k]
          BY <1>2, <3>1, <4>1
        <4>3. \A k \in 1..L : log[b][k].requestType = FROM_CLIENT =>
                /\ log[b][k].cycle < next_cycle[b]
                /\ \A j \in 1..L : log[b][j].requestType = FROM_CLIENT
                       /\ log[b][j].cycle = log[b][k].cycle => j = k
          BY <4>1 DEF LogOK
        <4>4. \A k \in 1..L : log[b][k].cycle \in Nat
          <5>1. \A k \in 1..L : log[b][k] \in Entry
            BY <1>2, <4>1
          <5>2. \A x \in Entry : x.cycle \in Cycle
            BY DEF Entry, Original!Entry, Cycle
          <5> QED
            BY <5>1, <5>2, Sizes
        <4>5. next_cycle[b] \in Nat
          BY <1>2
        <4>6. next_cycle'[b] = next_cycle[b] \/ next_cycle'[b] = next_cycle[b] + 1
          BY <1>2, <3>1
        <4>7. e.requestType = FROM_CLIENT =>
                e.cycle = next_cycle[b] /\ next_cycle'[b] = next_cycle[b] + 1
          BY <1>2, <3>1
        <4>8. \A k \in 1..(L + 1) : k \in 1..L \/ k = L + 1
          BY <4>1
        <4>9. log'[b][i].cycle < next_cycle'[b]
          <5>1. CASE i = L + 1
            BY <1>6, <3>3, <4>2, <4>5, <4>7, <5>1
          <5>2. CASE i \in 1..L
            BY <1>6, <3>3, <4>2, <4>3, <4>4, <4>5, <4>6, <5>2
          <5> QED
            BY <3>3, <4>2, <4>8, <5>1, <5>2
        <4>10. ASSUME NEW j \in 1..(L + 1), log'[b][j].requestType = FROM_CLIENT,
                      log'[b][j].cycle = log'[b][i].cycle
               PROVE  j = i
          <5>1. i \in 1..(L + 1)
            BY <3>3, <4>2
          <5>2. CASE i \in 1..L /\ j \in 1..L
            BY <1>6, <3>3, <4>2, <4>3, <4>10, <5>2
          <5>3. CASE i \in 1..L /\ j = L + 1
            <6>1. log[b][i].cycle = next_cycle[b]
              BY <4>2, <4>7, <4>10, <5>3
            <6>2. log[b][i].cycle < next_cycle[b]
              BY <1>6, <3>3, <4>2, <4>3, <5>3
            <6> QED
              BY <4>5, <6>1, <6>2
          <5>4. CASE i = L + 1 /\ j \in 1..L
            <6>1. log[b][j].cycle = next_cycle[b]
              BY <1>6, <3>3, <4>2, <4>7, <4>10, <5>4
            <6>2. log[b][j].cycle < next_cycle[b]
              BY <4>2, <4>3, <4>10, <5>4
            <6> QED
              BY <4>5, <6>1, <6>2
          <5> QED
            BY <4>8, <5>1, <5>2, <5>3, <5>4
        <4> QED
          BY <3>3, <4>2, <4>9, <4>10
      <3> QED
        BY <3>2, <3>3
    <2> QED
      BY <1>1, <2>1, <2>2 DEF Grows
  <1>7. \A a \in BG : \A e \in pending'[a] : e.requestType # FROM_CLIENT
    BY <1>1 DEF Grows
  <1> QED
    BY <1>5, <1>6, <1>7 DEF LogOK, FROM_CLIENT

(* What an SL has applied stays what it was.                                  *)
LEMMA BegunAfter ==
    ASSUME TypeOK, LogOK, NEW b \in BG, Grows(b), applied' = applied,
           NEW n \in Node, NEW c \in Cycle
    PROVE  Begun(n, c)' <=> Begun(n, c)
  <1>1. n[1] \in BG /\ applied[n] \in Nat /\ applied[n] <= Len(log[n[1]]) /\ Len(log[n[1]]) \in Nat
    BY Groups DEF TypeOK, LogOK
  <1>2. \A i \in 1..Len(log[n[1]]) : log'[n[1]][i] = log[n[1]][i]
    BY <1>1, Growth
  <1>3. \A i \in 1..applied[n] : log'[n[1]][i] = log[n[1]][i]
    BY <1>1, <1>2
  <1> QED
    BY <1>1, <1>3 DEF Begun, FROM_CLIENT

(* Applying an entry begins the cycle of a batch, and no other.               *)
LEMMA BegunAdvanced ==
    ASSUME TypeOK, LogOK, NEW b \in BG, Grows(b), NEW m \in Node, Advances(m),
           NEW e \in Entry, e = NextEntry(m),
           NEW n \in Node, NEW c \in Cycle
    PROVE  Begun(n, c)' <=>
             Begun(n, c) \/ (n = m /\ e.requestType = FROM_CLIENT /\ e.cycle = c)
  <1>1. n[1] \in BG /\ applied[n] \in Nat /\ applied[n] <= Len(log[n[1]]) /\ Len(log[n[1]]) \in Nat
    BY Groups DEF TypeOK, LogOK
  <1>2. \A i \in 1..Len(log[n[1]]) : log'[n[1]][i] = log[n[1]][i]
    BY <1>1, Growth
  <1>3. CASE n # m
    <2>1. applied'[n] = applied[n]
      BY <1>3 DEF Advances, TypeOK
    <2>2. \A i \in 1..applied[n] : log'[n[1]][i] = log[n[1]][i]
      BY <1>1, <1>2
    <2> QED
      BY <1>3, <2>1, <2>2 DEF Begun, FROM_CLIENT
  <1>4. CASE n = m
    <2>1. PICK k \in Nat : k = applied[n]
      BY <1>1
    <2>2. applied'[n] = k + 1 /\ k < Len(log[n[1]])
      BY <1>4, <2>1 DEF Advances, TypeOK, Original!CanCommit
    <2>3. log'[n[1]][k + 1] = e /\ \A i \in 1..k : log'[n[1]][i] = log[n[1]][i]
      BY <1>1, <1>2, <1>4, <2>1, <2>2 DEF NextEntry
    <2>4. 1..(k + 1) = 1..k \union {k + 1}
      BY <2>1
    <2> QED
      BY <1>4, <2>1, <2>2, <2>3, <2>4 DEF Begun, FROM_CLIENT
  <1> QED
    BY <1>3, <1>4

(* The batch of a cycle that an SL applies is one it has not applied.         *)
LEMMA BatchIsNew ==
    ASSUME TypeOK, LogOK, NEW n \in Node, Original!CanCommit(n),
           NEW e \in Entry, e = NextEntry(n), e.requestType = FROM_CLIENT
    PROVE  ~Begun(n, e.cycle) /\ e.cycle < next_cycle[n[1]]
  <1>1. n[1] \in BG /\ applied[n] \in Nat /\ applied[n] < Len(log[n[1]]) /\ Len(log[n[1]]) \in Nat
    BY Groups DEF TypeOK, LogOK, Original!CanCommit
  <1>2. PICK k \in 1..Len(log[n[1]]) : k = applied[n] + 1
    BY <1>1
  <1>3. log[n[1]][k] = e /\ k \notin 1..applied[n] /\ 1..applied[n] \subseteq 1..Len(log[n[1]])
    BY <1>1, <1>2 DEF NextEntry
  <1> QED
    BY <1>1, <1>3 DEF LogOK, Begun

(* A cycle an SL has begun has been proposed by its group.                    *)
LEMMA BegunIsProposed ==
    ASSUME TypeOK, LogOK, NEW n \in Node, NEW c \in Cycle, Begun(n, c)
    PROVE  c < next_cycle[n[1]]
  <1>1. n[1] \in BG /\ applied[n] \in Nat /\ applied[n] <= Len(log[n[1]]) /\ Len(log[n[1]]) \in Nat
    BY Groups DEF TypeOK, LogOK
  <1>2. 1..applied[n] \subseteq 1..Len(log[n[1]])
    BY <1>1
  <1> QED
    BY <1>1, <1>2 DEF LogOK, Begun

-----------------------------------------------------------------------------
(* Types of messages and of statuses.                                         *)

FlightTypes == {"REQUEST", "RESPONSE"}
VoteTypes == {"PREPREPARE_BASELINE", "PARTIAL_COMMIT_BASELINE", "FULL_COMMIT_BASELINE"}

(* The fields of a message.                                                   *)
LEMMA MessageFields ==
    ASSUME NEW m \in Messages
    PROVE  /\ m.cycle \in Cycle /\ m.to \in Node /\ m.to[1] \in BG
           /\ m.type \in FlightTypes \union VoteTypes
           /\ m.type = "REQUEST" => m.from \in Node /\ m.kind = "RESULT"
           /\ m.type = "RESPONSE" => m.bg \in BG
           /\ m.type = "PREPREPARE_BASELINE" =>
                m.collector \in BG /\ m = [type |-> "PREPREPARE_BASELINE", cycle |-> m.cycle,
                                           collector |-> m.collector, to |-> m.to]
           /\ m.type = "PARTIAL_COMMIT_BASELINE" =>
                m.bg \in BG /\ m = [type |-> "PARTIAL_COMMIT_BASELINE", cycle |-> m.cycle,
                                    bg |-> m.bg, to |-> m.to]
  <1>1. CASE m \in [type: {"REQUEST"}, kind: {"RESULT"}, cycle: Cycle, from: Node, to: Node]
    BY <1>1, Groups DEF FlightTypes
  <1>2. CASE m \in [type: {"RESPONSE"}, kind: {"RESULT", "FAKE"}, cycle: Cycle, bg: BG, to: Node]
    BY <1>2, Groups DEF FlightTypes
  <1>3. CASE m \in [type: {"PREPREPARE_BASELINE"}, cycle: Cycle, collector: BG, to: Node]
    BY <1>3, Groups DEF VoteTypes
  <1>4. CASE m \in [type: {"PARTIAL_COMMIT_BASELINE"}, cycle: Cycle, bg: BG, to: Node]
    BY <1>4, Groups DEF VoteTypes
  <1>5. CASE m \in [type: {"FULL_COMMIT_BASELINE"}, cycle: Cycle, to: Node]
    BY <1>5, Groups DEF VoteTypes
  <1> QED
    BY <1>1, <1>2, <1>3, <1>4, <1>5 DEF Messages

(* The part of a step that is not the log's.                                  *)
LEMMA TypesAfter ==
    ASSUME TypeOK, LogStep, status' \in [Node -> [Cycle -> Status]],
           waiting' \in [Node -> SUBSET ({"RESULT"} \X Cycle \X Node)],
           storage' \in [Node -> SUBSET Cycle], net' \subseteq Messages, failed' \subseteq Node
    PROVE  TypeOK'
  BY LogTypes DEF TypeOK, Entry, SL

(* Writing the status of one cycle of one SL.                                 *)
LEMMA StatusUpdate ==
    ASSUME TypeOK, NEW n \in Node, NEW c \in Cycle, NEW s \in Status, Original!SetStatus(n, c, s)
    PROVE  /\ status' \in [Node -> [Cycle -> Status]]
           /\ status'[n][c] = s
           /\ \A m \in Node, d \in Cycle : m # n \/ d # c => status'[m][d] = status[m][d]
  <1>1. status \in [Node -> [Cycle -> Status]]
    BY DEF TypeOK
  <1>2. status' = [status EXCEPT ![n] = [status[n] EXCEPT ![c] = s]]
    BY <1>1 DEF Original!SetStatus
  <1> QED
    BY <1>1, <1>2

(* Storing one cycle at one SL.                                               *)
LEMMA StorageUpdate ==
    ASSUME TypeOK, NEW n \in Node, NEW c \in Cycle,
           storage' = [storage EXCEPT ![n] = @ \union {c}]
    PROVE  /\ storage' \in [Node -> SUBSET Cycle]
           /\ c \in storage'[n]
           /\ \A m \in Node, d \in Cycle : m # n \/ d # c => (d \in storage'[m] <=> d \in storage[m])
  BY DEF TypeOK

(* The status of a cycle has its type.                                        *)
LEMMA StatusTypes ==
    ASSUME TypeOK, NEW n \in Node, NEW c \in Cycle
    PROVE  /\ status[n][c] \in Status
           /\ St(n, c) \in States
           /\ status[n][c].counter \in 0..(NumBG - 1)
           /\ status[n][c].answered \in SUBSET BG
  BY DEF TypeOK, Status, St

(* A status is made of its three fields.                                      *)
LEMMA NewStatus ==
    ASSUME NEW st \in States, NEW k \in 0..(NumBG - 1), NEW A \in SUBSET BG
    PROVE  [state |-> st, counter |-> k, answered |-> A] \in Status
  BY DEF Status

(* The empty status, and a status from its fields.                            *)
LEMMA SomeStatuses ==
    /\ Unknown \in Status /\ 0 \in 0..(NumBG - 1)
    /\ Unknown.state = "NONE" /\ Unknown.answered = {}
    /\ \A s \in Status :
          s = [state |-> s.state, counter |-> s.counter, answered |-> s.answered]
  <1>1. 0 \in 0..(NumBG - 1)
    BY Sizes
  <1> QED
    BY <1>1 DEF Unknown, Status, States

(* A status with another state and counter, or another counter.               *)
LEMMA StatusWithStage ==
    ASSUME NEW s \in Status, NEW v
    PROVE  [s EXCEPT !.state = v, !.counter = 0] = [state |-> v, counter |-> 0, answered |-> s.answered]
  <1>1. [s EXCEPT !.state = v] = [state |-> v, counter |-> s.counter, answered |-> s.answered]
    BY DEF Status
  <1>2. [s EXCEPT !.state = v, !.counter = 0] = [[s EXCEPT !.state = v] EXCEPT !.counter = 0]
    BY DEF Status
  <1>3. PICK t : t = [state |-> v, counter |-> s.counter, answered |-> s.answered]
    OBVIOUS
  <1>4. [t EXCEPT !.counter = 0] = [state |-> v, counter |-> 0, answered |-> s.answered]
    BY <1>3
  <1> QED
    BY <1>1, <1>2, <1>3, <1>4

(* A status that begins to count votes.                                       *)
LEMMA StatusWithVote ==
    ASSUME NEW s \in Status, NEW v
    PROVE  [s EXCEPT !.counter = 0, !.state = v] = [state |-> v, counter |-> 0, answered |-> s.answered]
  <1>1. [s EXCEPT !.counter = 0] = [state |-> s.state, counter |-> 0, answered |-> s.answered]
    BY DEF Status
  <1>2. [s EXCEPT !.counter = 0, !.state = v] = [[s EXCEPT !.counter = 0] EXCEPT !.state = v]
    BY DEF Status
  <1>3. PICK t : t = [state |-> s.state, counter |-> 0, answered |-> s.answered]
    OBVIOUS
  <1>4. [t EXCEPT !.state = v] = [state |-> v, counter |-> 0, answered |-> s.answered]
    BY <1>3
  <1> QED
    BY <1>1, <1>2, <1>3, <1>4

(* A status with another counter.                                             *)
LEMMA StatusWithCount ==
    ASSUME NEW s \in Status, NEW k
    PROVE  [s EXCEPT !.counter = k] = [state |-> s.state, counter |-> k, answered |-> s.answered]
  BY DEF Status

(* A status with other answers.                                               *)
LEMMA StatusWithAnswer ==
    ASSUME NEW s \in Status, NEW A
    PROVE  [s EXCEPT !.answered = A] = [state |-> s.state, counter |-> s.counter, answered |-> A]
  BY DEF Status

-----------------------------------------------------------------------------
(* What a step leaves as it was.                                              *)

(* Only SL n changes, and only its cycle c.                                   *)
Elsewhere(n, c) ==
    \A m \in Node, d \in Cycle : m # n \/ d # c =>
        status'[m][d] = status[m][d] /\ (d \in storage'[m] <=> d \in storage[m])

BegunStays == \A m \in Node, d \in Cycle : Begun(m, d)' <=> Begun(m, d)

(* A step for one cycle of one SL leaves the other stages right.              *)
LEMMA StagesCarried ==
    ASSUME Stages, NEW n \in Node, NEW c \in Cycle, Elsewhere(n, c), StageOK(n, c)',
           \A m \in Node, d \in Cycle : m # n \/ d # c => (Begun(m, d)' <=> Begun(m, d))
    PROVE  Stages'
  <1> SUFFICES ASSUME NEW m \in Node, NEW d \in Cycle PROVE StageOK(m, d)'
    BY DEF Stages
  <1>1. CASE m = n /\ d = c
    BY <1>1
  <1>2. CASE m # n \/ d # c
    <2>1. /\ status'[m][d] = status[m][d] /\ (d \in storage'[m] <=> d \in storage[m])
          /\ Begun(m, d)' <=> Begun(m, d)
      BY <1>2 DEF Elsewhere
    <2>2. StageOK(m, d)
      BY DEF Stages
    <2> QED
      BY <2>1, <2>2 DEF StageOK, St
  <1> QED
    BY <1>1, <1>2

(* The stages stay right when no status changes.                              *)
LEMMA StagesSame ==
    ASSUME Stages, UNCHANGED <<status, storage>>, BegunStays
    PROVE  Stages'
  <1> SUFFICES ASSUME NEW m \in Node, NEW d \in Cycle PROVE StageOK(m, d)'
    BY DEF Stages
  <1>1. StageOK(m, d) /\ (Begun(m, d)' <=> Begun(m, d))
    BY DEF Stages, BegunStays
  <1> QED
    BY <1>1 DEF StageOK, St

(* A flight is a message about a result or a request that is kept.            *)
LEMMA FlightMembers ==
    \A x : x \in Flights <=>
        \/ x \in net /\ x.type \in FlightTypes
        \/ \E n \in Node : \E w \in waiting[n] : x = Kept(n, w)
  BY DEF Flights, FlightTypes

(* The SL that asks, the group that is asked, and the cycle.                  *)
LEMMA FlightFields ==
    ASSUME TypeOK, NEW x \in Flights
    PROVE  Asker(x) \in Node /\ Asked(x) \in BG /\ x.cycle \in Cycle
  <1>1. CASE x \in net /\ x.type \in FlightTypes
    <2>1. x \in Messages
      BY <1>1 DEF TypeOK
    <2> QED
      BY <1>1, <2>1, MessageFields DEF Asker, Asked, FlightTypes
  <1>2. CASE \E n \in Node : \E w \in waiting[n] : x = Kept(n, w)
    <2>1. PICK n \in Node : \E w \in waiting[n] : x = Kept(n, w)
      BY <1>2
    <2> PICK w \in waiting[n] : x = Kept(n, w)
      BY <2>1
    <2>2. w \in {"RESULT"} \X Cycle \X Node
      BY DEF TypeOK
    <2>3. x.type = "KEPT" /\ x.from \in Node /\ x.to = n /\ x.cycle \in Cycle
      BY <2>2 DEF Kept
    <2> QED
      BY <2>3, Groups DEF Asker, Asked
  <1> QED
    BY <1>1, <1>2, FlightMembers

(* Votes are not flights.                                                     *)
LEMMA FlightsSame ==
    ASSUME waiting' = waiting,
           \A x \in net \union net' : x.type \in FlightTypes => (x \in net' <=> x \in net)
    PROVE  Flights' = Flights
  BY DEF Flights, FlightTypes

(* A flight whose asker does not change stays well.                           *)
LEMMA FlightStillOK ==
    ASSUME TypeOK, NEW b \in BG, Grows(b), NEW x \in Flights, FlightOK(x),
           status'[Asker(x)][x.cycle].state = "REPLICATED_RESULTS",
           Asked(x) \notin status'[Asker(x)][x.cycle].answered
    PROVE  FlightOK(x)'
  <1>1. x.type = "RESPONSE" => x.bg \in BG
    BY FlightFields DEF Asked
  <1>2. \A a \in BG : next_cycle[a] \in Nat /\ next_cycle'[a] \in Nat /\ next_cycle[a] <= next_cycle'[a]
    BY Growth DEF TypeOK
  <1>3. x.cycle \in Nat
    BY FlightFields, Sizes
  <1>4. x.type = "RESPONSE" => x.cycle < next_cycle'[x.bg]
    BY <1>1, <1>2, <1>3 DEF FlightOK
  <1> QED
    BY <1>4 DEF FlightOK, St

(* A flight stays right while its asker's status does not change.             *)
LEMMA FlightCarried ==
    ASSUME TypeOK, NEW b \in BG, Grows(b), NEW x \in Flights, FlightOK(x),
           status'[Asker(x)][x.cycle] = status[Asker(x)][x.cycle]
    PROVE  FlightOK(x)'
  BY FlightStillOK DEF FlightOK, St

(* An SL that is not in its first stage has no question open.                 *)
LEMMA NothingAsked ==
    ASSUME FlightsOK, NEW n, NEW c, St(n, c) # "REPLICATED_RESULTS"
    PROVE  \A x \in Flights : Asker(x) # n \/ x.cycle # c
  BY DEF FlightsOK, FlightOK

(* All flights stay right when a cycle that asks nobody changes.              *)
LEMMA FlightsOKSame ==
    ASSUME TypeOK, NEW b \in BG, Grows(b), FlightsOK, Flights' = Flights,
           NEW n \in Node, NEW c \in Cycle, Elsewhere(n, c),
           St(n, c) # "REPLICATED_RESULTS"
    PROVE  FlightsOK'
  <1> SUFFICES ASSUME NEW x \in Flights PROVE FlightOK(x)'
    BY DEF FlightsOK
  <1>1. Asker(x) \in Node /\ x.cycle \in Cycle /\ FlightOK(x)
    BY FlightFields DEF FlightsOK
  <1>2. Asker(x) # n \/ x.cycle # c
    BY NothingAsked
  <1> QED
    BY <1>1, <1>2, FlightCarried DEF Elsewhere

(* Flights that stay are asked once.                                          *)
LEMMA AskedOnceSame ==
    ASSUME AskedOnce, Flights' = Flights
    PROVE  AskedOnce'
  BY DEF AskedOnce

(* A question that is handed on, from one flight to the next, or that is new. *)
LEMMA AskedOnceStep ==
    ASSUME AskedOnce, NEW Gone, NEW New, Gone \subseteq Flights,
           Flights' \subseteq (Flights \ Gone) \union New,
           \A y \in New : (\E x \in Gone : SameQuestion(x, y))
                          \/ (\A x \in Flights : ~SameQuestion(x, y)),
           \A y, z \in New : SameQuestion(y, z) => y = z
    PROVE  AskedOnce'
  <1>1. \A x, y, z : SameQuestion(x, y) /\ SameQuestion(z, y) => SameQuestion(x, z)
    BY DEF SameQuestion
  <1>2. \A x, y : SameQuestion(x, y) => SameQuestion(y, x)
    BY DEF SameQuestion
  <1> SUFFICES ASSUME NEW x \in Flights', NEW y \in Flights', SameQuestion(x, y) PROVE x = y
    BY DEF AskedOnce
  <1>3. CASE x \in Flights \ Gone /\ y \in Flights \ Gone
    BY <1>3 DEF AskedOnce
  <1>4. CASE x \in New /\ y \in New
    BY <1>4
  <1>5. \A u \in Flights \ Gone, v \in New : ~SameQuestion(u, v)
    BY <1>1 DEF AskedOnce
  <1> QED
    BY <1>2, <1>3, <1>4, <1>5

(* The leaders, and the messages between them, as cycle c sees them.          *)
Voting == {"PARTIALCOMMITS_BASELINE", "FULLCOMMIT_BASELINE"}
LeadersSame(c) ==
    /\ Sent(c)' <=> Sent(c)
    /\ \A b \in BG :
        /\ \A v \in Voting : St(Leader(b), c)' = v <=> St(Leader(b), c) = v
        /\ St(Leader(b), c) = "PARTIALCOMMITS_BASELINE" =>
              status'[Leader(b)][c].counter = status[Leader(b)][c].counter
        /\ c \in storage'[Leader(b)] <=> c \in storage[Leader(b)]

VotesSame(c) ==
    \A m \in net \union net' : m.type \in VoteTypes /\ m.cycle = c => (m \in net' <=> m \in net)

(* What the leaders know of a cycle depends on their own status.              *)
LEMMA ViewSame ==
    ASSUME NEW c \in Cycle, LeadersSame(c)
    PROVE  /\ Sent(c)' <=> Sent(c)
           /\ AllDone(c)' <=> AllDone(c)
           /\ \A b \in BG : (Done(b, c)' <=> Done(b, c)) /\ (Voted(b, c)' <=> Voted(b, c))
  BY DEF LeadersSame, AllDone, Done, Voted, Voting

(* The agreement on a cycle stays while its votes do.                         *)
LEMMA AgreementOnSame ==
    ASSUME TypeOK, NEW c \in Cycle, NEW col \in BG, AgreementOn(c, col),
           LeadersSame(c), VotesSame(c)
    PROVE  AgreementOn(c, col)'
  <1>1. /\ Sent(c)' <=> Sent(c)
        /\ AllDone(c)' <=> AllDone(c)
        /\ \A b \in BG : (Done(b, c)' <=> Done(b, c)) /\ (Voted(b, c)' <=> Voted(b, c))
    BY ViewSame
  <1>2. Counted(c, col)' = Counted(c, col)
    <2>1. \A b \in BG : Vote(b, c, col) \in net' <=> Vote(b, c, col) \in net
      BY DEF VotesSame, Vote, VoteTypes
    <2> QED
      BY <1>1, <2>1 DEF Counted
  <1>3. ASSUME NEW m \in net', m.cycle = c PROVE MessageOK(m, c, col)'
    <2>1. CASE m \in net
      <3>1. MessageOK(m, c, col) /\ m \in Messages
        BY <1>3, <2>1 DEF AgreementOn, TypeOK
      <3>2. m.to[1] \in BG /\ (m.type = "PARTIAL_COMMIT_BASELINE" => m.bg \in BG)
        BY <3>1, MessageFields
      <3> QED
        BY <1>1, <3>1, <3>2 DEF MessageOK
    <2>2. CASE m \notin net
      BY <1>3, <2>2 DEF VotesSame, MessageOK, VoteTypes
    <2> QED
      BY <2>1, <2>2
  <1>4. \A b \in BG : Voted(b, c)' => Sent(c)'
    BY <1>1 DEF AgreementOn
  <1>5. \A b \in BG : c \in storage'[Leader(b)] => AllDone(c)'
    BY <1>1 DEF AgreementOn, LeadersSame
  <1>6. \A b \in BG : St(Leader(b), c)' = "PARTIALCOMMITS_BASELINE" =>
          b = col /\ status'[Leader(b)][c].counter = Cardinality(Counted(c, col)')
    BY <1>2 DEF AgreementOn, LeadersSame, Voting
  <1>7. ~Voted(col, c)' => Counted(c, col)' = {}
    BY <1>1, <1>2 DEF AgreementOn
  <1> QED
    BY <1>3, <1>4, <1>5, <1>6, <1>7 DEF AgreementOn, St

(* A step that is not part of the leaders' agreement.                         *)
LEMMA AgreementSame ==
    ASSUME TypeOK, Agreement, \A c \in Cycle : LeadersSame(c) /\ VotesSame(c)
    PROVE  Agreement'
  <1> SUFFICES ASSUME NEW c \in Cycle PROVE \E col \in BG : AgreementOn(c, col)'
    BY DEF Agreement
  <1>1. PICK col \in BG : AgreementOn(c, col)
    BY DEF Agreement
  <1> QED
    BY <1>1, AgreementOnSame

(* A step of the agreement on cycle c.                                        *)
LEMMA AgreementStep ==
    ASSUME TypeOK, Agreement, NEW n \in Node, NEW c \in Cycle, Elsewhere(n, c),
           \A d \in Cycle \ {c} : VotesSame(d),
           \E col \in BG : AgreementOn(c, col)'
    PROVE  Agreement'
  <1> SUFFICES ASSUME NEW d \in Cycle PROVE \E col \in BG : AgreementOn(d, col)'
    BY DEF Agreement
  <1>1. CASE d = c
    BY <1>1
  <1>2. CASE d # c
    <2>1. PICK col \in BG : AgreementOn(d, col)
      BY DEF Agreement
    <2>2. LeadersSame(d)
      BY <1>2, Groups, GlobalAssumption DEF Elsewhere, LeadersSame, St, Sent
    <2> QED
      BY <1>2, <2>1, <2>2, AgreementOnSame
  <1> QED
    BY <1>1, <1>2

(* A step of SL n in cycle c that leaves the agreement alone.                 *)
LEMMA AgreementApart ==
    ASSUME TypeOK, Agreement, NEW n \in Node, NEW c \in Cycle, Elsewhere(n, c),
           \A d \in Cycle : VotesSame(d),
           n = Leader(n[1]) =>
               /\ St(n, c) \notin VoteStates /\ St(n, c)' \notin Voting
               /\ n = Leader(GlobalBG) => St(n, c)' \notin VoteStates
               /\ c \in storage'[n] <=> c \in storage[n]
    PROVE  Agreement'
  <1> SUFFICES ASSUME NEW d \in Cycle PROVE LeadersSame(d)
    BY AgreementSame
  <1>0. Sent(d)' <=> Sent(d)
    <2>1. Leader(GlobalBG) \in Node /\ Leader(GlobalBG) = Leader(Leader(GlobalBG)[1])
      BY Groups, GlobalAssumption
    <2>2. CASE Leader(GlobalBG) # n \/ d # c
      BY <2>1, <2>2 DEF Elsewhere, St, Sent
    <2>3. CASE Leader(GlobalBG) = n /\ d = c
      BY <2>1, <2>3 DEF Sent, St
    <2> QED
      BY <2>2, <2>3
  <1> SUFFICES ASSUME NEW b \in BG
               PROVE  /\ \A v \in Voting : St(Leader(b), d)' = v <=> St(Leader(b), d) = v
                      /\ St(Leader(b), d) = "PARTIALCOMMITS_BASELINE" =>
                            status'[Leader(b)][d].counter = status[Leader(b)][d].counter
                      /\ d \in storage'[Leader(b)] <=> d \in storage[Leader(b)]
    BY <1>0 DEF LeadersSame
  <1>1. Leader(b) \in Node /\ Leader(b)[1] = b
    BY Groups
  <1>2. CASE Leader(b) # n \/ d # c
    BY <1>1, <1>2 DEF Elsewhere, St
  <1>3. CASE Leader(b) = n /\ d = c
    BY <1>1, <1>3 DEF VoteStates, Voting
  <1> QED
    BY <1>2, <1>3

-----------------------------------------------------------------------------
(* The invariant holds initially, and what does not touch Round 3 keeps it.   *)

(* The invariant holds at first.                                              *)
LEMMA InitIInv == Init => IInv
  <1> SUFFICES ASSUME Init PROVE IInv
    OBVIOUS
  <1>1. /\ log = [b \in BG |-> <<>>] /\ applied = [n \in Node |-> 0]
        /\ \A n \in Node, c \in Cycle : status[n][c] = Unknown
        /\ storage = [n \in Node |-> {}] /\ net = {} /\ waiting = [n \in Node |-> {}]
    BY DEF Init
  <1>2. TypeOK
    <2>1. Original!MaxCycle \in Nat
      BY MaxCycleBound
    <2>2. 1 \in 1..(Original!MaxCycle + 1)
      BY <2>1
    <2> QED
      BY <2>2, Groups, SomeStatuses DEF Init, TypeOK, SL
  <1>3. LogOK
    <2>1. \A n \in Node : n[1] \in BG /\ applied[n] = 0 /\ Len(log[n[1]]) = 0
      BY <1>1, Groups
    <2>2. \A b \in BG : 1..Len(log[b]) = {} /\ pending[b] = {}
      BY DEF Init
    <2> QED
      BY <2>1, <2>2 DEF LogOK
  <1>4. Stages
    <2> SUFFICES ASSUME NEW n \in Node, NEW c \in Cycle PROVE StageOK(n, c)
      BY DEF Stages
    <2>1. status[n][c].state = "NONE" /\ status[n][c].answered = {} /\ c \notin storage[n]
      BY <1>1, SomeStatuses
    <2> QED
      BY <2>1 DEF StageOK, St
  <1>5. Flights = {}
    BY <1>1 DEF Flights
  <1>6. Agreement
    <2> SUFFICES ASSUME NEW c \in Cycle PROVE AgreementOn(c, GlobalBG)
      BY GlobalAssumption DEF Agreement
    <2>1. \A b \in BG : St(Leader(b), c) = "NONE" /\ c \notin storage[Leader(b)]
      BY <1>1, Groups, SomeStatuses DEF St
    <2>2. \A b \in BG : ~Voted(b, c)
      BY <2>1 DEF Voted, Done
    <2> QED
      BY <1>1, <2>1, <2>2, GlobalAssumption DEF AgreementOn, Counted
  <1> QED
    BY <1>2, <1>3, <1>4, <1>5, <1>6 DEF IInv, FlightsOK, AskedOnce

(* A step that only logs keeps the invariant.                                 *)
LEMMA QuietIInv ==
    ASSUME IInv, NEW b \in BG, Grows(b), failed' \subseteq Node,
           UNCHANGED <<applied, status, waiting, storage, net>>
    PROVE  IInv'
  <1>1. TypeOK /\ LogOK /\ Stages /\ FlightsOK /\ AskedOnce /\ Agreement
    BY DEF IInv
  <1>2. LogStep
    BY DEF LogStep
  <1>3. TypeOK' /\ LogOK'
    BY <1>1, <1>2, TypesAfter, LogCarried DEF TypeOK
  <1>4. BegunStays
    BY <1>1, BegunAfter DEF BegunStays
  <1>5. Stages'
    BY <1>1, <1>4, StagesSame
  <1>6. Flights' = Flights
    BY FlightsSame
  <1>7. FlightsOK'
    <2> SUFFICES ASSUME NEW x \in Flights PROVE FlightOK(x)'
      BY <1>6 DEF FlightsOK
    <2> QED
      BY <1>1, FlightCarried DEF FlightsOK
  <1>8. AskedOnce'
    BY <1>1, <1>6, AskedOnceSame
  <1>9. Agreement'
    <2>1. \A c \in Cycle : LeadersSame(c) /\ VotesSame(c)
      BY DEF LeadersSame, VotesSame, St, Sent
    <2> QED
      BY <1>1, <2>1, AgreementSame
  <1> QED
    BY <1>3, <1>5, <1>7, <1>8, <1>9 DEF IInv

(* A stutter keeps it.                                                        *)
LEMMA IdleIInv == ASSUME IInv, UNCHANGED vars PROVE IInv'
  <1>1. Grows(GlobalBG)
    BY IdleGrows, GlobalAssumption DEF IInv, vars
  <1> QED
    BY <1>1, QuietIInv, GlobalAssumption DEF vars, IInv, TypeOK

(* A batch of a client only logs.                                             *)
LEMMA ReceiveBatchGrows ==
    ASSUME TypeOK, LogOK, NEW b \in BG, ReceiveBatch(b)
    PROVE  Grows(b) /\ UNCHANGED <<applied, status, waiting, storage, net, failed>>
  <1>1. /\ Original!SendBatch(b)
        /\ UNCHANGED <<applied, pending, status, waiting, storage, net, failed>>
    BY DEF ReceiveBatch, Original!ReceiveBatch
  <1>2. Appends(b) /\ envoys_rr' \in [BG -> SL]
    BY <1>1, SendBatchAppends
  <1> QED
    BY <1>1, <1>2 DEF Grows, TypeOK, LogOK, Entry

(* A batch keeps the invariant.                                               *)
LEMMA ReceiveBatchIInv == ASSUME IInv, NEW b \in BG, ReceiveBatch(b) PROVE IInv'
  BY ReceiveBatchGrows, QuietIInv DEF IInv, TypeOK

(* An SL that throws keeps it.                                                *)
LEMMA ThrowIInv == ASSUME IInv, NEW m \in net, Throw(m) PROVE IInv'
  <1>1. Grows(GlobalBG)
    BY IdleGrows, GlobalAssumption DEF IInv, Throw
  <1>2. m.to \in Node
    BY MessageFields DEF IInv, TypeOK
  <1> QED
    BY <1>1, <1>2, QuietIInv, GlobalAssumption DEF Throw, IInv, TypeOK

-----------------------------------------------------------------------------
(* FullCommit of a batch: the cycle begins at SL n.                           *)

(* The facts that every step of an SL in one of its cycles is put together of.*)
LEMMA Together ==
    ASSUME IInv, NEW b \in BG, Grows(b), applied' = applied \/ \E n \in Node : Advances(n),
           status' \in [Node -> [Cycle -> Status]],
           waiting' \in [Node -> SUBSET ({"RESULT"} \X Cycle \X Node)],
           storage' \in [Node -> SUBSET Cycle], net' \subseteq Messages, failed' = failed,
           Stages', FlightsOK', AskedOnce', Agreement'
    PROVE  IInv'
  <1>1. LogStep
    BY DEF LogStep
  <1> QED
    BY <1>1, TypesAfter, LogCarried DEF IInv, TypeOK

ResponseOf(n, c, a) == [type |-> "RESPONSE", kind |-> "RESULT", cycle |-> c, bg |-> n[1], to |-> a]
RequestOf(n, c, b, s) ==
    [type |-> "REQUEST", kind |-> "RESULT", cycle |-> c, from |-> n, to |-> <<b, s>>]

(* SL n begins cycle c: it answers A, who asked before, and asks Q.           *)
Begins(n, c, A, Q) ==
    /\ A = {a \in Node : <<"RESULT", c, a>> \in waiting[n]}
    /\ waiting' = [waiting EXCEPT ![n] = {v \in @ : v[2] # c}]
    /\ Q \subseteq {RequestOf(n, c, b, s) : b \in BG \ {n[1]}, s \in SL}
    /\ \A x, y \in Q : x.to[1] = y.to[1] => x = y
    /\ net' = net \union {ResponseOf(n, c, a) : a \in A} \union Q

(* The commit of a batch begins the cycle: it asks and answers.               *)
LEMMA AskAndAnswerBegins ==
    ASSUME TypeOK, NEW n \in Node, NEW c \in Cycle, Original!AskAndAnswer(n, "RESULT", c, TRUE)
    PROVE  \E A \in SUBSET Node : \E Q : Begins(n, c, A, Q)
  <1>1. waiting \in [Node -> SUBSET ({"RESULT"} \X Cycle \X Node)] /\ n[1] \in BG
    BY Groups DEF TypeOK
  <1>2. \A v \in waiting[n] : v = <<v[1], v[2], v[3]>> /\ v[1] = "RESULT" /\ v[3] \in Node
    BY <1>1
  <1>3. PICK pick \in [BG \ {n[1]} -> SL] :
          net' = net \union Original!PendingResponses(n, "RESULT", c)
                     \union Original!EnvoyRequests(n, "RESULT", c, pick)
    BY Groups, <1>1 DEF Original!AskAndAnswer, SL
  <1>4. waiting' = [waiting EXCEPT ![n] = {v \in @ : v[2] # c}]
    <2>1. waiting' = [waiting EXCEPT ![n] = {v \in waiting[n] : v[1] # "RESULT" \/ v[2] # c}]
      BY <1>1 DEF Original!AskAndAnswer, Original!NoLongerWaiting
    <2>2. {v \in waiting[n] : v[1] # "RESULT" \/ v[2] # c} = {v \in waiting[n] : v[2] # c}
      BY <1>2
    <2> QED
      BY <1>1, <2>1, <2>2
  <1> DEFINE A == {a \in Node : <<"RESULT", c, a>> \in waiting[n]}
             Q == Original!EnvoyRequests(n, "RESULT", c, pick)
  <1>5. Original!PendingResponses(n, "RESULT", c) = {ResponseOf(n, c, a) : a \in A}
    <2>1. Original!PendingResponses(n, "RESULT", c)
            = {ResponseOf(n, c, w[3]) : w \in {v \in waiting[n] : v[1] = "RESULT" /\ v[2] = c}}
      BY DEF Original!PendingResponses, ResponseOf
    <2>2. \A w \in {v \in waiting[n] : v[1] = "RESULT" /\ v[2] = c} : w[3] \in A
      BY <1>2
    <2>3. \A a \in A : \E w \in {v \in waiting[n] : v[1] = "RESULT" /\ v[2] = c} : w[3] = a
      <3> SUFFICES ASSUME NEW a \in A
                   PROVE  <<"RESULT", c, a>> \in {v \in waiting[n] : v[1] = "RESULT" /\ v[2] = c}
                          /\ <<"RESULT", c, a>>[3] = a
        OBVIOUS
      <3> QED
        OBVIOUS
    <2> HIDE DEF A
    <2> QED
      BY <2>1, <2>2, <2>3
  <1>6. Q = {RequestOf(n, c, b, pick[b]) : b \in BG \ {n[1]}}
    BY <1>1, Groups DEF Original!EnvoyRequests, RequestOf
  <1>7. Q \subseteq {RequestOf(n, c, b, s) : b \in BG \ {n[1]}, s \in SL}
    BY <1>6
  <1>8. \A x, y \in Q : x.to[1] = y.to[1] => x = y
    <2> SUFFICES ASSUME NEW x \in Q, NEW y \in Q, x.to[1] = y.to[1] PROVE x = y
      OBVIOUS
    <2>1. PICK b \in BG \ {n[1]} : x = RequestOf(n, c, b, pick[b])
      BY <1>6
    <2>2. PICK d \in BG \ {n[1]} : y = RequestOf(n, c, d, pick[d])
      BY <1>6
    <2>3. x.to = <<b, pick[b]>> /\ y.to = <<d, pick[d]>>
      BY <2>1, <2>2 DEF RequestOf
    <2> QED
      BY <2>1, <2>2, <2>3
  <1>9. Begins(n, c, A, Q)
    <2> HIDE DEF Q
    <2> QED
      BY <1>3, <1>4, <1>5, <1>7, <1>8 DEF Begins, Q
  <1>10. PICK Q0 : Q0 = Q
    OBVIOUS
  <1>11. PICK A0 \in SUBSET Node : A0 = A
    OBVIOUS
  <1> HIDE DEF A, Q
  <1>12. Begins(n, c, A0, Q0)
    BY <1>9, <1>10, <1>11
  <1> QED
    BY <1>12

(* What is under way when it has begun.                                       *)
LEMMA BeginsFlights ==
    ASSUME TypeOK, NEW n \in Node, NEW c \in Cycle, NEW A \in SUBSET Node, NEW Q, Begins(n, c, A, Q)
    PROVE  /\ Flights' \subseteq (Flights \ {Kept(n, <<"RESULT", c, a>>) : a \in A})
                                 \union ({ResponseOf(n, c, a) : a \in A} \union Q)
           /\ \A a \in A : Kept(n, <<"RESULT", c, a>>) \in Flights
           /\ \A d \in Cycle : VotesSame(d)
           /\ net' \subseteq Messages
           /\ waiting' \in [Node -> SUBSET ({"RESULT"} \X Cycle \X Node)]
  <1>1. waiting \in [Node -> SUBSET ({"RESULT"} \X Cycle \X Node)] /\ n[1] \in BG /\ net \subseteq Messages
    BY Groups DEF TypeOK
  <1>2. waiting' = [waiting EXCEPT ![n] = {v \in waiting[n] : v[2] # c}]
    BY <1>1 DEF Begins
  <1>3. waiting' \in [Node -> SUBSET ({"RESULT"} \X Cycle \X Node)]
    BY <1>1, <1>2
  <1>4. \A y \in {ResponseOf(n, c, a) : a \in A} : y \in Messages /\ y.type = "RESPONSE"
    BY <1>1 DEF ResponseOf, Messages
  <1>5. \A y \in Q : y \in Messages /\ y.type = "REQUEST"
    BY Groups DEF Begins, RequestOf, Messages
  <1>6. \A a \in A : Kept(n, <<"RESULT", c, a>>) \in Flights
    BY FlightMembers DEF Begins
  <1>7. ASSUME NEW x \in Flights'
        PROVE  x \in (Flights \ {Kept(n, <<"RESULT", c, a>>) : a \in A})
                      \union ({ResponseOf(n, c, a) : a \in A} \union Q)
    <2>1. CASE x \in net /\ x.type \in FlightTypes
      <3>1. x \in Flights
        BY <2>1, FlightMembers
      <3>2. \A a \in A : Kept(n, <<"RESULT", c, a>>).type = "KEPT"
        BY DEF Kept
      <3> QED
        BY <2>1, <3>1, <3>2 DEF FlightTypes
    <2>2. CASE \E p \in Node : \E w \in waiting'[p] : x = Kept(p, w)
      <3>1. PICK p \in Node : \E w \in waiting'[p] : x = Kept(p, w)
        BY <2>2
      <3>2. PICK w \in waiting'[p] : x = Kept(p, w)
        BY <3>1
      <3>3. w \in waiting[p] /\ (p = n => w[2] # c)
        BY <1>1, <1>2
      <3>4. x \in Flights
        BY <3>2, <3>3, FlightMembers
      <3>5. x.to = p /\ x.cycle = w[2]
        BY <3>2 DEF Kept
      <3>6. \A a \in A : Kept(n, <<"RESULT", c, a>>).to = n /\ Kept(n, <<"RESULT", c, a>>).cycle = c
        BY DEF Kept
      <3> QED
        BY <3>3, <3>4, <3>5, <3>6
    <2>3. \/ x \in net' /\ x.type \in FlightTypes
          \/ \E p \in Node : \E w \in waiting'[p] : x = Kept(p, w)
      BY DEF Flights, FlightTypes
    <2> QED
      BY <2>1, <2>2, <2>3 DEF Begins
  <1>8. \A d \in Cycle : VotesSame(d)
    BY <1>4, <1>5 DEF VotesSame, VoteTypes, Begins
  <1>9. net' \subseteq Messages
    BY <1>1, <1>4, <1>5 DEF Begins
  <1> QED
    BY <1>3, <1>6, <1>7, <1>8, <1>9

-----------------------------------------------------------------------------
(* The steps of the abstract cycles.                                          *)
Holds(n, a, c) == c \in storage[n] \/ a \in status[n][c].answered

(* Nothing is learnt that was not produced, and nothing is learnt twice.      *)
Gains(n, a, c) ==
    /\ a \in BG /\ c \in Cycle /\ c < next_cycle[a] /\ ~Holds(n, a, c)
    /\ \A m \in Node, b \in BG, d \in Cycle :
          Holds(m, b, d)' <=> Holds(m, b, d) \/ (m = n /\ b = a /\ d = c)
GainsNothing == \A m \in Node, b \in BG, d \in Cycle : Holds(m, b, d)' <=> Holds(m, b, d)

Finishes(n, c) ==
    /\ c \in Cycle /\ c \notin storage[n]
    /\ \A b \in BG : Holds(n, b, c)'
    /\ storage' = [storage EXCEPT ![n] = @ \union {c}]

Produces(b) == next_cycle[b] \in Cycle /\ next_cycle' = [next_cycle EXCEPT ![b] = @ + 1]

AbstractStep(n) ==
    /\ GainsNothing \/ \E a \in BG, c \in Cycle : Gains(n, a, c)
    /\ storage' = storage \/ \E c \in Cycle : Finishes(n, c)
    /\ next_cycle' = next_cycle \/ Produces(n[1])

(* A group that logs a batch produces it in Cycles.                           *)
LEMMA GrowsProduces ==
    ASSUME NEW b \in BG, Grows(b)
    PROVE  next_cycle' = next_cycle \/ Produces(b)
  <1>1. \A e \in Entry : e.cycle \in Cycle
    BY DEF Entry, Original!Entry, Cycle
  <1> QED
    BY <1>1 DEF Grows, Appends, Produces

(* What other SLs hold of a cycle stays.                                      *)
LEMMA HoldsElsewhere ==
    ASSUME NEW n \in Node, NEW c \in Cycle, Elsewhere(n, c)
    PROVE  \A m \in Node, d \in Cycle : \A b : m # n \/ d # c => (Holds(m, b, d)' <=> Holds(m, b, d))
  BY DEF Elsewhere, Holds

(* The first result of cycle c, or one more, at SL n.                         *)
LEMMA GainsOne ==
    ASSUME NEW n \in Node, NEW c \in Cycle, Elsewhere(n, c), NEW a \in BG, Grows(n[1]), n[1] \in BG,
           c < next_cycle[a], c \notin storage[n], a \notin status[n][c].answered,
           storage' = storage, status'[n][c].answered = status[n][c].answered \union {a}
    PROVE  AbstractStep(n)
  <1>1. Gains(n, a, c)
    BY HoldsElsewhere DEF Gains, Holds
  <1> QED
    BY <1>1, GrowsProduces DEF AbstractStep

(* A step that brings no answer is a stutter, or a batch, in Cycles.          *)
LEMMA GainsNone ==
    ASSUME NEW n \in Node, NEW c \in Cycle, Elsewhere(n, c), Grows(n[1]), n[1] \in BG,
           storage' = storage, status'[n][c].answered = status[n][c].answered
    PROVE  AbstractStep(n)
  <1>1. GainsNothing
    BY HoldsElsewhere DEF GainsNothing, Holds
  <1> QED
    BY <1>1, GrowsProduces DEF AbstractStep

(* SL n, which holds all results of cycle c, puts it into its storage.        *)
LEMMA FinishesOne ==
    ASSUME TypeOK, NEW n \in Node, NEW c \in Cycle, Elsewhere(n, c), Grows(n[1]), n[1] \in BG,
           c \notin storage[n], status[n][c].answered = BG,
           storage' = [storage EXCEPT ![n] = @ \union {c}]
    PROVE  AbstractStep(n)
  <1>1. c \in storage'[n]
    BY DEF TypeOK
  <1>2. \A b \in BG : Holds(n, b, c)' /\ Holds(n, b, c)
    BY <1>1 DEF Holds
  <1>3. GainsNothing
    BY <1>2, HoldsElsewhere DEF GainsNothing
  <1>4. Finishes(n, c)
    BY <1>2 DEF Finishes
  <1> QED
    BY <1>3, <1>4, GrowsProduces DEF AbstractStep

(* A step that only logs is one too.                                          *)
LEMMA QuietAbstract ==
    ASSUME NEW b \in BG, Grows(b), UNCHANGED <<status, storage>>
    PROVE  \E n \in Node : AbstractStep(n)
  <1>1. Leader(b) \in Node /\ Leader(b)[1] = b
    BY Groups
  <1>2. AbstractStep(Leader(b))
    BY <1>1, GrowsProduces DEF AbstractStep, GainsNothing, Holds
  <1> QED
    BY <1>1, <1>2

(* The commit of a batch.                                                     *)
LEMMA CommitFromClientStep ==
    ASSUME IInv, NEW n \in Node, Original!CanCommit(n), NEW e \in Entry, e = NextEntry(n),
           CommitFromClient(n, e), failed' = failed
    PROVE  IInv' /\ AbstractStep(n)
  <1>1. TypeOK /\ LogOK /\ Stages /\ FlightsOK /\ AskedOnce /\ Agreement /\ n[1] \in BG
    BY Groups DEF IInv
  <1>2. PICK c \in Cycle : c = e.cycle
    BY DEF Entry, Original!Entry, Cycle
  <1>3. e.requestType = FROM_CLIENT /\ storage' = storage
    BY DEF CommitFromClient, FROM_CLIENT
  <1>4. Advances(n) /\ Grows(n[1])
    BY <1>1, FinallyGrows DEF CommitFromClient
  <1>5. PICK A \in SUBSET Node : \E Q : Begins(n, c, A, Q)
    BY <1>1, <1>2, AskAndAnswerBegins DEF CommitFromClient
  <1>6. PICK Q : Begins(n, c, A, Q)
    BY <1>5
  <1>7. PICK s \in Status : s = [state |-> "REPLICATED_RESULTS", counter |-> 0, answered |-> {n[1]}]
    BY <1>1, NewStatus, SomeStatuses DEF States
  <1>8. /\ status' \in [Node -> [Cycle -> Status]]
        /\ status'[n][c] = s
        /\ \A m \in Node, d \in Cycle : m # n \/ d # c => status'[m][d] = status[m][d]
    BY <1>1, <1>2, <1>7, StatusUpdate DEF CommitFromClient
  <1>9. Elsewhere(n, c)
    BY <1>3, <1>8 DEF Elsewhere
  <1>10. ~Begun(n, c) /\ c < next_cycle[n[1]]
    BY <1>1, <1>2, <1>3, BatchIsNew
  <1>11. St(n, c) = "NONE" /\ c \notin storage[n]
    BY <1>1, <1>10 DEF Stages, StageOK
  <1>12. Stages'
    <2>1. \A m \in Node, d \in Cycle :
             Begun(m, d)' <=> Begun(m, d) \/ (m = n /\ d = c)
      BY <1>1, <1>2, <1>3, <1>4, BegunAdvanced
    <2>2. StageOK(n, c)'
      <3>1. Begun(n, c)' /\ St(n, c)' = "REPLICATED_RESULTS" /\ c \notin storage'[n]
        BY <1>3, <1>7, <1>8, <1>11, <2>1 DEF St
      <3> QED
        BY <3>1 DEF StageOK
    <2> QED
      BY <1>1, <1>9, <2>1, <2>2, StagesCarried
  <1> DEFINE Gone == {Kept(n, <<"RESULT", c, a>>) : a \in A}
             Answers == {ResponseOf(n, c, a) : a \in A}
  <1>13. /\ Flights' \subseteq (Flights \ Gone) \union (Answers \union Q)
         /\ Gone \subseteq Flights
         /\ \A d \in Cycle : VotesSame(d)
         /\ net' \subseteq Messages
         /\ waiting' \in [Node -> SUBSET ({"RESULT"} \X Cycle \X Node)]
    <2>1. /\ Flights' \subseteq (Flights \ Gone) \union (Answers \union Q)
          /\ \A a \in A : Kept(n, <<"RESULT", c, a>>) \in Flights
          /\ \A d \in Cycle : VotesSame(d)
          /\ net' \subseteq Messages
          /\ waiting' \in [Node -> SUBSET ({"RESULT"} \X Cycle \X Node)]
      BY <1>1, <1>6, BeginsFlights
    <2>2. Gone \subseteq Flights
      BY <2>1
    <2> HIDE DEF Gone, Answers
    <2> QED
      BY <2>1, <2>2
  <1>14. \A x \in Flights : Asker(x) # n \/ x.cycle # c
    BY <1>1, <1>11, NothingAsked
  <1>15. \A a \in A : SameQuestion(Kept(n, <<"RESULT", c, a>>), ResponseOf(n, c, a))
    BY DEF SameQuestion, Kept, ResponseOf, Asker, Asked
  <1>16. \A y \in Q : /\ y.type = "REQUEST" /\ Asker(y) = n /\ y.cycle = c
                      /\ Asked(y) = y.to[1] /\ Asked(y) \in BG \ {n[1]}
    <2> SUFFICES ASSUME NEW y \in Q
                 PROVE  /\ y.type = "REQUEST" /\ Asker(y) = n /\ y.cycle = c
                        /\ Asked(y) = y.to[1] /\ Asked(y) \in BG \ {n[1]}
      OBVIOUS
    <2>1. PICK b \in BG \ {n[1]} : \E t \in SL : y = RequestOf(n, c, b, t)
      BY <1>6 DEF Begins
    <2>2. PICK t \in SL : y = RequestOf(n, c, b, t)
      BY <2>1
    <2>3. y.type = "REQUEST" /\ y.from = n /\ y.cycle = c /\ y.to = <<b, t>>
      BY <2>2 DEF RequestOf
    <2> QED
      BY <2>1, <2>3 DEF Asker, Asked
  <1>17. AskedOnce'
    <2> PICK G : G = Gone
      OBVIOUS
    <2> PICK New : New = Answers \union Q
      OBVIOUS
    <2>1. \A y \in New : (\E x \in G : SameQuestion(x, y)) \/ (\A x \in Flights : ~SameQuestion(x, y))
      <3>1. \A y \in Answers : \E x \in G : SameQuestion(x, y)
        BY <1>15
      <3>2. \A y \in Q : \A x \in Flights : ~SameQuestion(x, y)
        BY <1>14, <1>16 DEF SameQuestion
      <3> HIDE DEF Answers
      <3> QED
        BY <3>1, <3>2
    <2>2. ASSUME NEW y \in New, NEW z \in New, SameQuestion(y, z) PROVE y = z
      <3>1. CASE y \in Answers /\ z \in Answers
        <4>1. PICK a \in A : y = ResponseOf(n, c, a)
          BY <3>1
        <4>2. PICK d \in A : z = ResponseOf(n, c, d)
          BY <3>1
        <4>3. y.type = "RESPONSE" /\ y.to = a /\ z.type = "RESPONSE" /\ z.to = d
          BY <4>1, <4>2 DEF ResponseOf
        <4> QED
          BY <2>2, <4>1, <4>2, <4>3 DEF SameQuestion, Asker
      <3>2. \A u \in Answers, v \in Q : ~SameQuestion(u, v) /\ ~SameQuestion(v, u)
        <4> SUFFICES ASSUME NEW a \in A, NEW v \in Q
                     PROVE  ~SameQuestion(ResponseOf(n, c, a), v) /\ ~SameQuestion(v, ResponseOf(n, c, a))
          OBVIOUS
        <4>1. Kept(n, <<"RESULT", c, a>>) \in Flights
          BY <1>13
        <4> QED
          BY <1>14, <1>15, <1>16, <4>1 DEF SameQuestion
      <3>3. CASE y \in Q /\ z \in Q
        <4>1. y.to[1] = z.to[1]
          BY <1>16, <2>2, <3>3 DEF SameQuestion
        <4> QED
          BY <1>6, <3>3, <4>1 DEF Begins
      <3> HIDE DEF Answers
      <3> QED
        BY <2>2, <3>1, <3>2, <3>3
    <2>3. G \subseteq Flights /\ Flights' \subseteq (Flights \ G) \union New
      BY <1>13
    <2> HIDE DEF Gone, Answers
    <2> QED
      BY <1>1, <2>1, <2>2, <2>3, AskedOnceStep
  <1>18. FlightsOK'
    <2> SUFFICES ASSUME NEW x \in Flights' PROVE FlightOK(x)'
      BY DEF FlightsOK
    <2>1. ASSUME NEW y \in Flights PROVE FlightOK(y) /\ FlightOK(y)'
      <3>1. Asker(y) \in Node /\ y.cycle \in Cycle /\ FlightOK(y)
        BY <1>1, FlightFields DEF FlightsOK
      <3>2. status'[Asker(y)][y.cycle] = status[Asker(y)][y.cycle]
        BY <1>8, <1>14, <3>1
      <3> QED
        BY <1>1, <1>4, <3>1, <3>2, FlightCarried
    <2>2. ASSUME NEW a \in A, x = ResponseOf(n, c, a) PROVE FlightOK(x)'
      <3>1. PICK y \in Flights : y = Kept(n, <<"RESULT", c, a>>)
        BY <1>13
      <3>2. FlightOK(y)' /\ SameQuestion(y, x)
        BY <1>15, <2>1, <2>2, <3>1
      <3>3. next_cycle[n[1]] <= next_cycle'[n[1]] /\ c \in Nat
            /\ next_cycle[n[1]] \in Nat /\ next_cycle'[n[1]] \in Nat
        BY <1>1, <1>4, Growth, Sizes DEF TypeOK
      <3>4. c < next_cycle'[n[1]]
        BY <1>10, <3>3
      <3>5. x.bg = n[1] /\ x.cycle = c
        BY <2>2 DEF ResponseOf
      <3> QED
        BY <3>2, <3>4, <3>5 DEF FlightOK, SameQuestion, St
    <2>3. ASSUME x \in Q PROVE FlightOK(x)'
      <3>1. status'[Asker(x)][x.cycle] = s /\ x.type = "REQUEST" /\ Asked(x) # n[1]
        BY <1>8, <1>16, <2>3
      <3> QED
        BY <1>7, <3>1 DEF FlightOK, St
    <2> QED
      BY <1>13, <2>1, <2>2, <2>3
  <1>19. Agreement'
    <2>1. St(n, c)' = "REPLICATED_RESULTS"
      BY <1>7, <1>8 DEF St
    <2> QED
      BY <1>1, <1>3, <1>9, <1>11, <1>13, <2>1, AgreementApart DEF VoteStates, Voting
  <1>20. storage' \in [Node -> SUBSET Cycle]
    BY <1>1, <1>3 DEF TypeOK
  <1>21. AbstractStep(n)
    <2>1. status[n][c].answered = {} /\ status'[n][c].answered = {n[1]}
      BY <1>1, <1>7, <1>8, <1>11 DEF Stages, StageOK
    <2> QED
      BY <1>1, <1>3, <1>4, <1>9, <1>10, <1>11, <2>1, GainsOne
  <1> HIDE DEF Gone, Answers
  <1> QED
    BY <1>1, <1>4, <1>8, <1>12, <1>13, <1>17, <1>18, <1>19, <1>20, <1>21, Together

-----------------------------------------------------------------------------
(* FullCommit of the connectivity of the group.                               *)

(* The global leader starts the agreement on cycle c.                         *)
LEMMA StartAgreement ==
    ASSUME TypeOK, Stages, Agreement, NEW c \in Cycle, NEW col \in BG,
           LET n == Leader(GlobalBG)
           IN  /\ Elsewhere(n, c)
               /\ St(n, c) = "LOCAL_CONNECTIVITY" /\ St(n, c)' = "PREPREPARE_BASELINE"
               /\ c \in storage'[n] <=> c \in storage[n],
           net' = net \union PreprepareTo(c, col, Leaders)
    PROVE  Agreement'
  <1> DEFINE n == Leader(GlobalBG)
  <1>1. n \in Node
    BY Groups, GlobalAssumption
  <1>2. \A m \in PreprepareTo(c, col, Leaders) :
           m.cycle = c /\ m.type = "PREPREPARE_BASELINE" /\ m.collector = col /\ m.to \in Leaders
    BY DEF PreprepareTo
  <1>3. \A d \in Cycle \ {c} : VotesSame(d)
    BY <1>2 DEF VotesSame
  <1>4. c \notin storage[n]
    BY <1>1 DEF Stages, StageOK
  <1>5. PICK old \in BG : AgreementOn(c, old)
    BY DEF Agreement
  <1>6. ~Sent(c) /\ \A b \in BG : ~Voted(b, c)
    <2>1. ~Sent(c)
      BY <1>4 DEF Sent, VoteStates
    <2> QED
      BY <1>5, <2>1 DEF AgreementOn
  <1>7. ~AllDone(c)
    BY <1>6, GlobalAssumption DEF AllDone, Voted
  <1>8. ASSUME NEW b \in BG
        PROVE  /\ ~Voted(b, c)'
               /\ St(Leader(b), c)' # "PARTIALCOMMITS_BASELINE"
               /\ c \notin storage'[Leader(b)]
    <2>1. Leader(b) \in Node /\ St(Leader(b), c) \notin Voting /\ c \notin storage[Leader(b)]
      BY <1>6, Groups DEF Voted, Done, Voting
    <2>2. St(Leader(b), c)' \notin Voting /\ c \notin storage'[Leader(b)]
      <3>1. CASE Leader(b) = n
        BY <1>4, <3>1 DEF Voting
      <3>2. CASE Leader(b) # n
        BY <2>1, <3>2 DEF Elsewhere, St
      <3> QED
        BY <3>1, <3>2
    <2> QED
      BY <2>2 DEF Voted, Done, Voting
  <1>9. Sent(c)'
    BY DEF Sent, VoteStates
  <1>10. ASSUME NEW m \in net', m.cycle = c PROVE MessageOK(m, c, col)'
    <2>1. CASE m \in net
      <3>1. MessageOK(m, c, old) /\ m \in Messages
        BY <1>5, <1>10, <2>1 DEF AgreementOn, TypeOK
      <3>2. m.type = "PARTIAL_COMMIT_BASELINE" => m.bg \in BG
        BY <3>1, MessageFields
      <3> QED
        BY <1>6, <1>7, <3>1, <3>2 DEF MessageOK
    <2>2. CASE m \in PreprepareTo(c, col, Leaders)
      <3>1. PICK b \in BG : m.to = Leader(b)
        BY <1>2, <2>2 DEF Leaders
      <3>2. m.to[1] = b
        BY <3>1, Groups
      <3> QED
        BY <1>2, <1>8, <1>9, <2>2, <3>1, <3>2 DEF MessageOK
    <2> QED
      BY <2>1, <2>2
  <1>11. Counted(c, col)' = {}
    BY <1>8 DEF Counted
  <1>12. AgreementOn(c, col)'
    BY <1>8, <1>9, <1>10, <1>11 DEF AgreementOn
  <1> QED
    BY <1>1, <1>3, <1>12, AgreementStep

(* The commit of a connectivity request.                                      *)
LEMMA CommitLocalConnectivityStep ==
    ASSUME IInv, NEW n \in Node, Original!CanCommit(n), NEW e \in Entry, e = NextEntry(n),
           CommitLocalConnectivity(n, e), failed' = failed
    PROVE  IInv' /\ AbstractStep(n)
  <1>1. TypeOK /\ LogOK /\ Stages /\ FlightsOK /\ AskedOnce /\ Agreement /\ n[1] \in BG
    BY Groups DEF IInv
  <1>2. PICK c \in Cycle : c = e.cycle
    BY DEF Entry, Original!Entry, Cycle
  <1>3. e.requestType # FROM_CLIENT /\ St(n, c) = "LOCAL_CONNECTIVITY" /\ waiting' = waiting
    BY <1>2 DEF CommitLocalConnectivity, FROM_CLIENT, Original!FROM_CLIENT,
                Original!LOCAL_CONNECTIVITY, HasAllAnswers, St
  <1>4. Advances(n) /\ Grows(n[1])
    BY <1>1, FinallyGrows DEF CommitLocalConnectivity
  <1>5. Begun(n, c) /\ c \notin storage[n] /\ status[n][c].answered = BG
    BY <1>1, <1>3 DEF Stages, StageOK
  <1>6. BegunStays
    BY <1>1, <1>3, <1>4, BegunAdvanced DEF BegunStays
  <1>7. /\ status' \in [Node -> [Cycle -> Status]] /\ storage' \in [Node -> SUBSET Cycle]
        /\ Elsewhere(n, c)
        /\ \/ /\ n = Leader(n[1]) /\ storage' = storage
              /\ St(n, c)' = "PREPREPARE_BASELINE" /\ status'[n][c].answered = BG
           \/ /\ n # Leader(n[1]) /\ c \in storage'[n]
              /\ storage' = [storage EXCEPT ![n] = @ \union {c}]
              /\ St(n, c)' = "NONE" /\ status'[n][c].answered = {}
    <2>1. CASE n = Leader(n[1])
      <3>1. PICK k \in Status : k = [state |-> "PREPREPARE_BASELINE", counter |-> 0, answered |-> BG]
        BY NewStatus, SomeStatuses DEF States
      <3>2. [status[n][c] EXCEPT !.state = "PREPREPARE_BASELINE", !.counter = 0] = k
        <4>1. PICK s \in Status : s = status[n][c]
          BY <1>1, StatusTypes
        <4>2. [s EXCEPT !.state = "PREPREPARE_BASELINE", !.counter = 0]
                = [state |-> "PREPREPARE_BASELINE", counter |-> 0, answered |-> s.answered]
          BY StatusWithStage
        <4>3. [s EXCEPT !.state = "PREPREPARE_BASELINE", !.counter = 0] = k
          BY <1>5, <3>1, <4>1, <4>2
        <4> QED
          BY <4>1, <4>3
      <3>3. Original!SetStatus(n, c, k) /\ storage' = storage
        BY <1>2, <2>1, <3>2 DEF CommitLocalConnectivity
      <3> QED
        BY <1>1, <2>1, <3>1, <3>3, StatusUpdate DEF Elsewhere, St, TypeOK
    <2>2. CASE n # Leader(n[1])
      <3>1. Original!SetStatus(n, c, Unknown) /\ storage' = [storage EXCEPT ![n] = @ \union {c}]
        BY <1>2, <2>2 DEF CommitLocalConnectivity
      <3>2. PICK k \in Status : k = Unknown
        BY SomeStatuses
      <3>3. /\ status' \in [Node -> [Cycle -> Status]]
            /\ status'[n][c] = k
            /\ \A m \in Node, d \in Cycle : m # n \/ d # c => status'[m][d] = status[m][d]
        BY <1>1, <3>1, <3>2, StatusUpdate
      <3> QED
        BY <1>1, <2>2, <3>1, <3>2, <3>3, StorageUpdate, SomeStatuses DEF Elsewhere, St
    <2> QED
      BY <2>1, <2>2
  <1>8. Stages'
    <2>1. StageOK(n, c)'
      BY <1>5, <1>6, <1>7 DEF StageOK, BegunStays
    <2> QED
      BY <1>1, <1>6, <1>7, <2>1, StagesCarried DEF BegunStays
  <1>9. \/ net' = net /\ n # Leader(GlobalBG)
        \/ n = Leader(GlobalBG) /\ \E col \in BG : net' = net \union PreprepareTo(c, col, Leaders)
    BY <1>2 DEF CommitLocalConnectivity
  <1>10. \A col \in BG : PreprepareTo(c, col, Leaders) \subseteq
            {m \in Messages : m.type = "PREPREPARE_BASELINE"}
    BY Groups DEF PreprepareTo, Leaders, Messages
  <1>11. net' \subseteq Messages
    BY <1>1, <1>9, <1>10 DEF TypeOK
  <1>12. Flights' = Flights
    BY <1>3, <1>9, <1>10, FlightsSame DEF FlightTypes
  <1>13. FlightsOK' /\ AskedOnce'
    BY <1>1, <1>3, <1>4, <1>7, <1>12, FlightsOKSame, AskedOnceSame
  <1>14. Agreement'
    <2>1. CASE net' = net /\ n # Leader(GlobalBG)
      <3>1. \A d \in Cycle : VotesSame(d)
        BY <2>1 DEF VotesSame
      <3>2. n = Leader(n[1]) => St(n, c)' = "PREPREPARE_BASELINE" /\ storage' = storage
        BY <1>7
      <3> QED
        BY <1>1, <1>3, <1>7, <2>1, <3>1, <3>2, AgreementApart DEF VoteStates, Voting
    <2>2. CASE n = Leader(GlobalBG) /\ \E col \in BG : net' = net \union PreprepareTo(c, col, Leaders)
      <3>1. n = Leader(n[1])
        BY <2>2, Groups, GlobalAssumption
      <3>2. PICK col \in BG : net' = net \union PreprepareTo(c, col, Leaders)
        BY <2>2
      <3> QED
        BY <1>1, <1>3, <1>7, <2>2, <3>1, <3>2, StartAgreement
    <2> QED
      BY <1>9, <2>1, <2>2
  <1>15. waiting' \in [Node -> SUBSET ({"RESULT"} \X Cycle \X Node)]
    BY <1>1, <1>3 DEF TypeOK
  <1>16. AbstractStep(n)
    BY <1>1, <1>4, <1>5, <1>7, GainsNone, FinishesOne
  <1> QED
    BY <1>1, <1>4, <1>7, <1>8, <1>11, <1>13, <1>14, <1>15, <1>16, Together

-----------------------------------------------------------------------------
(* Requests and responses.                                                    *)

(* A request becomes a response, or is kept.                                  *)
LEMMA FlightHandedOn ==
    ASSUME TypeOK, NEW m \in Flights, NEW r,
           Flights' \subseteq (Flights \ {m}) \union {r}, SameQuestion(m, r),
           AskedOnce
    PROVE  AskedOnce'
  <1> PICK Gone : Gone = {m}
    OBVIOUS
  <1> PICK New : New = {r}
    OBVIOUS
  <1>1. /\ Gone \subseteq Flights /\ Flights' \subseteq (Flights \ Gone) \union New
        /\ \A y \in New : \E x \in Gone : SameQuestion(x, y)
        /\ \A y, z \in New : SameQuestion(y, z) => y = z
    OBVIOUS
  <1> QED
    BY <1>1, AskedOnceStep

(* A question of another SL.                                                  *)
LEMMA HandleFetchRequestStep ==
    ASSUME IInv, NEW m \in net, HandleFetchRequest(m)
    PROVE  IInv' /\ \E n \in Node : AbstractStep(n)
  <1>1. TypeOK /\ LogOK /\ Stages /\ FlightsOK /\ AskedOnce /\ Agreement
    BY DEF IInv
  <1>2. /\ m.type = "REQUEST"
        /\ UNCHANGED <<log, applied, scheduler, status, storage, failed>>
    BY DEF HandleFetchRequest
  <1>3. /\ m \in Messages /\ m.cycle \in Cycle /\ m.to \in Node /\ m.to[1] \in BG
        /\ m.from \in Node /\ m.kind = "RESULT"
    BY <1>1, <1>2, MessageFields DEF TypeOK
  <1>4. m \in Flights /\ FlightOK(m) /\ Asker(m) = m.from /\ Asked(m) = m.to[1]
    BY <1>1, <1>2, FlightMembers DEF FlightsOK, FlightTypes, Asker, Asked
  <1>5. Grows(m.to[1]) /\ applied' = applied
    BY <1>1, <1>2, <1>3, IdleGrows
  <1>6. BegunStays
    BY <1>1, <1>3, <1>5, BegunAfter DEF BegunStays
  <1>7. Stages'
    BY <1>1, <1>2, <1>6, StagesSame
  <1>8. \E r : /\ Flights' \subseteq (Flights \ {m}) \union {r}
               /\ SameQuestion(m, r)
               /\ r.type = "RESPONSE" => r.bg = m.to[1] /\ r.cycle < next_cycle[m.to[1]]
               /\ \A d \in Cycle : VotesSame(d)
               /\ net' \subseteq Messages
               /\ waiting' \in [Node -> SUBSET ({"RESULT"} \X Cycle \X Node)]
    <2>1. CASE /\ Begun(m.to, m.cycle)
               /\ Answer(m, "RESULT") \/ Answer(m, "FAKE")
      <3>1. PICK k \in {"RESULT", "FAKE"} : Answer(m, k)
        BY <2>1
      <3>2. PICK r : r = [type |-> "RESPONSE", kind |-> k, cycle |-> m.cycle,
                          bg |-> m.to[1], to |-> m.from]
        OBVIOUS
      <3>3. net' = (net \ {m}) \union {r} /\ waiting' = waiting
        BY <3>1, <3>2 DEF Answer
      <3>4. r \in Messages
        BY <1>3, <3>2 DEF Messages
      <3>5. SameQuestion(m, r)
        BY <1>4, <3>2 DEF SameQuestion, Asker, Asked
      <3>6. Flights' \subseteq (Flights \ {m}) \union {r}
        <4>1. \A p \in Node, w \in waiting[m.to] : Kept(p, w).type = "KEPT"
          BY DEF Kept
        <4>2. \A p \in Node : \A w \in waiting[p] : Kept(p, w) # m
          BY <1>2 DEF Kept
        <4> QED
          BY <3>3, <4>2 DEF Flights
      <3>7. \A d \in Cycle : VotesSame(d)
        BY <1>2, <3>2, <3>3 DEF VotesSame, VoteTypes
      <3>8. m.cycle < next_cycle[m.to[1]]
        BY <1>1, <1>3, <2>1, BegunIsProposed
      <3>9. r.bg = m.to[1] /\ r.cycle = m.cycle
        BY <3>2
      <3> QED
        BY <1>1, <3>3, <3>4, <3>5, <3>6, <3>7, <3>8, <3>9 DEF TypeOK
    <2>2. CASE Original!KeepWaiting(m)
      <3>1. PICK w \in {"RESULT"} \X Cycle \X Node : w = <<m.kind, m.cycle, m.from>>
        BY <1>3
      <3>2. waiting' = [waiting EXCEPT ![m.to] = @ \union {w}] /\ net' = net \ {m}
        BY <2>2, <3>1 DEF Original!KeepWaiting
      <3>3. PICK r : r = Kept(m.to, w)
        OBVIOUS
      <3>4. r.type = "KEPT" /\ r.cycle = m.cycle /\ r.from = m.from /\ r.to = m.to
        BY <3>1, <3>3 DEF Kept
      <3>5. SameQuestion(m, r)
        BY <1>4, <3>4 DEF SameQuestion, Asker, Asked
      <3>6. waiting \in [Node -> SUBSET ({"RESULT"} \X Cycle \X Node)]
        BY <1>1 DEF TypeOK
      <3>7. ASSUME NEW x \in Flights' PROVE x \in (Flights \ {m}) \union {r}
        <4>1. CASE x \in net' /\ x.type \in FlightTypes
          BY <3>2, <4>1, FlightMembers
        <4>2. CASE \E p \in Node : \E v \in waiting'[p] : x = Kept(p, v)
          <5>1. PICK p \in Node : \E v \in waiting'[p] : x = Kept(p, v)
            BY <4>2
          <5>2. PICK v \in waiting'[p] : x = Kept(p, v)
            BY <5>1
          <5>3. v \in waiting[p] \/ (p = m.to /\ v = w)
            BY <1>3, <3>2, <3>6
          <5>4. x.type = "KEPT"
            BY <5>2 DEF Kept
          <5> QED
            BY <1>2, <3>3, <5>2, <5>3, <5>4, FlightMembers
        <4> QED
          BY <4>1, <4>2 DEF Flights, FlightTypes
      <3>8. \A d \in Cycle : VotesSame(d)
        BY <1>2, <3>2 DEF VotesSame, VoteTypes
      <3>9. waiting' \in [Node -> SUBSET ({"RESULT"} \X Cycle \X Node)]
        BY <1>3, <3>2, <3>6
      <3> QED
        BY <1>1, <3>2, <3>4, <3>5, <3>7, <3>8, <3>9 DEF TypeOK
    <2>3. Known(m.to, m.cycle) \/ m.cycle \in storage[m.to] => Begun(m.to, m.cycle)
      BY <1>1, <1>3 DEF Stages, StageOK, Known, Original!Known, St
    <2> QED
      BY <2>1, <2>2, <2>3 DEF HandleFetchRequest
  <1>9. PICK r :
               /\ Flights' \subseteq (Flights \ {m}) \union {r}
               /\ SameQuestion(m, r)
               /\ r.type = "RESPONSE" => r.bg = m.to[1] /\ r.cycle < next_cycle[m.to[1]]
               /\ \A d \in Cycle : VotesSame(d)
               /\ net' \subseteq Messages
               /\ waiting' \in [Node -> SUBSET ({"RESULT"} \X Cycle \X Node)]
    BY <1>8
  <1>10. AskedOnce'
    BY <1>1, <1>4, <1>9, FlightHandedOn
  <1>11. FlightsOK'
    <2>1. ASSUME NEW x \in Flights PROVE FlightOK(x)'
      BY <1>1, <1>2, <1>3, <1>5, FlightCarried DEF FlightsOK
    <2>2. FlightOK(r)'
      BY <1>2, <1>4, <1>9 DEF FlightOK, SameQuestion, St, scheduler
    <2> QED
      BY <1>9, <2>1, <2>2 DEF FlightsOK
  <1>12. Agreement'
    <2>1. \A c \in Cycle : LeadersSame(c) /\ VotesSame(c)
      BY <1>2, <1>9 DEF LeadersSame, St, Sent
    <2> QED
      BY <1>1, <2>1, AgreementSame
  <1>13. /\ status' \in [Node -> [Cycle -> Status]]
         /\ storage' \in [Node -> SUBSET Cycle]
    BY <1>1, <1>2 DEF TypeOK
  <1> QED
    BY <1>2, <1>3, <1>5, <1>7, <1>9, <1>10, <1>11, <1>12, <1>13, Together, QuietAbstract

(* What a FetchResponse does to the status of the cycle.                      *)
Answers(n, c, b) ==
    /\ Elsewhere(n, c)
    /\ status'[n][c].answered = status[n][c].answered \union {b}
    /\ St(n, c)' = IF status'[n][c].answered = BG THEN "LOCAL_CONNECTIVITY" ELSE St(n, c)

(* An answer fills a slot of the SL that asked.                               *)
LEMMA FetchResponseAnswers ==
    ASSUME TypeOK, NEW m \in net, HandleFetchResponse(m)
    PROVE  /\ m \in Messages /\ m.cycle \in Cycle /\ m.to \in Node /\ m.bg \in BG
           /\ Answers(m.to, m.cycle, m.bg)
           /\ status' \in [Node -> [Cycle -> Status]]
  <1>1. m \in Messages /\ m.cycle \in Cycle /\ m.to \in Node /\ m.bg \in BG
    BY MessageFields DEF TypeOK, HandleFetchResponse
  <1>2. PICK n \in Node : n = m.to
    BY <1>1
  <1>3. PICK c \in Cycle : c = m.cycle
    BY <1>1
  <1>4. PICK s \in Status : s = status[n][c]
    BY StatusTypes
  <1>5. /\ s.answered \union {m.bg} \in SUBSET BG /\ s.state \in States /\ s.counter \in 0..(NumBG - 1)
        /\ s.state = St(n, c)
    BY <1>1, <1>4, StatusTypes DEF St
  <1>6. PICK held \in Status :
          held = [state |-> s.state, counter |-> s.counter, answered |-> s.answered \union {m.bg}]
    BY <1>5, NewStatus
  <1>7. PICK all \in Status :
          all = [state |-> "LOCAL_CONNECTIVITY", counter |-> 0, answered |-> s.answered \union {m.bg}]
    BY <1>5, NewStatus, SomeStatuses DEF States
  <1>8. [s EXCEPT !.answered = @ \union {m.bg}] = held
    BY <1>6, StatusWithAnswer
  <1>9. [held EXCEPT !.state = "LOCAL_CONNECTIVITY", !.counter = 0] = all
    <2>1. [held EXCEPT !.state = "LOCAL_CONNECTIVITY", !.counter = 0]
            = [state |-> "LOCAL_CONNECTIVITY", counter |-> 0, answered |-> held.answered]
      BY StatusWithStage
    <2> QED
      BY <1>6, <1>7, <2>1
  <1>10. PICK k \in Status : k = IF held.answered = BG THEN all ELSE held
    OBVIOUS
  <1>11. Original!SetStatus(n, c, k) /\ storage' = storage
    BY <1>2, <1>3, <1>4, <1>8, <1>9, <1>10 DEF HandleFetchResponse, AllAnswered
  <1>12. /\ status' \in [Node -> [Cycle -> Status]]
         /\ status'[n][c] = k
         /\ \A p \in Node, d \in Cycle : p # n \/ d # c => status'[p][d] = status[p][d]
    BY <1>11, StatusUpdate
  <1>13. Elsewhere(n, c)
    BY <1>11, <1>12 DEF Elsewhere
  <1>14. held.answered = s.answered \union {m.bg} /\ held.state = s.state
         /\ all.answered = s.answered \union {m.bg} /\ all.state = "LOCAL_CONNECTIVITY"
    BY <1>6, <1>7
  <1>15. /\ status'[n][c].answered = status[n][c].answered \union {m.bg}
         /\ St(n, c)' = IF status'[n][c].answered = BG THEN "LOCAL_CONNECTIVITY" ELSE St(n, c)
    BY <1>4, <1>5, <1>10, <1>12, <1>14 DEF St
  <1>16. Answers(n, c, m.bg)
    BY <1>13, <1>15 DEF Answers
  <1> QED
    BY <1>1, <1>2, <1>3, <1>12, <1>16

(* An answer of another SL.                                                   *)
LEMMA HandleFetchResponseStep ==
    ASSUME IInv, NEW m \in net, HandleFetchResponse(m)
    PROVE  IInv' /\ AbstractStep(m.to)
  <1>1. TypeOK /\ LogOK /\ Stages /\ FlightsOK /\ AskedOnce /\ Agreement
    BY DEF IInv
  <1>2. /\ m.type = "RESPONSE" /\ net' = net \ {m}
        /\ UNCHANGED <<applied, waiting, storage, failed>>
    BY DEF HandleFetchResponse
  <1>3. PICK n \in Node : n = m.to /\ n[1] \in BG
    BY <1>1, MessageFields DEF TypeOK
  <1>4. PICK c \in Cycle : c = m.cycle
    BY <1>1, MessageFields DEF TypeOK
  <1>5. Answers(n, c, m.bg) /\ status' \in [Node -> [Cycle -> Status]] /\ m.bg \in BG
    BY <1>1, <1>3, <1>4, FetchResponseAnswers
  <1>6. m \in Flights /\ FlightOK(m) /\ Asker(m) = n /\ Asked(m) = m.bg
    BY <1>1, <1>2, <1>3, FlightMembers DEF FlightsOK, FlightTypes, Asker, Asked
  <1>7. St(n, c) = "REPLICATED_RESULTS" /\ m.bg \notin status[n][c].answered
    BY <1>4, <1>6 DEF FlightOK
  <1>8. Begun(n, c) /\ c \notin storage[n]
    BY <1>1, <1>7 DEF Stages, StageOK
  <1>9. Grows(n[1]) /\ applied' = applied
    <2>1. CASE UNCHANGED <<log, scheduler>>
      BY <1>1, <1>2, <1>3, <2>1, IdleGrows
    <2>2. CASE \E S \in SUBSET {Original!Work(Original!LOCAL_CONNECTIVITY, c, n[1])} :
                  Original!Queue(n[1], pending[n[1]] \union S)
      <3>1. PICK S \in SUBSET {Original!Work(Original!LOCAL_CONNECTIVITY, c, n[1])} :
                  Original!Queue(n[1], pending[n[1]] \union S)
        BY <2>2
      <3>2. PICK e : e = Original!Work(Original!LOCAL_CONNECTIVITY, c, n[1])
        OBVIOUS
      <3>3. e \in Entry /\ e.requestType # FROM_CLIENT
        <4>1. c \in Original!Cycle /\ 0 \in Original!SL
          BY Groups DEF Cycle, SL
        <4> QED
          BY <1>3, <3>2, <4>1 DEF Original!Work, Entry, Original!Entry, FROM_CLIENT,
             Original!FROM_CLIENT, Original!LOCAL_CONNECTIVITY, Original!RequestType
      <3>4. PICK work : work = pending[n[1]] \union S
        OBVIOUS
      <3>5. pending[n[1]] \in SUBSET Entry /\ \A f \in pending[n[1]] : f.requestType # FROM_CLIENT
        BY <1>1, <1>3 DEF TypeOK, LogOK, Entry
      <3>6. IsWork(work)
        BY <3>1, <3>2, <3>3, <3>4, <3>5 DEF IsWork
      <3> QED
        BY <1>1, <1>2, <1>3, <3>1, <3>4, <3>6, QueueGrows
    <2>3. \/ UNCHANGED <<log, scheduler>>
          \/ \E S \in SUBSET {Original!Work(Original!LOCAL_CONNECTIVITY, c, n[1])} :
                  Original!Queue(n[1], pending[n[1]] \union S)
      BY <1>3, <1>4 DEF HandleFetchResponse
    <2> QED
      BY <2>1, <2>2, <2>3
  <1>10. BegunStays
    BY <1>1, <1>3, <1>9, BegunAfter DEF BegunStays
  <1>11. Stages'
    <2>1. StageOK(n, c)'
      BY <1>2, <1>5, <1>7, <1>8, <1>10 DEF StageOK, BegunStays, Answers
    <2> QED
      BY <1>1, <1>5, <1>10, <2>1, StagesCarried DEF BegunStays, Answers
  <1>12. Flights' \subseteq Flights \ {m}
    <2>1. \A p \in Node : \A w \in waiting[p] : Kept(p, w).type = "KEPT"
      BY DEF Kept
    <2> QED
      BY <1>2, <2>1 DEF Flights
  <1>13. AskedOnce'
    BY <1>1, <1>12 DEF AskedOnce
  <1>14. FlightsOK'
    <2> SUFFICES ASSUME NEW x \in Flights, x # m PROVE FlightOK(x)'
      BY <1>12 DEF FlightsOK
    <2>1. Asker(x) \in Node /\ Asked(x) \in BG /\ x.cycle \in Cycle /\ FlightOK(x)
      BY <1>1, FlightFields DEF FlightsOK
    <2>2. CASE Asker(x) = n /\ x.cycle = c
      <3>1. Asked(x) # m.bg
        BY <1>1, <1>4, <1>6, <2>2 DEF AskedOnce, SameQuestion
      <3>2. Asked(x) \notin status'[n][c].answered
        BY <1>5, <2>1, <2>2, <3>1 DEF FlightOK, Answers
      <3>3. status'[n][c].state = "REPLICATED_RESULTS"
        BY <1>5, <1>7, <2>1, <3>2 DEF Answers, St
      <3> QED
        BY <1>1, <1>3, <1>9, <2>1, <2>2, <3>2, <3>3, FlightStillOK
    <2>3. CASE Asker(x) # n \/ x.cycle # c
      <3>1. status'[Asker(x)][x.cycle] = status[Asker(x)][x.cycle]
        BY <1>5, <2>1, <2>3 DEF Answers, Elsewhere
      <3> QED
        BY <1>1, <1>3, <1>9, <2>1, <3>1, FlightCarried
    <2> QED
      BY <2>2, <2>3
  <1>15. Agreement'
    <2>1. \A d \in Cycle : VotesSame(d)
      BY <1>2 DEF VotesSame, VoteTypes
    <2>2. St(n, c)' \in {"REPLICATED_RESULTS", "LOCAL_CONNECTIVITY"}
      BY <1>5, <1>7 DEF Answers
    <2>3. Elsewhere(n, c)
      BY <1>5 DEF Answers
    <2> QED
      BY <1>1, <1>2, <1>7, <2>1, <2>2, <2>3, AgreementApart DEF VoteStates, Voting
  <1>16. /\ waiting' \in [Node -> SUBSET ({"RESULT"} \X Cycle \X Node)]
         /\ storage' \in [Node -> SUBSET Cycle] /\ net' \subseteq Messages
    BY <1>1, <1>2 DEF TypeOK
  <1>17. AbstractStep(n)
    <2>1. c < next_cycle[m.bg]
      BY <1>2, <1>4, <1>6 DEF FlightOK
    <2> QED
      BY <1>2, <1>3, <1>5, <1>7, <1>8, <1>9, <2>1, GainsOne DEF Answers
  <1> QED
    BY <1>2, <1>3, <1>5, <1>9, <1>11, <1>13, <1>14, <1>15, <1>16, <1>17, Together

-----------------------------------------------------------------------------
(* The agreement between the leaders.                                         *)

(* Who has which part in it.                                                  *)
LEMMA Parties ==
    ASSUME IInv, NEW m \in net, m.type \in VoteTypes
    PROVE  /\ m \in Messages /\ m.cycle \in Cycle /\ m.to \in Node /\ m.to[1] \in BG
           /\ \E col \in BG : AgreementOn(m.cycle, col) /\ MessageOK(m, m.cycle, col)
  <1>1. m \in Messages /\ m.cycle \in Cycle /\ m.to \in Node /\ m.to[1] \in BG
    BY MessageFields DEF IInv, TypeOK
  <1>2. PICK col \in BG : AgreementOn(m.cycle, col)
    BY <1>1 DEF IInv, Agreement
  <1>3. MessageOK(m, m.cycle, col)
    BY <1>2 DEF AgreementOn
  <1> QED
    BY <1>1, <1>2, <1>3

(* A leader moves on in the agreement on cycle c.                             *)
Moves(n, c) ==
    /\ Elsewhere(n, c)
    /\ \/ /\ St(n, c)' \in VoteStates /\ storage' = storage
          /\ status'[n][c].answered = status[n][c].answered
       \/ /\ St(n, c)' = "NONE" /\ status'[n][c].answered = {} /\ c \in storage'[n]
          /\ storage' = [storage EXCEPT ![n] = @ \union {c}]

(* A step of the vote, once the agreement on its cycle is kept.               *)
LEMMA VoteStep ==
    ASSUME IInv, NEW n \in Node, NEW c \in Cycle, St(n, c) \in VoteStates, Moves(n, c),
           UNCHANGED <<log, applied, scheduler, waiting, failed>>,
           status' \in [Node -> [Cycle -> Status]], storage' \in [Node -> SUBSET Cycle],
           net' \subseteq Messages,
           \A x \in net \union net' : x \notin net \/ x \notin net' =>
               x.type \in VoteTypes /\ x.cycle = c,
           \E col \in BG : AgreementOn(c, col)'
    PROVE  IInv' /\ AbstractStep(n)
  <1>1. TypeOK /\ LogOK /\ Stages /\ FlightsOK /\ AskedOnce /\ Agreement /\ n[1] \in BG
    BY Groups DEF IInv
  <1>2. Grows(n[1])
    BY <1>1, IdleGrows
  <1>3. BegunStays
    BY <1>1, <1>2, BegunAfter DEF BegunStays
  <1>4. Begun(n, c) /\ c \notin storage[n] /\ status[n][c].answered = BG
    BY <1>1 DEF Stages, StageOK, VoteStates
  <1>5. Stages'
    <2>1. StageOK(n, c)'
      BY <1>3, <1>4 DEF StageOK, BegunStays, Moves, VoteStates
    <2> QED
      BY <1>1, <1>3, <2>1, StagesCarried DEF BegunStays, Moves
  <1>6. Flights' = Flights
    BY FlightsSame DEF FlightTypes, VoteTypes
  <1>7. FlightsOK' /\ AskedOnce'
    BY <1>1, <1>2, <1>6, FlightsOKSame, AskedOnceSame DEF Moves, VoteStates
  <1>8. \A d \in Cycle \ {c} : VotesSame(d)
    BY DEF VotesSame
  <1>9. Agreement'
    BY <1>1, <1>8, AgreementStep DEF Moves
  <1>10. waiting' \in [Node -> SUBSET ({"RESULT"} \X Cycle \X Node)]
    BY <1>1 DEF TypeOK
  <1>11. AbstractStep(n)
    BY <1>1, <1>2, <1>4, GainsNone, FinishesOne DEF Moves
  <1> QED
    BY <1>1, <1>2, <1>5, <1>7, <1>9, <1>10, <1>11, Together

(* Only the leader of group b moves.                                          *)
LEMMA OthersStay ==
    ASSUME NEW b \in BG, NEW c \in Cycle, Elsewhere(Leader(b), c)
    PROVE  \A d \in BG \ {b} :
             /\ St(Leader(d), c)' = St(Leader(d), c)
             /\ status'[Leader(d)][c] = status[Leader(d)][c]
             /\ c \in storage'[Leader(d)] <=> c \in storage[Leader(d)]
             /\ Done(d, c)' <=> Done(d, c)
             /\ Voted(d, c)' <=> Voted(d, c)
  BY Groups DEF Elsewhere, St, Done, Voted

(* A Preprepare that was sent stays sent.                                     *)
LEMMA SentStays ==
    ASSUME NEW b \in BG, NEW c \in Cycle, Elsewhere(Leader(b), c), Sent(c),
           St(Leader(b), c)' \in VoteStates \/ c \in storage'[Leader(b)]
    PROVE  Sent(c)'
  <1>1. CASE b = GlobalBG
    BY <1>1 DEF Sent
  <1>2. CASE b # GlobalBG
    BY <1>2, OthersStay, GlobalAssumption DEF Sent
  <1> QED
    BY <1>1, <1>2

(* The leader of group b takes the Preprepare and votes.                      *)
LEMMA VoteAgreement ==
    ASSUME TypeOK, NEW b \in BG, NEW c \in Cycle, NEW col \in BG, AgreementOn(c, col),
           Elsewhere(Leader(b), c), storage' = storage, NEW m \in net,
           m.type = "PREPREPARE_BASELINE", m.cycle = c, m.to = Leader(b), m.collector = col,
           Sent(c), ~Voted(b, c),
           St(Leader(b), c)' = IF col = b THEN "PARTIALCOMMITS_BASELINE" ELSE "FULLCOMMIT_BASELINE",
           status'[Leader(b)][c].counter = 0,
           net' = (net \ {m}) \union {Vote(b, c, col)}
    PROVE  AgreementOn(c, col)'
  <1>1. Sent(c)'
    BY SentStays DEF VoteStates
  <1>2. Voted(b, c)'
    BY DEF Voted, Done
  <1>3. \A d \in BG \ {b} :
             /\ St(Leader(d), c)' = St(Leader(d), c)
             /\ status'[Leader(d)][c] = status[Leader(d)][c]
             /\ Voted(d, c)' <=> Voted(d, c)
    BY OthersStay
  <1>4. ~AllDone(c)
    BY DEF AllDone, Voted
  <1>5. \A d \in BG : c \notin storage'[Leader(d)]
    BY <1>4 DEF AgreementOn
  <1>6. \A d \in BG : Voted(d, c) => Voted(d, c)'
    BY <1>2, <1>3
  <1>7. ASSUME NEW x \in net', x.cycle = c PROVE MessageOK(x, c, col)'
    <2>1. CASE x = Vote(b, c, col)
      <3>1. x.type = "PARTIAL_COMMIT_BASELINE" /\ x.bg = b /\ x.to = Leader(col)
        BY <2>1 DEF Vote
      <3> QED
        BY <1>2, <3>1 DEF MessageOK
    <2>2. CASE x \in net /\ x # m
      <3>1. MessageOK(x, c, col) /\ x \in Messages /\ m \in Messages
        BY <1>7, <2>2 DEF AgreementOn, TypeOK
      <3>2. x.to[1] \in BG /\ (x.type = "PARTIAL_COMMIT_BASELINE" => x.bg \in BG)
        BY <3>1, MessageFields
      <3>3. x.type = "PREPREPARE_BASELINE" => x.to[1] # b
        <4> SUFFICES ASSUME x.type = "PREPREPARE_BASELINE", x.to[1] = b PROVE FALSE
          OBVIOUS
        <4>1. x.to = m.to /\ x.collector = m.collector
          BY <3>1 DEF MessageOK
        <4>2. /\ x = [type |-> "PREPREPARE_BASELINE", cycle |-> x.cycle,
                      collector |-> x.collector, to |-> x.to]
              /\ m = [type |-> "PREPREPARE_BASELINE", cycle |-> m.cycle,
                      collector |-> m.collector, to |-> m.to]
          BY <3>1, MessageFields
        <4> QED
          BY <1>7, <2>2, <4>1, <4>2
      <3> QED
        BY <1>1, <1>3, <1>4, <1>6, <3>1, <3>2, <3>3 DEF MessageOK
    <2> QED
      BY <2>1, <2>2
  <1>8. Counted(c, col)' = Counted(c, col)
    <2>1. ASSUME NEW d \in BG \ {b} PROVE Vote(d, c, col) \in net' <=> Vote(d, c, col) \in net
      <3>1. Vote(d, c, col).type = "PARTIAL_COMMIT_BASELINE" /\ Vote(d, c, col).bg = d
            /\ Vote(b, c, col).bg = b
        BY DEF Vote
      <3> QED
        BY <3>1
    <2>2. Vote(b, c, col) \in net'
      OBVIOUS
    <2> QED
      BY <1>3, <2>1, <2>2 DEF Counted
  <1>9. ASSUME NEW d \in BG, St(Leader(d), c)' = "PARTIALCOMMITS_BASELINE"
        PROVE  d = col /\ status'[Leader(d)][c].counter = Cardinality(Counted(c, col)')
    <2>1. CASE d = b
      <3>1. b = col
        BY <1>9, <2>1
      <3>2. Counted(c, col) = {}
        BY <3>1 DEF AgreementOn
      <3> QED
        BY <1>8, <2>1, <3>1, <3>2, FS_EmptySet
    <2>2. CASE d # b
      BY <1>3, <1>8, <1>9, <2>2 DEF AgreementOn
    <2> QED
      BY <2>1, <2>2
  <1>10. ~Voted(col, c)' => Counted(c, col)' = {}
    BY <1>6, <1>8 DEF AgreementOn
  <1> QED
    BY <1>1, <1>5, <1>7, <1>9, <1>10 DEF AgreementOn, St

(* The Preprepare of Round 3.                                                 *)
LEMMA HandlePreprepareStep ==
    ASSUME IInv, NEW m \in net, HandlePreprepare(m),
           UNCHANGED <<log, applied, scheduler, waiting, failed>>
    PROVE  IInv' /\ \E n \in Node : AbstractStep(n)
  <1>1. m.type = "PREPREPARE_BASELINE" /\ m.type \in VoteTypes /\ TypeOK
    BY DEF HandlePreprepare, VoteTypes, IInv
  <1>2. PICK c \in Cycle : c = m.cycle
    BY <1>1, Parties
  <1>3. PICK b \in BG : b = m.to[1]
    BY <1>1, Parties
  <1>4. PICK col \in BG : AgreementOn(c, col) /\ MessageOK(m, c, col)
    BY <1>1, <1>2, Parties
  <1>5. m.to = Leader(b) /\ m.collector = col /\ Sent(c) /\ ~Voted(b, c)
    BY <1>1, <1>3, <1>4 DEF MessageOK
  <1>6. Leader(b) \in Node
    BY Groups
  <1>7. PICK s \in Status : s = status[Leader(b)][c]
    BY <1>1, <1>6, StatusTypes
  <1>8. PICK v \in {"PARTIALCOMMITS_BASELINE", "FULLCOMMIT_BASELINE"} :
          v = IF col = b THEN "PARTIALCOMMITS_BASELINE" ELSE "FULLCOMMIT_BASELINE"
    OBVIOUS
  <1>9. PICK k \in Status : k = [state |-> v, counter |-> 0, answered |-> s.answered]
    <2>1. s.answered \in SUBSET BG /\ v \in States
      BY <1>7 DEF Status, States
    <2> QED
      BY <2>1, NewStatus, SomeStatuses
  <1>10. [s EXCEPT !.counter = 0, !.state = v] = k
    BY <1>9, StatusWithVote
  <1>11. /\ s.state = "PREPREPARE_BASELINE"
         /\ Original!SetStatus(Leader(b), c, k) /\ storage' = storage
         /\ net' = (net \ {m}) \union {Vote(b, c, col)}
    BY <1>2, <1>3, <1>5, <1>7, <1>8, <1>10 DEF HandlePreprepare, TakesPreprepare, Vote
  <1>12. /\ status' \in [Node -> [Cycle -> Status]]
         /\ status'[Leader(b)][c] = k
         /\ Elsewhere(Leader(b), c)
    BY <1>1, <1>6, <1>11, StatusUpdate DEF Elsewhere
  <1>13. /\ St(Leader(b), c)' = v /\ status'[Leader(b)][c].counter = 0
         /\ status'[Leader(b)][c].answered = status[Leader(b)][c].answered
         /\ St(Leader(b), c) = "PREPREPARE_BASELINE"
    BY <1>7, <1>9, <1>11, <1>12 DEF St
  <1>14. AgreementOn(c, col)'
    BY <1>1, <1>2, <1>4, <1>5, <1>8, <1>11, <1>12, <1>13, VoteAgreement
  <1>15. Moves(Leader(b), c)
    BY <1>11, <1>12, <1>13 DEF Moves, VoteStates
  <1>16. /\ Vote(b, c, col) \in Messages /\ Vote(b, c, col).type \in VoteTypes
         /\ Vote(b, c, col).cycle = c
    BY Groups DEF Vote, Messages, VoteTypes
  <1>17. /\ net' \subseteq Messages
         /\ \A x \in net \union net' : x \notin net \/ x \notin net' =>
               x.type \in VoteTypes /\ x.cycle = c
    BY <1>1, <1>2, <1>11, <1>16 DEF TypeOK
  <1>18. storage' \in [Node -> SUBSET Cycle]
    BY <1>1, <1>11 DEF TypeOK
  <1> QED
    BY <1>6, <1>12, <1>13, <1>14, <1>15, <1>17, <1>18, VoteStep DEF VoteStates

(* The collector takes a vote that is not the last one.                       *)
LEMMA CountAgreement ==
    ASSUME TypeOK, NEW b \in BG, NEW c \in Cycle, NEW col \in BG, AgreementOn(c, col),
           Elsewhere(Leader(col), c), storage' = storage, Vote(b, c, col) \in net, Voted(b, c),
           St(Leader(col), c) = "PARTIALCOMMITS_BASELINE",
           St(Leader(col), c)' = "PARTIALCOMMITS_BASELINE",
           status'[Leader(col)][c].counter = status[Leader(col)][c].counter + 1,
           net' = net \ {Vote(b, c, col)}
    PROVE  AgreementOn(c, col)'
  <1>1. \A d \in BG : /\ St(Leader(d), c)' = St(Leader(d), c)
                      /\ Done(d, c)' <=> Done(d, c)
                      /\ Voted(d, c)' <=> Voted(d, c)
    BY OthersStay DEF Done, Voted
  <1>2. Sent(c)' <=> Sent(c)
    BY <1>1, GlobalAssumption DEF Sent
  <1>3. AllDone(c)' <=> AllDone(c)
    BY <1>1 DEF AllDone
  <1>4. Voted(col, c)
    BY DEF Voted
  <1>5. ASSUME NEW x \in net', x.cycle = c PROVE MessageOK(x, c, col)'
    <2>1. MessageOK(x, c, col) /\ x \in Messages
      BY <1>5 DEF AgreementOn, TypeOK
    <2>2. x.to[1] \in BG /\ (x.type = "PARTIAL_COMMIT_BASELINE" => x.bg \in BG)
      BY <2>1, MessageFields
    <2> QED
      BY <1>1, <1>2, <1>3, <2>1, <2>2 DEF MessageOK
  <1>6. Counted(c, col)' = Counted(c, col) \union {b}
    <2>1. \A d \in BG : Vote(d, c, col) \in net' <=> Vote(d, c, col) \in net /\ d # b
      BY DEF Vote
    <2> QED
      BY <1>1, <2>1 DEF Counted
  <1>7. b \notin Counted(c, col)
    BY DEF Counted
  <1>8. IsFiniteSet(Counted(c, col))
    BY SizeAssumption, FS_Subset DEF Counted
  <1>9. Cardinality(Counted(c, col)') = Cardinality(Counted(c, col)) + 1
    BY <1>6, <1>7, <1>8, FS_AddElement
  <1>10. \A d \in BG : St(Leader(d), c)' = "PARTIALCOMMITS_BASELINE" =>
          d = col /\ status'[Leader(d)][c].counter = Cardinality(Counted(c, col)')
    BY <1>1, <1>9 DEF AgreementOn
  <1> QED
    BY <1>1, <1>2, <1>3, <1>4, <1>5, <1>10 DEF AgreementOn, St

(* The collector takes the last vote.                                         *)
LEMMA CertifyAgreement ==
    ASSUME IInv, NEW b \in BG, NEW c \in Cycle, NEW col \in BG, AgreementOn(c, col),
           Elsewhere(Leader(col), c), storage' = storage, Vote(b, c, col) \in net, Voted(b, c),
           St(Leader(col), c) = "PARTIALCOMMITS_BASELINE",
           status[Leader(col)][c].counter + 1 = NumBG,
           St(Leader(col), c)' = "FULLCOMMIT_BASELINE",
           NEW Full, \A x \in Full : x.type = "FULL_COMMIT_BASELINE" /\ x.to \in Leaders,
           net' = (net \ {Vote(b, c, col)}) \union Full
    PROVE  AgreementOn(c, col)'
  <1>1. TypeOK /\ Sent(c)
    BY DEF IInv, AgreementOn, Voted
  <1>2. Counted(c, col) \union {b} = BG
    <2>1. Cardinality(Counted(c, col)) + 1 = Cardinality(BG)
      BY Sizes DEF AgreementOn
    <2>2. b \notin Counted(c, col) /\ Counted(c, col) \subseteq BG
      BY DEF Counted
    <2>3. IsFiniteSet(Counted(c, col))
      BY <2>2, SizeAssumption, FS_Subset
    <2>4. Cardinality(Counted(c, col) \union {b}) = Cardinality(BG)
      BY <2>1, <2>2, <2>3, FS_AddElement
    <2>5. Counted(c, col) \union {b} \subseteq BG
      BY <2>2
    <2> QED
      BY <2>4, <2>5, SizeAssumption, FS_Subset
  <1>3. \A d \in BG : Voted(d, c)
    BY <1>2 DEF Counted
  <1>4. \A d \in BG \ {col} : Done(d, c) /\ Done(d, c)'
                              /\ St(Leader(d), c)' # "PARTIALCOMMITS_BASELINE"
    <2> SUFFICES ASSUME NEW d \in BG \ {col}
                 PROVE  Done(d, c) /\ Done(d, c)' /\ St(Leader(d), c)' # "PARTIALCOMMITS_BASELINE"
      OBVIOUS
    <2>1. St(Leader(d), c) # "PARTIALCOMMITS_BASELINE"
      BY DEF AgreementOn
    <2> QED
      BY <1>3, <2>1, OthersStay DEF Voted
  <1>5. Done(col, c)' /\ AllDone(c)'
    BY <1>4 DEF Done, AllDone
  <1>6. Sent(c)'
    BY <1>1, SentStays DEF VoteStates
  <1>7. \A d \in BG : Voted(d, c)'
    BY <1>5 DEF AllDone, Voted
  <1>8. ASSUME NEW x \in net', x.cycle = c PROVE MessageOK(x, c, col)'
    <2>1. CASE x \in Full
      <3>1. PICK d \in BG : x.to = Leader(d)
        BY <2>1 DEF Leaders
      <3>2. x.to = Leader(x.to[1])
        BY <3>1, Groups
      <3> QED
        BY <1>5, <2>1, <3>2 DEF MessageOK
    <2>2. CASE x \in net
      <3>1. MessageOK(x, c, col) /\ x \in Messages
        BY <1>1, <1>8, <2>2 DEF AgreementOn, TypeOK
      <3>2. x.to[1] \in BG /\ (x.type = "PARTIAL_COMMIT_BASELINE" => x.bg \in BG)
        BY <3>1, MessageFields
      <3> QED
        BY <1>3, <1>5, <1>7, <3>1, <3>2 DEF MessageOK
    <2> QED
      BY <2>1, <2>2
  <1>9. \A d \in BG : St(Leader(d), c)' # "PARTIALCOMMITS_BASELINE"
    BY <1>4
  <1> QED
    BY <1>5, <1>6, <1>7, <1>8, <1>9 DEF AgreementOn

(* The PartialCommit of Round 3.                                              *)
LEMMA HandlePartialCommitStep ==
    ASSUME IInv, NEW m \in net, HandlePartialCommit(m),
           UNCHANGED <<log, applied, scheduler, waiting, failed>>
    PROVE  IInv' /\ \E n \in Node : AbstractStep(n)
  <1>1. m.type = "PARTIAL_COMMIT_BASELINE" /\ m.type \in VoteTypes /\ TypeOK
    BY DEF HandlePartialCommit, VoteTypes, IInv
  <1>2. PICK c \in Cycle : c = m.cycle
    BY <1>1, Parties
  <1>3. PICK b \in BG : b = m.bg
    BY <1>1, Parties, MessageFields
  <1>4. PICK col \in BG : AgreementOn(c, col) /\ MessageOK(m, c, col)
    BY <1>1, <1>2, Parties
  <1>5. m.to = Leader(col) /\ Voted(b, c) /\ m = Vote(b, c, col) /\ Leader(col) \in Node
    <2>1. m.to = Leader(col) /\ Voted(b, c)
      BY <1>1, <1>3, <1>4 DEF MessageOK
    <2>2. m = [type |-> "PARTIAL_COMMIT_BASELINE", cycle |-> m.cycle, bg |-> m.bg, to |-> m.to]
      BY <1>1, Parties, MessageFields
    <2> QED
      BY <1>2, <1>3, <2>1, <2>2, Groups DEF Vote
  <1>6. PICK s \in Status : s = status[Leader(col)][c]
    BY <1>1, <1>5, StatusTypes
  <1>7. s.state = "PARTIALCOMMITS_BASELINE" /\ storage' = storage
    BY <1>2, <1>5, <1>6 DEF HandlePartialCommit
  <1>8. s.counter = Cardinality(Counted(c, col)) /\ s.counter \in 0..(NumBG - 1) /\ s.answered \in SUBSET BG
    BY <1>4, <1>6, <1>7 DEF AgreementOn, St, Status
  <1>9. storage' \in [Node -> SUBSET Cycle]
    BY <1>1, <1>7 DEF TypeOK
  <1>10. CASE AllCommitted(s)
    <2>1. PICK k \in Status : k = [state |-> "FULLCOMMIT_BASELINE", counter |-> 0, answered |-> s.answered]
      BY <1>8, NewStatus, SomeStatuses DEF States
    <2>2. [s EXCEPT !.state = "FULLCOMMIT_BASELINE", !.counter = 0] = k
      BY <2>1, StatusWithStage
    <2>3. PICK Full : Full = {[type |-> "FULL_COMMIT_BASELINE", cycle |-> c, to |-> l] : l \in Leaders}
      OBVIOUS
    <2>4. /\ Original!SetStatus(Leader(col), c, k)
          /\ net' = (net \ {Vote(b, c, col)}) \union Full
      BY <1>2, <1>5, <1>6, <1>10, <2>2, <2>3 DEF HandlePartialCommit
    <2>5. /\ status' \in [Node -> [Cycle -> Status]]
          /\ status'[Leader(col)][c] = k
          /\ Elsewhere(Leader(col), c)
      BY <1>1, <1>5, <1>7, <2>4, StatusUpdate DEF Elsewhere
    <2>6. /\ St(Leader(col), c)' = "FULLCOMMIT_BASELINE"
          /\ status'[Leader(col)][c].answered = status[Leader(col)][c].answered
          /\ St(Leader(col), c) = "PARTIALCOMMITS_BASELINE"
      BY <1>6, <1>7, <2>1, <2>5 DEF St
    <2>7. \A x \in Full : /\ x \in Messages /\ x.type = "FULL_COMMIT_BASELINE"
                          /\ x.cycle = c /\ x.to \in Leaders
      BY <2>3, Groups DEF Messages, Leaders
    <2>8. AgreementOn(c, col)'
      <3>1. status[Leader(col)][c].counter + 1 = NumBG
        BY <1>6, <1>10 DEF AllCommitted
      <3>2. Vote(b, c, col) \in net
        BY <1>5
      <3> QED
        BY <1>4, <1>5, <1>7, <2>4, <2>5, <2>6, <2>7, <3>1, <3>2, CertifyAgreement
    <2>9. Moves(Leader(col), c)
      BY <1>7, <2>5, <2>6 DEF Moves, VoteStates
    <2>10. /\ net' \subseteq Messages
           /\ \A x \in net \union net' : x \notin net \/ x \notin net' =>
                 x.type \in VoteTypes /\ x.cycle = c
      BY <1>1, <1>2, <1>5, <2>4, <2>7 DEF TypeOK, VoteTypes
    <2> QED
      BY <1>5, <1>9, <2>5, <2>6, <2>8, <2>9, <2>10, VoteStep DEF VoteStates
  <1>11. CASE ~AllCommitted(s)
    <2>1. s.counter + 1 \in 0..(NumBG - 1) /\ s.state \in States
      <3>1. s.counter + 1 # NumBG
        BY <1>11 DEF AllCommitted
      <3> QED
        BY <1>7, <1>8, <3>1, Sizes DEF States
    <2>2. PICK k \in Status : k = [state |-> s.state, counter |-> s.counter + 1, answered |-> s.answered]
      BY <1>8, <2>1, NewStatus
    <2>3. [s EXCEPT !.counter = @ + 1] = k
      BY <2>2, StatusWithCount
    <2>4. Original!SetStatus(Leader(col), c, k) /\ net' = net \ {Vote(b, c, col)}
      BY <1>2, <1>5, <1>6, <1>11, <2>3 DEF HandlePartialCommit
    <2>5. /\ status' \in [Node -> [Cycle -> Status]]
          /\ status'[Leader(col)][c] = k
          /\ Elsewhere(Leader(col), c)
      BY <1>1, <1>5, <1>7, <2>4, StatusUpdate DEF Elsewhere
    <2>6. /\ St(Leader(col), c)' = "PARTIALCOMMITS_BASELINE"
          /\ status'[Leader(col)][c].answered = status[Leader(col)][c].answered
          /\ status'[Leader(col)][c].counter = status[Leader(col)][c].counter + 1
          /\ St(Leader(col), c) = "PARTIALCOMMITS_BASELINE"
      BY <1>6, <1>7, <2>2, <2>5 DEF St
    <2>7. AgreementOn(c, col)'
      <3>1. Vote(b, c, col) \in net
        BY <1>5
      <3> QED
        BY <1>1, <1>4, <1>5, <1>7, <2>4, <2>5, <2>6, <3>1, CountAgreement
    <2>8. Moves(Leader(col), c)
      BY <1>7, <2>5, <2>6 DEF Moves, VoteStates
    <2>9. /\ net' \subseteq Messages
          /\ \A x \in net \union net' : x \notin net \/ x \notin net' =>
                x.type \in VoteTypes /\ x.cycle = c
      BY <1>1, <1>2, <1>5, <2>4 DEF TypeOK
    <2> QED
      BY <1>5, <1>9, <2>5, <2>6, <2>7, <2>8, <2>9, VoteStep DEF VoteStates
  <1> QED
    BY <1>10, <1>11

(* The leader of group b takes the FullCommit.                                *)
LEMMA EndAgreement ==
    ASSUME IInv, NEW b \in BG, NEW c \in Cycle, NEW col \in BG, AgreementOn(c, col),
           Elsewhere(Leader(b), c), c \in storage'[Leader(b)], St(Leader(b), c)' = "NONE",
           AllDone(c), net' \subseteq net
    PROVE  AgreementOn(c, col)'
  <1>1. TypeOK /\ Stages /\ Sent(c)
    BY DEF IInv, AgreementOn, AllDone, Voted
  <1>2. \A d \in BG : Voted(d, c) /\ Done(d, c)' /\ Voted(d, c)'
    BY OthersStay DEF AllDone, Voted, Done
  <1>3. AllDone(c)' /\ Sent(c)'
    BY <1>1, <1>2, SentStays DEF AllDone
  <1>4. \A d \in BG : St(Leader(d), c)' # "PARTIALCOMMITS_BASELINE"
    <2> SUFFICES ASSUME NEW d \in BG PROVE St(Leader(d), c)' # "PARTIALCOMMITS_BASELINE"
      OBVIOUS
    <2>1. St(Leader(d), c) # "PARTIALCOMMITS_BASELINE"
      BY <1>1, Groups DEF AllDone, Done, Stages, StageOK
    <2> QED
      BY <2>1, OthersStay
  <1>5. ASSUME NEW x \in net', x.cycle = c PROVE MessageOK(x, c, col)'
    <2>1. MessageOK(x, c, col) /\ x \in Messages
      BY <1>1, <1>5 DEF AgreementOn, TypeOK
    <2>2. x.to[1] \in BG /\ (x.type = "PARTIAL_COMMIT_BASELINE" => x.bg \in BG)
      BY <2>1, MessageFields
    <2> QED
      BY <1>2, <1>3, <2>1, <2>2 DEF MessageOK
  <1> QED
    BY <1>2, <1>3, <1>4, <1>5 DEF AgreementOn

(* The FullCommit of Round 3.                                                 *)
LEMMA HandleFullCommitStep ==
    ASSUME IInv, NEW m \in net, HandleFullCommit(m),
           UNCHANGED <<log, applied, scheduler, waiting, failed>>
    PROVE  IInv' /\ \E n \in Node : AbstractStep(n)
  <1>1. m.type = "FULL_COMMIT_BASELINE" /\ m.type \in VoteTypes /\ TypeOK
    BY DEF HandleFullCommit, VoteTypes, IInv
  <1>2. PICK c \in Cycle : c = m.cycle
    BY <1>1, Parties
  <1>3. PICK b \in BG : b = m.to[1]
    BY <1>1, Parties
  <1>4. PICK col \in BG : AgreementOn(c, col) /\ MessageOK(m, c, col)
    BY <1>1, <1>2, Parties
  <1>5. m.to = Leader(b) /\ AllDone(c) /\ Leader(b) \in Node
    BY <1>1, <1>3, <1>4, Groups DEF MessageOK
  <1>6. PICK k \in Status : k = Unknown
    BY SomeStatuses
  <1>7. /\ St(Leader(b), c) = "FULLCOMMIT_BASELINE"
        /\ Original!SetStatus(Leader(b), c, k)
        /\ storage' = [storage EXCEPT ![Leader(b)] = @ \union {c}]
        /\ net' = net \ {m}
    BY <1>2, <1>5, <1>6 DEF HandleFullCommit, St
  <1>8. /\ status' \in [Node -> [Cycle -> Status]]
        /\ status'[Leader(b)][c] = k
        /\ \A p \in Node, d \in Cycle : p # Leader(b) \/ d # c => status'[p][d] = status[p][d]
    BY <1>1, <1>5, <1>7, StatusUpdate
  <1>9. /\ storage' \in [Node -> SUBSET Cycle] /\ c \in storage'[Leader(b)]
        /\ Elsewhere(Leader(b), c)
    BY <1>1, <1>5, <1>7, <1>8, StorageUpdate DEF Elsewhere
  <1>10. St(Leader(b), c)' = "NONE" /\ status'[Leader(b)][c].answered = {}
    BY <1>6, <1>8, SomeStatuses DEF St
  <1>11. AgreementOn(c, col)'
    BY <1>4, <1>5, <1>7, <1>9, <1>10, EndAgreement
  <1>12. Moves(Leader(b), c)
    BY <1>7, <1>9, <1>10 DEF Moves
  <1>13. /\ net' \subseteq Messages
         /\ \A x \in net \union net' : x \notin net \/ x \notin net' =>
               x.type \in VoteTypes /\ x.cycle = c
    BY <1>1, <1>2, <1>7 DEF TypeOK
  <1> QED
    BY <1>5, <1>7, <1>8, <1>9, <1>11, <1>12, <1>13, VoteStep DEF VoteStates

-----------------------------------------------------------------------------
(* The theorems.                                                              *)

(* Every commit.                                                              *)
LEMMA CommitStep ==
    ASSUME IInv, NEW n \in Node, Commit(n)
    PROVE  IInv' /\ AbstractStep(n)
  <1>1. Original!CanCommit(n) /\ failed' = failed
    BY DEF Commit
  <1>2. PICK e \in Entry : e = NextEntry(n)
    <2>1. /\ n[1] \in BG /\ log[n[1]] \in Seq(Entry) /\ applied[n] \in Nat
          /\ applied[n] < Len(log[n[1]])
      BY <1>1, Groups DEF IInv, TypeOK, Original!CanCommit, Entry
    <2>2. PICK k \in Nat : k = applied[n]
      BY <2>1
    <2>3. k + 1 \in 1..Len(log[n[1]])
      BY <2>1, <2>2
    <2> QED
      BY <2>1, <2>2, <2>3 DEF NextEntry
  <1>3. CommitFromClient(n, e) \/ CommitLocalConnectivity(n, e)
    BY <1>2 DEF Commit, NextEntry
  <1> QED
    BY <1>1, <1>2, <1>3, CommitFromClientStep, CommitLocalConnectivityStep

(* Every handler.                                                             *)
LEMMA HandleStep ==
    ASSUME IInv, NEW m \in net, Handle(m)
    PROVE  IInv' /\ \E n \in Node : AbstractStep(n)
  <1>1. CASE HandleFetchRequest(m)
    BY <1>1, HandleFetchRequestStep
  <1>2. CASE HandleFetchResponse(m)
    <2>1. m.to \in Node
      BY MessageFields DEF IInv, TypeOK
    <2> QED
      BY <1>2, <2>1, HandleFetchResponseStep
  <1>3. CASE HandleBaseline(m)
    BY <1>3, HandlePreprepareStep, HandlePartialCommitStep, HandleFullCommitStep DEF HandleBaseline
  <1>4. CASE Throw(m)
    <2>1. Grows(GlobalBG) /\ UNCHANGED <<status, storage>>
      BY <1>4, IdleGrows, GlobalAssumption DEF IInv, Throw
    <2> QED
      BY <1>4, <2>1, ThrowIInv, QuietAbstract, GlobalAssumption
  <1> QED
    BY <1>1, <1>2, <1>3, <1>4 DEF Handle

(* Every step keeps the invariant and is a step or a stutter of Cycles.       *)
LEMMA NextStep ==
    ASSUME IInv, [Next]_vars
    PROVE  IInv' /\ \E n \in Node : AbstractStep(n)
  <1>1. ASSUME NEW b \in BG, ReceiveBatch(b) PROVE IInv' /\ \E n \in Node : AbstractStep(n)
    BY <1>1, ReceiveBatchIInv, ReceiveBatchGrows, QuietAbstract DEF IInv
  <1>2. CASE UNCHANGED vars
    <2>1. Grows(GlobalBG) /\ UNCHANGED <<status, storage>>
      BY <1>2, IdleGrows, GlobalAssumption DEF IInv, vars
    <2> QED
      BY <1>2, <2>1, IdleIInv, QuietAbstract, GlobalAssumption
  <1> QED
    BY <1>1, <1>2, CommitStep, HandleStep DEF Next

(* The invariant is inductive.                                                *)
LEMMA SpecIInv == Spec => []IInv
  <1>1. IInv /\ [Next]_vars => IInv'
    BY NextStep
  <1> QED
    BY <1>1, InitIInv, PTL DEF Spec

(* Every variable of the baseline keeps its type; the counter of votes stays  *)
(* below the number of groups.                                                *)
THEOREM TypeCorrect == Spec => []TypeOK
  <1>1. IInv => TypeOK
    BY DEF IInv
  <1> QED
    BY <1>1, SpecIInv, PTL

(* A FetchResponse finds its cycle at the SL that asked, and is the first     *)
(* from its group: an SL keeps the cycle until all groups have answered it,   *)
(* and asks each of them once.                                                *)
THEOREM ResponsesAreAwaited == Spec => []ResponsesFindTheirCycle
  <1>1. IInv => ResponsesFindTheirCycle
    <2> SUFFICES ASSUME IInv, NEW m \in net, m.type = "RESPONSE"
                 PROVE  Known(m.to, m.cycle) /\ m.bg \notin status[m.to][m.cycle].answered
      BY DEF ResponsesFindTheirCycle
    <2>1. FlightOK(m) /\ Asker(m) = m.to /\ Asked(m) = m.bg
      BY FlightMembers DEF IInv, FlightsOK, FlightTypes, Asker, Asked
    <2> QED
      BY <2>1 DEF FlightOK, Known, Original!Known, St
  <1> QED
    BY <1>1, SpecIInv, PTL

(* When the leader of any group has finished a cycle, the leader of every     *)
(* group has sent its PartialCommit for it and waits for nobody any more.     *)
THEOREM LeadersAgreed == Spec => []LeadersFinishTogether
  <1>1. IInv => LeadersFinishTogether
    <2> SUFFICES ASSUME IInv, NEW b \in BG, NEW d \in BG, NEW c \in Cycle, c \in storage[Leader(b)]
                 PROVE  c \in storage[Leader(d)] \/ status[Leader(d)][c].state = "FULLCOMMIT_BASELINE"
      BY DEF LeadersFinishTogether
    <2>1. AllDone(c)
      BY DEF IInv, Agreement, AgreementOn
    <2> QED
      BY <2>1 DEF AllDone, Done, St
  <1> QED
    BY <1>1, SpecIInv, PTL

(* The next batch of a group produces the result of its cycle.                *)
LEMMA BatchProduces ==
    ASSUME TypeOK, NEW b \in BG, Produces(b)
    PROVE  Abstract!Produce(b)
  <1> DEFINE produced == {r \in BG \X Cycle : r[2] < next_cycle[r[1]]}
             c == next_cycle[b]
  <1>1. c \in Cycle /\ c \in Nat /\ next_cycle' = [next_cycle EXCEPT ![b] = c + 1]
    BY Sizes DEF Produces
  <1>2. next_cycle \in [BG -> Nat]
    BY MaxCycleBound DEF TypeOK
  <1>3. <<b, c>> \notin produced
    BY <1>1
  <1>4. ASSUME NEW d \in 1..(c - 1) PROVE <<b, d>> \in produced
    <2>1. d \in Cycle /\ d < next_cycle[b]
      BY <1>1, Sizes, MaxCycleBound
    <2> QED
      BY <2>1
  <1>5. produced' = produced \union {<<b, c>>}
    <2>1. ASSUME NEW r \in BG \X Cycle
          PROVE  r[2] < next_cycle'[r[1]] <=> r[2] < next_cycle[r[1]] \/ r = <<b, c>>
      <3>1. r = <<r[1], r[2]>> /\ r[1] \in BG /\ r[2] \in Nat
        BY Sizes
      <3>2. CASE r[1] = b
        <4>1. next_cycle'[r[1]] = c + 1
          BY <1>1, <1>2, <3>2
        <4> QED
          BY <1>1, <3>1, <3>2, <4>1
      <3>3. CASE r[1] # b
        BY <1>1, <1>2, <3>1, <3>3
      <3> QED
        BY <3>2, <3>3
    <2>2. <<b, c>> \in BG \X Cycle
      BY <1>1
    <2> QED
      BY <2>1, <2>2
  <1> QED
    BY <1>1, <1>3, <1>4, <1>5 DEF Abstract!Produce, Abstract!Cycle, Cycle, Original!Cycle

(* A step that gains one result, finishes one cycle or produces is one of     *)
(* Cycles.                                                                    *)
LEMMA AbstractStepMaps ==
    ASSUME TypeOK, NEW n \in Node, AbstractStep(n)
    PROVE  [Abstract!Next]_(Abstract!vars)
  <1> DEFINE produced == {r \in BG \X Cycle : r[2] < next_cycle[r[1]]}
             held == [m \in Node |-> {r \in BG \X Cycle :
                         r[2] \in storage[m] \/ r[1] \in status[m][r[2]].answered}]
  <1>1. /\ \A m \in Node, b \in BG, d \in Cycle : <<b, d>> \in held[m] <=> Holds(m, b, d)
        /\ \A m \in Node, b \in BG, d \in Cycle : <<b, d>> \in held'[m] <=> Holds(m, b, d)'
        /\ \A m \in Node : held[m] \subseteq BG \X Cycle /\ held'[m] \subseteq BG \X Cycle
        /\ DOMAIN held = Node /\ DOMAIN held' = Node
        /\ held = [m \in Node |-> held[m]] /\ held' = [m \in Node |-> held'[m]]
    BY DEF Holds
  <1>2. n[1] \in BG
    BY Groups
  <1>3. UNCHANGED produced \/ Abstract!Produce(n[1])
    BY <1>2, BatchProduces DEF AbstractStep
  <1>4. UNCHANGED held \/ Abstract!Learn(n)
    <2>1. CASE GainsNothing
      <3>1. \A m \in Node : held'[m] = held[m]
        BY <1>1, <2>1 DEF GainsNothing
      <3> HIDE DEF held
      <3> QED
        BY <1>1, <3>1
    <2>2. ASSUME NEW a \in BG, NEW c \in Cycle, Gains(n, a, c) PROVE Abstract!Learn(n)
      <3>1. <<a, c>> \in produced \ held[n]
        BY <1>1, <2>2 DEF Gains
      <3>2. ASSUME NEW m \in Node
            PROVE  held'[m] = IF m = n THEN held[m] \union {<<a, c>>} ELSE held[m]
        <4>1. \A b \in BG, d \in Cycle :
                <<b, d>> \in held'[m] <=> <<b, d>> \in held[m] \/ (m = n /\ <<b, d>> = <<a, c>>)
          <5> HIDE DEF held
          <5>1. \A b \in BG, d \in Cycle : Holds(m, b, d)' <=> Holds(m, b, d) \/ (m = n /\ b = a /\ d = c)
            BY <2>2 DEF Gains
          <5> QED
            BY <1>1, <5>1
        <4>2. held[m] \subseteq BG \X Cycle /\ held'[m] \subseteq BG \X Cycle /\ <<a, c>> \in BG \X Cycle
          BY <1>1
        <4>3. \A r \in BG \X Cycle : r \in held'[m] <=> r \in held[m] \/ (m = n /\ r = <<a, c>>)
          <5> HIDE DEF held
          <5> SUFFICES ASSUME NEW b \in BG, NEW d \in Cycle
                       PROVE  <<b, d>> \in held'[m] <=>
                                <<b, d>> \in held[m] \/ (m = n /\ <<b, d>> = <<a, c>>)
            OBVIOUS
          <5> QED
            BY <4>1
        <4> HIDE DEF held
        <4>4. CASE m = n
          BY <4>2, <4>3, <4>4
        <4>5. CASE m # n
          BY <4>2, <4>3, <4>5
        <4> QED
          BY <4>4, <4>5
      <3>3. held' = [held EXCEPT ![n] = @ \union {<<a, c>>}]
        <4> HIDE DEF held
        <4> QED
          BY <1>1, <3>2
      <3> QED
        BY <3>1, <3>3 DEF Abstract!Learn
    <2> QED
      BY <2>1, <2>2 DEF AbstractStep
  <1>5. UNCHANGED storage \/ Abstract!Finish(n)
    <2>1. ASSUME NEW c \in Cycle, Finishes(n, c) PROVE Abstract!Finish(n)
      <3>1. c \in Cycle \ storage[n] /\ storage' = [storage EXCEPT ![n] = @ \union {c}]
        BY <2>1 DEF Finishes
      <3>2. BG \X {c} \subseteq held'[n]
        <4>1. \A b \in BG : <<b, c>> \in held'[n]
          BY <1>1, <2>1, <3>1 DEF Finishes
        <4> HIDE DEF held
        <4> QED
          BY <4>1
      <3> QED
        BY <3>1, <3>2 DEF Abstract!Finish, Abstract!Cycle, Cycle, Original!Cycle
    <2> QED
      BY <2>1 DEF AbstractStep
  <1>6. n \in Abstract!Node
    BY Groups DEF Abstract!Node, SL, Original!SL
  <1> QED
    BY <1>3, <1>4, <1>5, <1>6 DEF Abstract!Next

(* The baseline promises what the original promises of a cycle: a group's     *)
(* result is learnt by an SL only after the group proposed it, and once, and  *)
(* an SL finishes a cycle once, with the results of all groups.               *)
THEOREM CyclesImplemented == Spec => ImplementsCycles
  <1>1. Init => Abstract!Init
    <2> SUFFICES ASSUME Init PROVE Abstract!Init
      OBVIOUS
    <2>1. {r \in BG \X Cycle : r[2] < next_cycle[r[1]]} = {}
      BY Sizes DEF Init
    <2>2. \A n \in Node : {r \in BG \X Cycle : r[2] \in storage[n] \/ r[1] \in status[n][r[2]].answered} = {}
      BY DEF Init, Unknown
    <2> QED
      BY <2>1, <2>2, Groups DEF Init, Abstract!Init, Abstract!Node, SL, Original!SL
  <1>2. IInv /\ [Next]_vars => [Abstract!Next]_(Abstract!vars)
    <2> SUFFICES ASSUME IInv, [Next]_vars PROVE [Abstract!Next]_(Abstract!vars)
      OBVIOUS
    <2>1. PICK n \in Node : AbstractStep(n)
      BY NextStep
    <2> QED
      BY <2>1, AbstractStepMaps DEF IInv
  <1> QED
    BY <1>1, <1>2, SpecIInv, PTL DEF Spec, ImplementsCycles, Abstract!Spec

==============================================================================
