--------------------------- MODULE Round2NodeProofs ---------------------------
(***************************************************************************)
(* Proofs about Round2Node, for every group size, any number of remote     *)
(* groups and of batches.                                                  *)
(*                                                                         *)
(* No wake-up of the leader is lost, whatever its client, listener and     *)
(* dispatcher threads do in between, and whatever the first sequence       *)
(* number.  Below the wrap of the sequence numbers, the queues implement   *)
(* the message set of Round2: every call of a dispatcher, on a message     *)
(* received or juggled, is a step of that module or changes nothing of it. *)
(*                                                                         *)
(* OrderInv ties the FIFO connections to the juggle queue: the FullCommit  *)
(* of an instance is ahead of whatever its collector sends after it, and a *)
(* pass that leaves a message behind has another one coming.  From it: no  *)
(* Round 2 message is stranded, nor are there more than N - 1 in a queue.  *)
(*                                                                         *)
(* StageInv ties the leader's queue of requests to the log: what is pushed *)
(* finds every earlier stage of its cycle in the log.  From it: the stages *)
(* commit in order at every SL, and no request is logged twice, so that    *)
(* the log is no longer than there are requests and the sequence numbers   *)
(* of a run that has few enough of them do not wrap.                       *)
(*                                                                         *)
(* AnswersOK and EarlyInv are about the Round 3 messages: the leader goes  *)
(* on when all groups have answered, and whatever is juggled early at an   *)
(* SL waits for one and the same entry, the next of its log.               *)
(***************************************************************************)
EXTENDS Round2Node, FiniteSetTheorems, TLAPS

(* The part of the state that decides whether the leader can start Round 2.   *)
States == Idle \cup {"COLLECTOR_WAITING_FOR_PARTIALCOMMITS", "WAITING_FOR_FULLCOMMIT"}

WakeTypes ==
    /\ state \in [SL -> States]
    /\ rgLeader_batch_received_from \in [SL -> Nat]
    /\ submitted \in [SL -> Nat]
    /\ pipe \in Nat
    /\ empties \in Nat

WakeInv == WakeTypes /\ WakeUpOnTheWay

(* The leader has something to start and has not started it.                  *)
CanStart == canStartRound2(state, rgLeader_batch_received_from, pending)

(* SL 0 exists.                                                               *)
LEMMA LeaderInSL == Leader \in SL
  BY NAssumption DEF Leader, SL

(* Every handler that ends with the scheduler leaves nothing that could be    *)
(* started: a request goes out if the slot is free.                           *)
LEMMA NothingLeftToStart ==
    ASSUME NEW st \in [SL -> States], NEW from, NEW pend, NEW c,
           SpawnRound2(st, from, pend, c), rgLeader_batch_received_from' = from
    PROVE  state' \in [SL -> States] /\ ~CanStart'
  <1>1. CASE canStartRound2(st, from, pend) /\ leader_round2_sendPreprepare(st, pend, c)
    <2>1. state' = [st EXCEPT ![Leader] = "WAITING_FOR_PREPREPARE"]
      BY <1>1 DEF leader_round2_sendPreprepare
    <2>2. state' \in [SL -> States] /\ state'[Leader] = "WAITING_FOR_PREPREPARE"
      BY <2>1, LeaderInSL DEF States, Idle
    <2> QED
      BY <2>2 DEF CanStart, canStartRound2
  <1>2. CASE ~canStartRound2(st, from, pend)
    <2>1. /\ state' = st /\ pending' = pend
          /\ leader_batch_processed' = leader_batch_processed
      BY <1>2 DEF SpawnRound2, leader
    <2> QED
      BY <1>2, <2>1 DEF CanStart, canStartRound2
  <1> QED
    BY <1>1, <1>2 DEF SpawnRound2

(* The initial state: nothing is there to start.                              *)
LEMMA InitWakeInv == Init => WakeInv
  <1> SUFFICES ASSUME Init PROVE WakeInv
    OBVIOUS
  <1>1. WakeTypes
    BY DEF Init, WakeTypes, States, Idle
  <1>2. ~CanStart
    BY LeaderInSL DEF Init, CanStart, canStartRound2
  <1> QED
    BY <1>1, <1>2 DEF WakeInv, WakeUpOnTheWay, CanStart

(* A message of Round 2, received or retried: it leaves the slot taken, or    *)
(* frees it and looks at the queue and the counters.                          *)
LEMMA DispatchWakeInv ==
    ASSUME WakeInv, NEW n \in SL, NEW m, NEW c, NEW q, dispatcher_round2(n, m, c, q),
           UNCHANGED <<client, empties>>
    PROVE  WakeInv'
  <1>1. /\ state \in [SL -> States]
        /\ rgLeader_batch_received_from' = rgLeader_batch_received_from
        /\ UNCHANGED <<submitted, pipe, empties>>
    BY DEF WakeInv, WakeTypes, client, dispatcher_round2, JugglePreprepare, HandlePreprepare,
           JuggleCommit, HandlePartialCommit, HandleFullCommit
  <1>2. /\ state' \in [SL -> States]
        /\ CanStart' => CanStart
    <2>1. CASE JugglePreprepare(n, m, c, q)
      <3>1. /\ state' = [state EXCEPT ![n] = IF @ = "NONE" THEN "WAITING_FOR_PREPREPARE" ELSE @]
            /\ UNCHANGED <<pending, leader_batch_processed>>
        BY <2>1 DEF JugglePreprepare, leader
      <3>2. state' \in [SL -> States] /\ (state'[Leader] = "NONE" => state[Leader] = "NONE")
        BY <1>1, <3>1, LeaderInSL DEF States, Idle
      <3> QED
        BY <1>1, <3>1, <3>2 DEF CanStart, canStartRound2
    <2>2. CASE HandlePreprepare(n, m, c, q)
      <3>1. PICK st \in States \ {"NONE"} : state' = [state EXCEPT ![n] = st]
        BY <2>2 DEF HandlePreprepare, States, Idle
      <3>2. state' \in [SL -> States] /\ (state'[Leader] = "NONE" => state[Leader] = "NONE")
        BY <1>1, <3>1, LeaderInSL
      <3>3. UNCHANGED <<pending, leader_batch_processed>>
        BY <2>2 DEF HandlePreprepare, leader
      <3> QED
        BY <1>1, <3>2, <3>3 DEF CanStart, canStartRound2
    <2>3. CASE JuggleCommit(n, m, c, q)
      BY <1>1, <2>3 DEF JuggleCommit, leader, CanStart, canStartRound2
    <2>4. CASE HandlePartialCommit(n, m, c, q)
      <3>1. /\ state[n] # "NONE"
            /\ \E st \in States \ {"NONE"} : state' = [state EXCEPT ![n] = st]
        BY <2>4 DEF HandlePartialCommit, States, Idle
      <3>2. state' \in [SL -> States] /\ (state'[Leader] = "NONE" => state[Leader] = "NONE")
        BY <1>1, <3>1, LeaderInSL
      <3>3. UNCHANGED <<pending, leader_batch_processed>>
        BY <2>4 DEF HandlePartialCommit, leader
      <3> QED
        BY <1>1, <3>2, <3>3 DEF CanStart, canStartRound2
    <2>5. CASE HandleFullCommit(n, m, c, q)
      <3> DEFINE idle == [state EXCEPT ![n] = "NONE"]
      <3>1. idle \in [SL -> States]
        BY <1>1 DEF States, Idle
      <3>2. CASE n = Leader
        <4>1. PICK p : SpawnRound2(idle, rgLeader_batch_received_from,
                          pending \cup ConnectivityWork(n, p.request), c)
          BY <2>5, <3>2 DEF HandleFullCommit
        <4> QED
          BY <1>1, <3>1, <4>1, NothingLeftToStart
      <3>3. CASE n # Leader
        <4>1. state' = idle /\ UNCHANGED <<pending, leader_batch_processed>>
          BY <2>5, <3>3 DEF HandleFullCommit, leader
        <4>2. state'[Leader] = state[Leader]
          BY <1>1, <3>3, <4>1, LeaderInSL
        <4> QED
          BY <1>1, <3>1, <4>1, <4>2 DEF CanStart, canStartRound2
      <3> QED
        BY <3>2, <3>3
    <2> QED
      BY <2>1, <2>2, <2>3, <2>4, <2>5 DEF dispatcher_round2
  <1> QED
    BY <1>1, <1>2 DEF WakeInv, WakeTypes, WakeUpOnTheWay, CanStart

(* A message of Round 3, received or retried: Round 2 sees nothing of it, or  *)
(* the leader notes an answer.                                                *)
Quiet == UNCHANGED round2
Notes(work) == LeaderNotes(rgLeader_batch_received_from, work)

LEMMA Round3Shape ==
    ASSUME NEW n \in SL, NEW m, dispatcher_round3(n, m)
    PROVE  Quiet \/ \E work : Notes(work)
  BY DEF dispatcher_round3, JuggleRound3, HandleConnectivityRequest, HandleConnectivityResponse,
         HandleMembershipResponse, Quiet, Notes

(* Both leave the wake-ups alone.                                             *)
LEMMA Round3Steps ==
    ASSUME NEW n \in SL, ReceiveRound3(n) \/ RetryRound3(n)
    PROVE  (Quiet \/ \E work : Notes(work)) /\ empties' = empties
  <1>1. CASE ReceiveRound3(n)
    <2>1. PICK m : dispatcher_round3(n, m)
      BY <1>1 DEF ReceiveRound3
    <2> QED
      BY <1>1, <2>1, Round3Shape DEF ReceiveRound3
  <1>2. CASE RetryRound3(n)
    <2>1. PICK m : dispatcher_round3(n, m)
      BY <1>2 DEF RetryRound3
    <2> QED
      BY <1>2, <2>1, Round3Shape DEF RetryRound3
  <1> QED
    BY <1>1, <1>2

(* Any other message at the leader: it ends with the scheduler as well.       *)
LEMMA LeaderNotesWakeInv ==
    ASSUME WakeInv, NEW from \in [SL -> Nat], NEW work, LeaderNotes(from, work), empties' \in Nat
    PROVE  WakeInv'
  <1>1. /\ SpawnRound2(state, from, pending \cup work, chan)
        /\ rgLeader_batch_received_from' = from
        /\ UNCHANGED <<submitted, pipe>>
    BY DEF LeaderNotes, client
  <1>2. state' \in [SL -> States] /\ ~CanStart'
    BY <1>1, NothingLeftToStart DEF WakeInv, WakeTypes
  <1> QED
    BY <1>1, <1>2 DEF WakeInv, WakeTypes, WakeUpOnTheWay, CanStart

(* The client thread of the leader: between counting its batch and writing    *)
(* the pipe it is behind its own count.                                       *)
LEMMA ClientWakeInv ==
    ASSUME WakeInv, mockClientOnLeader
    PROVE  WakeInv'
  <1>1. CASE /\ rgLeader_batch_received_from[Leader] = submitted[Leader]
             /\ rgLeader_batch_received_from' = [rgLeader_batch_received_from EXCEPT ![Leader] = @ + 1]
             /\ UNCHANGED <<rest, empties, client>>
    <2>1. /\ rgLeader_batch_received_from' \in [SL -> Nat]
          /\ submitted'[Leader] < rgLeader_batch_received_from'[Leader]
      BY <1>1, LeaderInSL DEF WakeInv, WakeTypes, client
    <2> QED
      BY <1>1, <2>1 DEF WakeInv, WakeTypes, WakeUpOnTheWay, rest, client
  <1>2. CASE /\ submitted' = [submitted EXCEPT ![Leader] = @ + 1]
             /\ pipe' = pipe + 1
             /\ UNCHANGED <<rest, empties, rgLeader_batch_received_from>>
    <2>1. submitted' \in [SL -> Nat] /\ pipe' \in Nat /\ pipe' > 0
      BY <1>2, LeaderInSL DEF WakeInv, WakeTypes
    <2> QED
      BY <1>2, <2>1 DEF WakeInv, WakeTypes, WakeUpOnTheWay, rest
  <1> QED
    BY <1>1, <1>2 DEF mockClientOnLeader

(* Every step keeps the invariant.                                            *)
LEMMA NextWakeInv ==
    ASSUME WakeInv, [Next]_vars
    PROVE  WakeInv'
  <1>1. ASSUME NEW n \in SL, Receive(n) PROVE WakeInv'
    BY <1>1, DispatchWakeInv DEF Receive
  <1>2. ASSUME NEW n \in SL, Retry(n) PROVE WakeInv'
    BY <1>2, DispatchWakeInv DEF Retry
  <1>3. CASE ReceiveEmpty
    <2>1. empties' \in Nat
      BY <1>3 DEF ReceiveEmpty, WakeInv, WakeTypes
    <2> QED
      BY <1>3, <2>1, LeaderNotesWakeInv DEF ReceiveEmpty, LeaderReceive, WakeInv, WakeTypes
  <1>4. ASSUME NEW s \in SL, ReceiveRequest(s) PROVE WakeInv'
    <2>1. [rgLeader_batch_received_from EXCEPT ![s] = @ + 1] \in [SL -> Nat]
      BY DEF WakeInv, WakeTypes
    <2> QED
      BY <1>4, <2>1, LeaderNotesWakeInv DEF ReceiveRequest, LeaderReceive, WakeInv, WakeTypes
  <1>5. ASSUME NEW work, Notes(work), empties' = empties PROVE WakeInv'
    BY <1>5, LeaderNotesWakeInv DEF Notes, WakeInv, WakeTypes
  <1>6. CASE Quiet /\ empties' = empties
    BY <1>6 DEF Quiet, round2, WakeInv, WakeTypes, WakeUpOnTheWay, canStartRound2, leader, client
  <1>11. CASE \E c \in Cycle, b \in Remote : ReceiveFetchResponse(c, b)
    BY <1>5, <1>11 DEF ReceiveFetchResponse, LeaderReceive, Notes
  <1>12. ASSUME NEW n \in SL, ReceiveRound3(n) \/ RetryRound3(n) PROVE WakeInv'
    BY <1>5, <1>6, <1>12, Round3Steps
  <1>13. ASSUME NEW n \in SL, ReceiveOther(n) PROVE WakeInv'
    BY <1>6, <1>13 DEF ReceiveOther, Quiet
  <1>7. CASE mockClientOnLeader
    BY <1>7, ClientWakeInv
  <1>8. ASSUME NEW s \in SL, mockClient(s) PROVE WakeInv'
    <2>1. /\ submitted' \in [SL -> Nat] /\ submitted'[Leader] = submitted[Leader]
          /\ UNCHANGED <<state, pending, leader_batch_processed, pipe, empties,
                         rgLeader_batch_received_from>>
      BY <1>8, LeaderInSL DEF mockClient, WakeInv, WakeTypes, rest, leader
    <2> QED
      BY <2>1 DEF WakeInv, WakeTypes, WakeUpOnTheWay, canStartRound2
  <1>9. CASE ListenPipe
    <2>1. empties' \in Nat /\ empties' > 0 /\ pipe' \in Nat
      BY <1>9 DEF ListenPipe, WakeInv, WakeTypes
    <2> QED
      BY <1>9, <2>1 DEF ListenPipe, WakeInv, WakeTypes, WakeUpOnTheWay, rest
  <1>10. CASE UNCHANGED vars
    BY <1>10 DEF vars, WakeInv, WakeTypes, WakeUpOnTheWay, canStartRound2, leader, client
  <1> QED
    BY <1>1, <1>2, <1>3, <1>4, <1>7, <1>8, <1>9, <1>10, <1>11, <1>12, <1>13 DEF Next

(* No wake-up of the leader is lost: whenever it could start Round 2 and has  *)
(* not, its client is about to write the pipe, or the listener to read it, or *)
(* a MESSAGE_EMPTY is in the queue.                                           *)
THEOREM NoWakeUpLost == Spec => []WakeUpOnTheWay
  <1>1. Init => WakeInv
    BY InitWakeInv
  <1>2. WakeInv /\ [Next]_vars => WakeInv'
    BY NextWakeInv
  <1>3. WakeInv => WakeUpOnTheWay
    BY DEF WakeInv
  <1> QED
    BY <1>1, <1>2, <1>3, PTL DEF Spec

-----------------------------------------------------------------------------
(* The messages of Round2, with what is proved of them.  What Round2Proofs    *)
(* says of BGLog by itself is not used: its log stays empty here.             *)
R2 == INSTANCE Round2Proofs WITH
    Entry <- Request,
    MaxSeq <- 2^16 - 2,
    net <- InFlight \cup Juggled,
    entries <- <<>>,
    votes <- <<>>,
    deliveries <- <<>>

-----------------------------------------------------------------------------
(* The queues as one family: from SL s to SL d, and (s = N) what d juggles.   *)
Place == (0..N) \X SL
QueuesOf(c, j) == [p \in Place |-> IF p[1] = N THEN j[p[2]] ELSE c[p[1]][p[2]]]
Queues == QueuesOf(chan, juggleQueue)

MessagesIn(q) == UNION {{q[p][i] : i \in 1..Len(q[p])} : p \in Place}

(* No message is in two places.                                               *)
OnceIn(q) ==
    \A p, r \in Place : \A i \in 1..Len(q[p]), j \in 1..Len(q[r]) :
        q[p][i] = q[r][j] => p = r /\ i = j

(* What it means to be in the queues.                                         *)
LEMMA InMessages ==
    ASSUME NEW q, NEW m
    PROVE  m \in MessagesIn(q) <=> \E p \in Place : \E i \in 1..Len(q[p]) : m = q[p][i]
  <1> DEFINE In(p) == {q[p][i] : i \in 1..Len(q[p])}
  <1>1. MessagesIn(q) = UNION {In(p) : p \in Place}
    BY DEF MessagesIn
  <1>2. \A p : m \in In(p) <=> \E i \in 1..Len(q[p]) : m = q[p][i]
    OBVIOUS
  <1> HIDE DEF In
  <1>3. m \in MessagesIn(q) <=> \E p \in Place : m \in In(p)
    BY <1>1
  <1> QED
    BY <1>2, <1>3

(* An SL takes the first message of a queue.                                  *)
Took(q, p, r) ==
    /\ OnceIn(r)
    /\ Head(q[p]) \in MessagesIn(q)
    /\ MessagesIn(r) = MessagesIn(q) \ {Head(q[p])}

(* A queue loses its first message.                                           *)
LEMMA Taken ==
    ASSUME NEW M, NEW q \in [Place -> Seq(M)], OnceIn(q), NEW p \in Place, q[p] # <<>>,
           NEW r \in [Place -> Seq(M)], r[p] = Tail(q[p]), \A x \in Place \ {p} : r[x] = q[x]
    PROVE  Took(q, p, r)
  <1>1. q[p] \in Seq(M) /\ Len(q[p]) \in Nat \ {0} /\ Head(q[p]) = q[p][1] /\ 1 \in 1..Len(q[p])
    OBVIOUS
  <1>2. \A x \in Place : q[x] \in Seq(M) /\ r[x] \in Seq(M)
    OBVIOUS
  <1>3. Len(r[p]) = Len(q[p]) - 1 /\ \A i \in 1..Len(r[p]) : r[p][i] = q[p][i + 1]
    BY <1>1, <1>2
  <1> DEFINE at(x, i) == IF x = p THEN i + 1 ELSE i
  <1>4. ASSUME NEW x \in Place, NEW i \in 1..Len(r[x])
        PROVE  at(x, i) \in 1..Len(q[x]) /\ r[x][i] = q[x][at(x, i)] /\ i \in Nat
               /\ (x = p => at(x, i) # 1)
    <2>1. Len(q[p]) \in Nat /\ Len(r[x]) \in Nat /\ i \in Nat /\ i >= 1
      BY <1>1, <1>2
    <2>2. CASE x = p
      <3>1. i \in 1..(Len(q[p]) - 1) /\ at(x, i) = i + 1
        BY <1>3, <2>2
      <3>2. i + 1 \in 1..Len(q[p]) /\ i + 1 # 1
        BY <1>1, <2>1, <3>1
      <3>3. r[p][i] = q[p][i + 1]
        BY <1>3, <2>2
      <3> QED
        BY <2>1, <2>2, <3>1, <3>2, <3>3
    <2>3. CASE x # p
      BY <2>1, <2>3
    <2> QED
      BY <2>2, <2>3
  <1>5. ASSUME NEW x \in Place, NEW i \in 1..Len(q[x]), q[x][i] # Head(q[p])
        PROVE  \E j \in 1..Len(r[x]) : r[x][j] = q[x][i]
    <2>1. CASE x = p
      <3>1. i # 1 /\ i - 1 \in 1..Len(r[p])
        BY <1>1, <1>3, <1>5, <2>1
      <3>2. i - 1 + 1 = i
        OBVIOUS
      <3>3. r[p][i - 1] = q[p][i]
        BY <1>3, <3>1, <3>2
      <3> QED
        BY <2>1, <3>1, <3>3
    <2>2. CASE x # p
      BY <1>2, <2>2
    <2> QED
      BY <2>1, <2>2
  <1> HIDE DEF at
  <1>6. OnceIn(r)
    <2> SUFFICES ASSUME NEW x \in Place, NEW y \in Place, NEW i \in 1..Len(r[x]),
                        NEW j \in 1..Len(r[y]), r[x][i] = r[y][j]
                 PROVE  x = y /\ i = j
      BY DEF OnceIn
    <2>1. x = y /\ at(x, i) = at(y, j)
      <3>1. /\ at(x, i) \in 1..Len(q[x]) /\ at(y, j) \in 1..Len(q[y])
            /\ q[x][at(x, i)] = q[y][at(y, j)]
        BY <1>4
      <3> QED
        BY <3>1 DEF OnceIn
    <2> QED
      BY <1>4, <2>1 DEF at
  <1>7. ASSUME NEW x \in Place, NEW i \in 1..Len(r[x])
        PROVE  r[x][i] # Head(q[p])
    BY <1>1, <1>4 DEF OnceIn
  <1>8. MessagesIn(r) = MessagesIn(q) \ {Head(q[p])}
    <2>1. ASSUME NEW m \in MessagesIn(r) PROVE m \in MessagesIn(q) \ {Head(q[p])}
      <3>1. PICK x \in Place : \E i \in 1..Len(r[x]) : m = r[x][i]
        BY InMessages
      <3>2. PICK i \in 1..Len(r[x]) : m = r[x][i]
        BY <3>1
      <3>3. m = q[x][at(x, i)] /\ at(x, i) \in 1..Len(q[x]) /\ m # Head(q[p])
        BY <1>4, <1>7, <3>2
      <3> QED
        BY <3>3, InMessages
    <2>2. ASSUME NEW m \in MessagesIn(q) \ {Head(q[p])} PROVE m \in MessagesIn(r)
      <3>1. PICK x \in Place : \E i \in 1..Len(q[x]) : m = q[x][i]
        BY InMessages
      <3>2. PICK i \in 1..Len(q[x]) : m = q[x][i]
        BY <3>1
      <3>3. \E j \in 1..Len(r[x]) : r[x][j] = m
        BY <1>5, <3>2
      <3> QED
        BY <3>3, InMessages
    <2> QED
      BY <2>1, <2>2
  <1> QED
    <2>1. Head(q[p]) \in MessagesIn(q)
      BY <1>1, InMessages
    <2> QED
      BY <1>6, <1>8, <2>1 DEF Took

(* A message is appended to each of some queues.                              *)
Appended(q, A, x, r) == OnceIn(r) /\ MessagesIn(r) = MessagesIn(q) \cup {x[a] : a \in A}

(* A queue gains a last message that is nowhere yet.                          *)
LEMMA Put ==
    ASSUME NEW M, NEW q \in [Place -> Seq(M)], OnceIn(q), NEW A \in SUBSET Place,
           NEW x \in [A -> M], \A a, b \in A : x[a] = x[b] => a = b,
           \A a \in A : x[a] \notin MessagesIn(q),
           NEW r \in [Place -> Seq(M)], \A a \in A : r[a] = Append(q[a], x[a]),
           \A p \in Place \ A : r[p] = q[p]
    PROVE  Appended(q, A, x, r)
  <1>1. \A p \in Place : q[p] \in Seq(M) /\ r[p] \in Seq(M)
    OBVIOUS
  <1>2. \A a \in A : Len(r[a]) = Len(q[a]) + 1 /\ r[a][Len(r[a])] = x[a] /\ Len(q[a]) \in Nat
                     /\ \A i \in 1..Len(q[a]) : r[a][i] = q[a][i]
    BY <1>1
  <1>3. ASSUME NEW p \in Place, NEW i \in 1..Len(r[p])
        PROVE  \/ i \in 1..Len(q[p]) /\ r[p][i] = q[p][i]
               \/ p \in A /\ i = Len(r[p]) /\ r[p][i] = x[p]
    BY <1>1, <1>2
  <1>4. ASSUME NEW p \in Place, NEW i \in 1..Len(q[p])
        PROVE  i \in 1..Len(r[p]) /\ r[p][i] = q[p][i] /\ q[p][i] \in MessagesIn(q)
    <2>1. q[p][i] \in MessagesIn(q)
      BY InMessages
    <2>2. i \in 1..Len(r[p]) /\ r[p][i] = q[p][i]
      <3>1. CASE p \in A
        BY <1>2, <3>1
      <3>2. CASE p \notin A
        BY <3>2
      <3> QED
        BY <3>1, <3>2
    <2> QED
      BY <2>1, <2>2
  <1>5. OnceIn(r)
    <2> SUFFICES ASSUME NEW p \in Place, NEW s \in Place, NEW i \in 1..Len(r[p]),
                        NEW j \in 1..Len(r[s]), r[p][i] = r[s][j]
                 PROVE  p = s /\ i = j
      BY DEF OnceIn
    <2>1. CASE i \in 1..Len(q[p]) /\ r[p][i] = q[p][i]
      <3>1. j \in 1..Len(q[s]) /\ r[s][j] = q[s][j]
        <4>1. q[p][i] \in MessagesIn(q)
          BY <1>4, <2>1
        <4>2. ~(s \in A /\ r[s][j] = x[s])
          BY <2>1, <4>1
        <4> QED
          BY <1>3, <4>2
      <3>2. q[p][i] = q[s][j]
        BY <2>1, <3>1
      <3> QED
        BY <2>1, <3>1, <3>2 DEF OnceIn
    <2>2. CASE p \in A /\ i = Len(r[p]) /\ r[p][i] = x[p]
      <3>1. s \in A /\ j = Len(r[s]) /\ r[s][j] = x[s]
        BY <1>3, <1>4, <2>2
      <3> QED
        BY <2>2, <3>1
    <2> QED
      BY <1>3, <2>1, <2>2
  <1>6. MessagesIn(r) = MessagesIn(q) \cup {x[a] : a \in A}
    <2>1. ASSUME NEW m \in MessagesIn(r) PROVE m \in MessagesIn(q) \cup {x[a] : a \in A}
      <3>1. PICK p \in Place : \E i \in 1..Len(r[p]) : m = r[p][i]
        BY InMessages
      <3> QED
        BY <1>3, <1>4, <3>1
    <2>2. ASSUME NEW m \in MessagesIn(q) PROVE m \in MessagesIn(r)
      <3>1. PICK p \in Place : \E i \in 1..Len(q[p]) : m = q[p][i]
        BY InMessages
      <3> QED
        BY <1>4, <3>1, InMessages
    <2>3. ASSUME NEW a \in A PROVE x[a] \in MessagesIn(r)
      <3>1. a \in Place /\ Len(r[a]) \in 1..Len(r[a]) /\ r[a][Len(r[a])] = x[a]
        BY <1>2
      <3> QED
        BY <3>1, InMessages
    <2> QED
      BY <2>1, <2>2, <2>3
  <1> QED
    BY <1>5, <1>6 DEF Appended

(* The messages of the queues are those of InFlight and Juggled.              *)
LEMMA NetIsQueues == InFlight \cup Juggled = MessagesIn(Queues)
  <1>1. SL \subseteq 0..N /\ N \in 0..N /\ N \notin SL
    BY NAssumption DEF SL
  <1>2. \A s, d \in SL : <<s, d>> \in Place /\ Queues[<<s, d>>] = chan[s][d]
    BY <1>1 DEF Place, Queues, QueuesOf
  <1>3. \A d \in SL : <<N, d>> \in Place /\ Queues[<<N, d>>] = juggleQueue[d]
    BY <1>1 DEF Place, Queues, QueuesOf
  <1>4. \A p \in Place : \/ \E s, d \in SL : p = <<s, d>>
                         \/ \E d \in SL : p = <<N, d>>
    BY NAssumption DEF Place, SL
  <1> DEFINE sent(s, d) == {chan[s][d][i] : i \in 1..Len(chan[s][d])}
             kept(d) == {juggleQueue[d][i] : i \in 1..Len(juggleQueue[d])}
  <1>5. ASSUME NEW m
        PROVE  /\ m \in InFlight <=> \E s, d \in SL : m \in sent(s, d)
               /\ m \in Juggled <=> \E d \in SL : m \in kept(d)
    <2> HIDE DEF sent, kept
    <2>1. InFlight = UNION {sent(s, d) : s \in SL, d \in SL}
      BY DEF InFlight, sent
    <2>2. Juggled = UNION {kept(d) : d \in SL}
      BY DEF Juggled, kept
    <2> QED
      BY <2>1, <2>2
  <1>6. ASSUME NEW m \in InFlight PROVE m \in MessagesIn(Queues)
    <2>1. PICK s \in SL, d \in SL : m \in sent(s, d)
      BY <1>5
    <2>2. PICK i \in 1..Len(chan[s][d]) : m = chan[s][d][i]
      BY <2>1
    <2>3. <<s, d>> \in Place /\ i \in 1..Len(Queues[<<s, d>>]) /\ m = Queues[<<s, d>>][i]
      BY <1>2, <2>2
    <2> QED
      BY <2>3, InMessages
  <1>7. ASSUME NEW m \in Juggled PROVE m \in MessagesIn(Queues)
    <2>1. PICK d \in SL : m \in kept(d)
      BY <1>5
    <2>2. PICK i \in 1..Len(juggleQueue[d]) : m = juggleQueue[d][i]
      BY <2>1
    <2>3. <<N, d>> \in Place /\ i \in 1..Len(Queues[<<N, d>>]) /\ m = Queues[<<N, d>>][i]
      BY <1>3, <2>2
    <2> QED
      BY <2>3, InMessages
  <1>8. ASSUME NEW m \in MessagesIn(Queues) PROVE m \in InFlight \cup Juggled
    <2>1. PICK p \in Place : \E i \in 1..Len(Queues[p]) : m = Queues[p][i]
      BY InMessages
    <2>2. CASE \E s, d \in SL : p = <<s, d>>
      <3>1. PICK s \in SL, d \in SL : p = <<s, d>>
        BY <2>2
      <3>2. m \in sent(s, d)
        BY <1>2, <2>1, <3>1
      <3> QED
        BY <1>5, <3>2
    <2>3. CASE \E d \in SL : p = <<N, d>>
      <3>1. PICK d \in SL : p = <<N, d>>
        BY <2>3
      <3>2. m \in kept(d)
        BY <1>3, <2>1, <3>1
      <3> QED
        BY <1>5, <3>2
    <2> QED
      BY <1>4, <2>2, <2>3
  <1> QED
    BY <1>6, <1>7, <1>8

-----------------------------------------------------------------------------
(* The queues of a state.                                                     *)
Net == InFlight \cup Juggled
Message == R2!Message

(* A message is in a queue of the SL it is for.                               *)
AddressedIn(q) == \A p \in Place : \A i \in 1..Len(q[p]) : q[p][i].to = p[2]

QueuesOK ==
    /\ chan \in [SL -> [SL -> Seq(Message)]]
    /\ juggleQueue \in [SL -> Seq(Message)]
    /\ OnceIn(Queues) /\ AddressedIn(Queues)

(* c and q are the channels and the juggle queue of SL n as its handler finds *)
(* them, R the messages in them and in the other queues.                      *)
RestOf(n, c, q) == QueuesOf(c, [juggleQueue EXCEPT ![n] = q])

RestOK(n, R, c, q) ==
    /\ c \in [SL -> [SL -> Seq(Message)]] /\ q \in Seq(Message)
    /\ juggleQueue \in [SL -> Seq(Message)]
    /\ OnceIn(RestOf(n, c, q)) /\ AddressedIn(RestOf(n, c, q))
    /\ MessagesIn(RestOf(n, c, q)) = R

(* The places are the channels and the juggle queues.                         *)
LEMMA Places ==
    /\ SL \subseteq 0..N /\ N \in 0..N /\ N \notin SL
    /\ \A p \in Place : p[2] \in SL /\ (p[1] \in SL \/ p[1] = N) /\ p = <<p[1], p[2]>>
    /\ \A s \in 0..N, d \in SL : <<s, d>> \in Place /\ <<s, d>>[1] = s /\ <<s, d>>[2] = d
  BY NAssumption DEF Place, SL

(* The families of queues have the type of a function.                        *)
LEMMA QueuesTyped ==
    ASSUME NEW c \in [SL -> [SL -> Seq(Message)]], NEW j \in [SL -> Seq(Message)]
    PROVE  QueuesOf(c, j) \in [Place -> Seq(Message)]
  <1>1. ASSUME NEW p \in Place PROVE QueuesOf(c, j)[p] \in Seq(Message)
    <2>1. QueuesOf(c, j)[p] = IF p[1] = N THEN j[p[2]] ELSE c[p[1]][p[2]]
      BY DEF QueuesOf
    <2>2. p[2] \in SL /\ (p[1] \in SL \/ p[1] = N)
      BY Places
    <2>3. CASE p[1] = N
      BY <2>1, <2>2, <2>3
    <2>4. CASE p[1] \in SL
      BY <2>1, <2>2, <2>4, Places
    <2> QED
      BY <2>2, <2>3, <2>4
  <1>2. QueuesOf(c, j) = [p \in Place |-> QueuesOf(c, j)[p]]
    BY DEF QueuesOf
  <1> QED
    BY <1>1, <1>2

(* What is at a place, in a state and for a handler.                          *)
QueuesAre ==
    /\ \A s, d \in SL : Queues[<<s, d>>] = chan[s][d]
    /\ \A d \in SL : Queues[<<N, d>>] = juggleQueue[d]

(* The family at each place.                                                  *)
LEMMA QueuesAt == QueuesAre
  <1>1. \A p \in Place : Queues[p] = IF p[1] = N THEN juggleQueue[p[2]] ELSE chan[p[1]][p[2]]
    BY DEF Queues, QueuesOf
  <1>2. ASSUME NEW s \in SL, NEW d \in SL PROVE Queues[<<s, d>>] = chan[s][d]
    <2>1. <<s, d>> \in Place /\ s # N
      BY Places
    <2> QED
      BY <1>1, <2>1
  <1>3. ASSUME NEW d \in SL PROVE Queues[<<N, d>>] = juggleQueue[d]
    <2>1. <<N, d>> \in Place
      BY Places
    <2> QED
      BY <1>1, <2>1
  <1> QED
    BY <1>2, <1>3 DEF QueuesAre

RestIs(n, c, q) ==
    /\ \A s, d \in SL : RestOf(n, c, q)[<<s, d>>] = c[s][d]
    /\ RestOf(n, c, q)[<<N, n>>] = q
    /\ \A d \in SL \ {n} : RestOf(n, c, q)[<<N, d>>] = juggleQueue[d]

(* What is left of the queues, at each place.                                 *)
LEMMA RestAt ==
    ASSUME juggleQueue \in [SL -> Seq(Message)], NEW n \in SL, NEW c, NEW q
    PROVE  RestIs(n, c, q)
  <1> DEFINE j == [juggleQueue EXCEPT ![n] = q]
             r == RestOf(n, c, q)
  <1>1. j[n] = q /\ \A d \in SL \ {n} : j[d] = juggleQueue[d]
    OBVIOUS
  <1>2. \A p \in Place : r[p] = IF p[1] = N THEN j[p[2]] ELSE c[p[1]][p[2]]
    BY DEF RestOf, QueuesOf
  <1> HIDE DEF j, r
  <1>3. ASSUME NEW s \in SL, NEW d \in SL PROVE r[<<s, d>>] = c[s][d]
    <2>1. <<s, d>> \in Place /\ s # N
      BY Places
    <2> QED
      BY <1>2, <2>1
  <1>4. ASSUME NEW d \in SL PROVE r[<<N, d>>] = j[d]
    <2>1. <<N, d>> \in Place
      BY Places
    <2> QED
      BY <1>2, <2>1
  <1> QED
    BY <1>1, <1>3, <1>4 DEF RestIs, r

(* What an SL has received it takes from the channel, what it tries again     *)
(* from the juggle queue.                                                     *)
LEMMA TakenOK ==
    ASSUME QueuesOK, NEW n \in SL, NEW p \in Place, p[2] = n, Queues[p] # <<>>,
           NEW c \in [SL -> [SL -> Seq(Message)]], NEW q \in Seq(Message),
           RestOf(n, c, q)[p] = Tail(Queues[p]),
           \A x \in Place \ {p} : RestOf(n, c, q)[x] = Queues[x]
    PROVE  /\ RestOK(n, Net \ {Head(Queues[p])}, c, q)
           /\ Head(Queues[p]) \in Net /\ Head(Queues[p]).to = n
  <1> DEFINE r == RestOf(n, c, q)
  <1>1. /\ juggleQueue \in [SL -> Seq(Message)] /\ [juggleQueue EXCEPT ![n] = q] \in [SL -> Seq(Message)]
        /\ chan \in [SL -> [SL -> Seq(Message)]]
    BY DEF QueuesOK
  <1>2. Queues \in [Place -> Seq(Message)] /\ r \in [Place -> Seq(Message)]
    BY <1>1, QueuesTyped DEF Queues, RestOf, r
  <1>3. OnceIn(Queues) /\ AddressedIn(Queues) /\ MessagesIn(Queues) = Net
    BY NetIsQueues DEF QueuesOK, Net
  <1> HIDE DEF r
  <1>4. /\ OnceIn(r) /\ Head(Queues[p]) \in MessagesIn(Queues)
        /\ MessagesIn(r) = MessagesIn(Queues) \ {Head(Queues[p])}
    <2>1. r[p] = Tail(Queues[p]) /\ \A x \in Place \ {p} : r[x] = Queues[x]
      BY DEF r
    <2>2. Queues[p] # <<>>
      OBVIOUS
    <2>3. Took(Queues, p, r)
      BY <1>2, <1>3, <2>1, <2>2, Taken
    <2> QED
      BY <2>3 DEF Took
  <1>5. Queues[p] \in Seq(Message)
    BY <1>2
  <1>6. /\ Head(Queues[p]) = Queues[p][1] /\ 1 \in 1..Len(Queues[p])
        /\ Len(Tail(Queues[p])) = Len(Queues[p]) - 1 /\ Len(Queues[p]) \in Nat
        /\ \A i \in 1..Len(Tail(Queues[p])) : Tail(Queues[p])[i] = Queues[p][i + 1]
    BY <1>5
  <1>7. AddressedIn(r)
    <2> SUFFICES ASSUME NEW x \in Place, NEW i \in 1..Len(r[x]) PROVE r[x][i].to = x[2]
      BY DEF AddressedIn
    <2>1. CASE x = p
      <3>1. r[x] = Tail(Queues[p])
        BY <2>1 DEF r
      <3>2. i + 1 \in 1..Len(Queues[p]) /\ r[x][i] = Queues[p][i + 1]
        BY <1>6, <3>1
      <3> QED
        BY <1>3, <2>1, <3>2 DEF AddressedIn
    <2>2. CASE x # p
      BY <1>3, <2>2 DEF AddressedIn, r
    <2> QED
      BY <2>1, <2>2
  <1> QED
    BY <1>1, <1>3, <1>4, <1>6, <1>7 DEF RestOK, AddressedIn, r

(* A message that has been received.                                          *)
LEMMA ReceiveTakes ==
    ASSUME QueuesOK, NEW n \in SL, NEW s \in SL, chan[s][n] # <<>>
    PROVE  /\ RestOK(n, Net \ {Head(chan[s][n])}, [chan EXCEPT ![s][n] = Tail(@)], juggleQueue[n])
           /\ Head(chan[s][n]) \in Net /\ Head(chan[s][n]).to = n
  <1> DEFINE c == [chan EXCEPT ![s][n] = Tail(@)]
             p == <<s, n>>
             kept == RestOf(n, c, juggleQueue[n])
  <1>1. /\ juggleQueue \in [SL -> Seq(Message)] /\ juggleQueue[n] \in Seq(Message)
        /\ chan \in [SL -> [SL -> Seq(Message)]] /\ chan[s][n] \in Seq(Message)
    BY DEF QueuesOK
  <1>2. /\ c \in [SL -> [SL -> Seq(Message)]]
        /\ c[s][n] = Tail(chan[s][n])
        /\ \A t, d \in SL : t # s \/ d # n => c[t][d] = chan[t][d]
    BY <1>1
  <1> HIDE DEF c
  <1>3. p \in Place /\ p[2] = n /\ Queues[p] = chan[s][n]
    BY Places, QueuesAt DEF QueuesAre
  <1>4. /\ \A t, d \in SL : kept[<<t, d>>] = c[t][d]
        /\ kept[<<N, n>>] = juggleQueue[n]
        /\ \A d \in SL \ {n} : kept[<<N, d>>] = juggleQueue[d]
    <2>1. RestIs(n, c, juggleQueue[n])
      BY <1>1, RestAt
    <2> QED
      BY <2>1 DEF RestIs
  <1>5. kept[p] = Tail(Queues[p])
    BY <1>2, <1>3, <1>4
  <1>6. ASSUME NEW x \in Place \ {p} PROVE kept[x] = Queues[x]
    <2>1. x[2] \in SL /\ x = <<x[1], x[2]>> /\ (x[1] \in SL \/ x[1] = N) /\ (x[1] # s \/ x[2] # n)
      BY Places
    <2>2. CASE x[1] = N
      <3>1. /\ kept[<<N, x[2]>>] = juggleQueue[x[2]]
            /\ Queues[<<N, x[2]>>] = juggleQueue[x[2]]
        BY <1>4, <2>1, <2>2, QueuesAt DEF QueuesAre
      <3> QED
        BY <2>1, <2>2, <3>1
    <2>3. CASE x[1] \in SL
      <3>1. kept[<<x[1], x[2]>>] = c[x[1]][x[2]] /\ Queues[<<x[1], x[2]>>] = chan[x[1]][x[2]]
        BY <1>4, <2>1, <2>3, QueuesAt DEF QueuesAre
      <3>2. c[x[1]][x[2]] = chan[x[1]][x[2]]
        BY <1>2, <2>1, <2>3
      <3> QED
        BY <2>1, <3>1, <3>2
    <2> QED
      BY <2>1, <2>2, <2>3
  <1>7. /\ RestOK(n, Net \ {Head(Queues[p])}, c, juggleQueue[n])
        /\ Head(Queues[p]) \in Net /\ Head(Queues[p]).to = n
    <2> HIDE DEF p
    <2> QED
      BY <1>1, <1>2, <1>3, <1>5, <1>6, TakenOK
  <1> QED
    BY <1>3, <1>7 DEF c

(* A message that is tried again.                                             *)
LEMMA RetryTakes ==
    ASSUME QueuesOK, NEW n \in SL, juggleQueue[n] # <<>>
    PROVE  /\ RestOK(n, Net \ {Head(juggleQueue[n])}, chan, Tail(juggleQueue[n]))
           /\ Head(juggleQueue[n]) \in Net /\ Head(juggleQueue[n]).to = n
  <1> DEFINE p == <<N, n>>
             q == Tail(juggleQueue[n])
             kept == RestOf(n, chan, q)
  <1>1. /\ juggleQueue \in [SL -> Seq(Message)] /\ juggleQueue[n] \in Seq(Message)
        /\ q \in Seq(Message)
        /\ chan \in [SL -> [SL -> Seq(Message)]]
    BY DEF QueuesOK
  <1> HIDE DEF q
  <1>2. p \in Place /\ p[2] = n /\ Queues[p] = juggleQueue[n]
    BY Places, QueuesAt DEF QueuesAre
  <1>3. /\ \A t, d \in SL : kept[<<t, d>>] = chan[t][d]
        /\ kept[p] = q
        /\ \A d \in SL \ {n} : kept[<<N, d>>] = juggleQueue[d]
    <2>1. RestIs(n, chan, q)
      BY <1>1, RestAt
    <2> QED
      BY <2>1 DEF RestIs
  <1>4. kept[p] = Tail(Queues[p])
    BY <1>2, <1>3 DEF q
  <1>5. ASSUME NEW x \in Place \ {p} PROVE kept[x] = Queues[x]
    <2>1. x[2] \in SL /\ x = <<x[1], x[2]>> /\ (x[1] \in SL \/ x[1] = N) /\ (x[1] # N \/ x[2] # n)
      BY Places
    <2>2. CASE x[1] = N
      <3>1. /\ kept[<<N, x[2]>>] = juggleQueue[x[2]]
            /\ Queues[<<N, x[2]>>] = juggleQueue[x[2]]
        BY <1>3, <2>1, <2>2, QueuesAt DEF QueuesAre
      <3> QED
        BY <2>1, <2>2, <3>1
    <2>3. CASE x[1] \in SL
      <3>1. /\ kept[<<x[1], x[2]>>] = chan[x[1]][x[2]] /\ Queues[<<x[1], x[2]>>] = chan[x[1]][x[2]]
        BY <1>3, <2>1, <2>3, QueuesAt DEF QueuesAre
      <3> QED
        BY <2>1, <3>1
    <2> QED
      BY <2>1, <2>2, <2>3
  <1>6. /\ RestOK(n, Net \ {Head(Queues[p])}, chan, q)
        /\ Head(Queues[p]) \in Net /\ Head(Queues[p]).to = n
    <2> HIDE DEF p
    <2> QED
      BY <1>1, <1>2, <1>4, <1>5, TakenOK
  <1> QED
    BY <1>2, <1>6 DEF q

(* Nothing is taken.                                                          *)
LEMMA NothingTaken ==
    ASSUME QueuesOK, NEW n \in SL
    PROVE  RestOK(n, Net, chan, juggleQueue[n])
  <1>1. /\ juggleQueue \in [SL -> Seq(Message)] /\ [juggleQueue EXCEPT ![n] = juggleQueue[n]] = juggleQueue
        /\ juggleQueue[n] \in Seq(Message) /\ chan \in [SL -> [SL -> Seq(Message)]]
    BY DEF QueuesOK
  <1>2. RestOf(n, chan, juggleQueue[n]) = Queues
    BY <1>1 DEF RestOf, Queues
  <1> QED
    BY <1>1, <1>2, NetIsQueues DEF RestOK, QueuesOK, Net

(* Messages are appended to what is left.                                     *)
Grown(R, A, x) == QueuesOK' /\ Net' = R \cup {x[a] : a \in A}

Appends(n, R, c, q, A, x) ==
    /\ RestOK(n, R, c, q)
    /\ chan' \in [SL -> [SL -> Seq(Message)]] /\ juggleQueue' \in [SL -> Seq(Message)]
    /\ A \in SUBSET Place /\ x \in [A -> Message]
    /\ \A a, b \in A : x[a] = x[b] => a = b
    /\ \A a \in A : x[a] \notin R /\ x[a].to = a[2]
    /\ \A a \in A : Queues'[a] = Append(RestOf(n, c, q)[a], x[a])
    /\ \A p \in Place \ A : Queues'[p] = RestOf(n, c, q)[p]

(* Appending to several queues at once.                                       *)
LEMMA Appending ==
    ASSUME NEW n \in SL, NEW R, NEW c, NEW q, NEW A, NEW x, Appends(n, R, c, q, A, x)
    PROVE  Grown(R, A, x)
  <1>0. /\ RestOK(n, R, c, q)
        /\ chan' \in [SL -> [SL -> Seq(Message)]] /\ juggleQueue' \in [SL -> Seq(Message)]
        /\ A \in SUBSET Place /\ x \in [A -> Message]
        /\ \A a, b \in A : x[a] = x[b] => a = b
        /\ \A a \in A : x[a] \notin R /\ x[a].to = a[2]
        /\ \A a \in A : Queues'[a] = Append(RestOf(n, c, q)[a], x[a])
        /\ \A p \in Place \ A : Queues'[p] = RestOf(n, c, q)[p]
    BY DEF Appends
  <1> DEFINE kept == RestOf(n, c, q)
  <1>1. /\ kept \in [Place -> Seq(Message)] /\ OnceIn(kept) /\ AddressedIn(kept)
        /\ MessagesIn(kept) = R
    <2>1. [juggleQueue EXCEPT ![n] = q] \in [SL -> Seq(Message)]
      BY <1>0 DEF RestOK
    <2> QED
      BY <1>0, <2>1, QueuesTyped DEF RestOK, RestOf
  <1>2. Queues' \in [Place -> Seq(Message)]
    BY <1>0, QueuesTyped DEF Queues
  <1>3. MessagesIn(Queues)' = MessagesIn(Queues') /\ OnceIn(Queues)' = OnceIn(Queues')
        /\ AddressedIn(Queues)' = AddressedIn(Queues')
    BY DEF MessagesIn, OnceIn, AddressedIn
  <1> HIDE DEF kept
  <1>4. Appended(kept, A, x, Queues')
    <2>1. /\ \A a \in A : Queues'[a] = Append(kept[a], x[a]) /\ x[a] \notin MessagesIn(kept)
          /\ \A p \in Place \ A : Queues'[p] = kept[p]
      BY <1>0, <1>1 DEF kept
    <2> QED
      BY <1>0, <1>1, <1>2, <2>1, Put
  <1>5. AddressedIn(Queues')
    <2> SUFFICES ASSUME NEW p \in Place, NEW i \in 1..Len(Queues'[p]) PROVE Queues'[p][i].to = p[2]
      BY DEF AddressedIn
    <2>1. kept[p] \in Seq(Message) /\ Len(kept[p]) \in Nat
      BY <1>1
    <2>2. CASE p \in A
      <3>1. Queues'[p] = Append(kept[p], x[p]) /\ x[p].to = p[2]
        BY <1>0, <2>2 DEF kept
      <3>2. CASE i = Len(kept[p]) + 1
        BY <2>1, <3>1, <3>2
      <3>3. CASE i # Len(kept[p]) + 1
        <4>1. i \in 1..Len(kept[p]) /\ Queues'[p][i] = kept[p][i]
          BY <2>1, <3>1, <3>3
        <4> QED
          BY <1>1, <4>1 DEF AddressedIn
      <3> QED
        BY <3>2, <3>3
    <2>3. CASE p \notin A
      BY <1>0, <1>1, <2>3 DEF AddressedIn, kept
    <2> QED
      BY <2>2, <2>3
  <1>6. (Net = MessagesIn(Queues))'
    BY NetIsQueues, PTL DEF Net
  <1>7. MessagesIn(Queues') = R \cup {x[a] : a \in A} /\ OnceIn(Queues')
    BY <1>1, <1>4 DEF Appended
  <1>8. Net' = R \cup {x[a] : a \in A}
    BY <1>3, <1>6, <1>7
  <1> QED
    BY <1>0, <1>3, <1>5, <1>7, <1>8 DEF QueuesOK, Grown

(* The queues after a step, place by place.                                   *)
After(r, n, c, q) ==
    /\ \A s, d \in SL : <<s, d>> \in Place /\ Queues'[<<s, d>>] = chan'[s][d] /\ r[<<s, d>>] = c[s][d]
    /\ \A d \in SL : <<N, d>> \in Place /\ Queues'[<<N, d>>] = juggleQueue'[d]
    /\ r[<<N, n>>] = q
    /\ \A d \in SL \ {n} : r[<<N, d>>] = juggleQueue[d]
    /\ \A p \in Place : \/ \E s, d \in SL : p = <<s, d>>
                        \/ \E d \in SL : p = <<N, d>>

(* It holds of every step of an SL.                                           *)
LEMMA QueuesAfter ==
    ASSUME NEW n \in SL, NEW R, NEW c, NEW q, RestOK(n, R, c, q)
    PROVE  After(RestOf(n, c, q), n, c, q)
  <1>1. QueuesAre'
    BY QueuesAt, PTL
  <1>2. RestIs(n, c, q)
    BY RestAt DEF RestOK
  <1> QED
    BY <1>1, <1>2, Places DEF QueuesAre, RestIs, After

(* The message is juggled: nothing is gained or lost.                         *)
LEMMA JuggleKeeps ==
    ASSUME NEW n \in SL, NEW m \in Message, NEW c, NEW q, RestOK(n, Net \ {m}, c, q), m \in Net,
           m.to = n, Juggle(n, m, c, q)
    PROVE  QueuesOK' /\ Net' = Net
  <1> DEFINE A == {<<N, n>>}
             x == [a \in A |-> m]
             kept == RestOf(n, c, q)
  <1>0. After(kept, n, c, q)
    BY QueuesAfter
  <1> HIDE DEF kept
  <1>1. /\ c \in [SL -> [SL -> Seq(Message)]] /\ q \in Seq(Message)
        /\ juggleQueue \in [SL -> Seq(Message)]
    BY DEF RestOK
  <1>2. /\ chan' = c /\ juggleQueue' \in [SL -> Seq(Message)] /\ juggleQueue'[n] = Append(q, m)
        /\ \A d \in SL \ {n} : juggleQueue'[d] = juggleQueue[d]
    BY <1>1 DEF Juggle, Consume
  <1>3. \A a \in A : Queues'[a] = Append(kept[a], x[a])
    <2>1. Queues'[<<N, n>>] = juggleQueue'[n] /\ kept[<<N, n>>] = q
      BY <1>0 DEF After
    <2> QED
      BY <1>2, <2>1
  <1>4. ASSUME NEW p \in Place \ A PROVE Queues'[p] = kept[p]
    <2>1. CASE \E s, d \in SL : p = <<s, d>>
      BY <1>2, <2>1, <1>0 DEF After
    <2>2. CASE \E d \in SL : p = <<N, d>>
      <3>1. PICK d \in SL : p = <<N, d>>
        BY <2>2
      <3>2. d # n
        BY <3>1
      <3>3. Queues'[<<N, d>>] = juggleQueue'[d] /\ kept[<<N, d>>] = juggleQueue[d]
        BY <1>0, <3>2 DEF After
      <3> QED
        BY <1>2, <3>1, <3>2, <3>3
    <2> QED
      BY <2>1, <2>2, <1>0 DEF After
  <1>5. A \in SUBSET Place /\ x \in [A -> Message] /\ \A a, b \in A : x[a] = x[b] => a = b
    BY Places
  <1>6. \A a \in A : x[a] \notin Net \ {m} /\ x[a].to = a[2]
    OBVIOUS
  <1>7. {x[a] : a \in A} = {m}
    OBVIOUS
  <1>8. chan' \in [SL -> [SL -> Seq(Message)]]
    BY <1>1, <1>2
  <1> HIDE DEF A, x
  <1>9. Grown(Net \ {m}, A, x)
    <2>1. /\ \A a \in A : Queues'[a] = Append(RestOf(n, c, q)[a], x[a])
          /\ \A p \in Place \ A : Queues'[p] = RestOf(n, c, q)[p]
      BY <1>3, <1>4 DEF kept
    <2>2. Appends(n, Net \ {m}, c, q, A, x)
      BY <1>2, <1>5, <1>6, <1>8, <2>1 DEF Appends
    <2> QED
      BY <2>2, Appending
  <1> QED
    BY <1>7, <1>9 DEF Grown

(* The message is consumed, and nothing sent.                                 *)
LEMMA ConsumeTakes ==
    ASSUME NEW n \in SL, NEW R, NEW c, NEW q, RestOK(n, R, c, q),
           chan' = c, juggleQueue' = [juggleQueue EXCEPT ![n] = q]
    PROVE  QueuesOK' /\ Net' = R
  <1>1. /\ c \in [SL -> [SL -> Seq(Message)]] /\ q \in Seq(Message)
        /\ juggleQueue' \in [SL -> Seq(Message)]
    BY DEF RestOK
  <1>2. Queues' = RestOf(n, c, q)
    BY DEF Queues, RestOf, QueuesOf
  <1>3. MessagesIn(Queues)' = MessagesIn(Queues') /\ OnceIn(Queues)' = OnceIn(Queues')
        /\ AddressedIn(Queues)' = AddressedIn(Queues')
    BY DEF MessagesIn, OnceIn, AddressedIn
  <1>4. (Net = MessagesIn(Queues))'
    BY NetIsQueues, PTL DEF Net
  <1>5. OnceIn(Queues') /\ AddressedIn(Queues') /\ MessagesIn(Queues') = R
    BY <1>2 DEF RestOK
  <1> QED
    BY <1>1, <1>3, <1>4, <1>5 DEF QueuesOK

(* The message is consumed, and one sent.                                     *)
LEMMA SendAdds ==
    ASSUME NEW n \in SL, NEW R, NEW c, NEW q, RestOK(n, R, c, q),
           NEW y \in Message, y.to \in SL, y \notin R,
           Consume(n, Send(c, n, y), q)
    PROVE  QueuesOK' /\ Net' = R \cup {y}
  <1> DEFINE e == y.to
             A == {<<n, e>>}
             x == [a \in A |-> y]
             kept == RestOf(n, c, q)
  <1>0. After(kept, n, c, q)
    BY QueuesAfter
  <1> HIDE DEF kept
  <1>1. /\ c \in [SL -> [SL -> Seq(Message)]] /\ q \in Seq(Message)
        /\ juggleQueue \in [SL -> Seq(Message)]
    BY DEF RestOK
  <1>2. /\ juggleQueue' \in [SL -> Seq(Message)] /\ juggleQueue'[n] = q
        /\ \A d \in SL \ {n} : juggleQueue'[d] = juggleQueue[d]
    BY <1>1 DEF Consume
  <1>3. /\ chan' \in [SL -> [SL -> Seq(Message)]] /\ chan'[n][e] = Append(c[n][e], y)
        /\ \A s, d \in SL : s # n \/ d # e => chan'[s][d] = c[s][d]
    <2>1. chan' = [c EXCEPT ![n][e] = Append(@, y)]
      BY DEF Consume, Send
    <2>2. c[n] \in [SL -> Seq(Message)] /\ c[n][e] \in Seq(Message) /\ Append(c[n][e], y) \in Seq(Message)
      BY <1>1
    <2> HIDE DEF e
    <2>3. e \in SL
      BY DEF e
    <2> QED
      BY <1>1, <2>1, <2>2, <2>3
  <1> HIDE DEF e
  <1>4. e \in SL
    BY DEF e
  <1>5. \A a \in A : Queues'[a] = Append(kept[a], x[a])
    <2>1. Queues'[<<n, e>>] = chan'[n][e] /\ kept[<<n, e>>] = c[n][e]
      BY <1>0, <1>4 DEF After
    <2> QED
      BY <1>3, <2>1
  <1>6. ASSUME NEW p \in Place \ A PROVE Queues'[p] = kept[p]
    <2>1. CASE \E s, d \in SL : p = <<s, d>>
      <3>1. PICK s \in SL, d \in SL : p = <<s, d>>
        BY <2>1
      <3>2. s # n \/ d # e
        BY <3>1
      <3>3. Queues'[<<s, d>>] = chan'[s][d] /\ kept[<<s, d>>] = c[s][d]
        BY <1>0 DEF After
      <3> QED
        BY <1>3, <3>1, <3>2, <3>3
    <2>2. CASE \E d \in SL : p = <<N, d>>
      <3>1. PICK d \in SL : p = <<N, d>>
        BY <2>2
      <3>2. Queues'[<<N, d>>] = juggleQueue'[d] /\ kept[<<N, d>>] = IF d = n THEN q ELSE juggleQueue[d]
        BY <1>0 DEF After
      <3> QED
        BY <1>2, <3>1, <3>2
    <2> QED
      BY <2>1, <2>2, <1>0 DEF After
  <1>7. A \in SUBSET Place /\ x \in [A -> Message] /\ \A a, b \in A : x[a] = x[b] => a = b
    BY <1>4, Places
  <1>8. \A a \in A : x[a] \notin R /\ x[a].to = a[2]
    BY DEF e
  <1>9. {x[a] : a \in A} = {y}
    OBVIOUS
  <1> HIDE DEF A, x
  <1>10. Grown(R, A, x)
    <2>1. /\ \A a \in A : Queues'[a] = Append(RestOf(n, c, q)[a], x[a])
          /\ \A p \in Place \ A : Queues'[p] = RestOf(n, c, q)[p]
      BY <1>5, <1>6 DEF kept
    <2>2. Appends(n, R, c, q, A, x)
      BY <1>2, <1>3, <1>7, <1>8, <2>1 DEF Appends
    <2> QED
      BY <2>2, Appending
  <1> QED
    BY <1>9, <1>10 DEF Grown

(* The message is consumed, and a copy of another one sent to everybody.      *)
Broadcasts(n, R, c, q, copy) ==
    /\ RestOK(n, R, c, q)
    /\ copy \in [SL -> Message] /\ \A d \in SL : copy[d].to = d /\ copy[d] \notin R
    /\ chan' = Broadcast(c, n, copy) /\ juggleQueue' = [juggleQueue EXCEPT ![n] = q]

(* Broadcasting adds the copies.                                              *)
LEMMA BroadcastAdds ==
    ASSUME NEW n \in SL, NEW R, NEW c, NEW q, NEW copy, Broadcasts(n, R, c, q, copy)
    PROVE  QueuesOK' /\ Net' = R \cup {copy[d] : d \in SL}
  <1> USE DEF Broadcasts
  <1> DEFINE A == {<<n, d>> : d \in SL}
             x == [a \in A |-> copy[a[2]]]
             kept == RestOf(n, c, q)
  <1>0. After(kept, n, c, q)
    BY QueuesAfter
  <1> HIDE DEF kept
  <1>1. /\ c \in [SL -> [SL -> Seq(Message)]] /\ q \in Seq(Message)
        /\ juggleQueue \in [SL -> Seq(Message)]
    BY DEF RestOK
  <1>2. /\ juggleQueue' \in [SL -> Seq(Message)] /\ juggleQueue'[n] = q
        /\ \A d \in SL \ {n} : juggleQueue'[d] = juggleQueue[d]
    BY <1>1
  <1>3. /\ chan' \in [SL -> [SL -> Seq(Message)]]
        /\ \A d \in SL : chan'[n][d] = Append(c[n][d], copy[d])
        /\ \A s \in SL \ {n}, d \in SL : chan'[s][d] = c[s][d]
    <2> DEFINE row == [d \in SL |-> Append(c[n][d], copy[d])]
    <2>1. chan' = [c EXCEPT ![n] = row]
      BY <1>1 DEF Broadcast
    <2>2. row \in [SL -> Seq(Message)] /\ \A d \in SL : row[d] = Append(c[n][d], copy[d])
      BY <1>1
    <2> HIDE DEF row
    <2> QED
      BY <1>1, <2>1, <2>2
  <1>4. \A a \in A : a[2] \in SL /\ a = <<n, a[2]>> /\ x[a] = copy[a[2]]
    OBVIOUS
  <1>5. ASSUME NEW a \in A PROVE Queues'[a] = Append(kept[a], x[a])
    <2>1. PICK d \in SL : a = <<n, d>> /\ x[a] = copy[d]
      BY <1>4
    <2>2. Queues'[<<n, d>>] = chan'[n][d] /\ kept[<<n, d>>] = c[n][d]
      BY <1>0 DEF After
    <2> QED
      BY <1>3, <2>1, <2>2
  <1>6. ASSUME NEW p \in Place \ A PROVE Queues'[p] = kept[p]
    <2>1. CASE \E s, d \in SL : p = <<s, d>>
      <3>1. PICK s \in SL, d \in SL : p = <<s, d>>
        BY <2>1
      <3>2. s # n
        BY <3>1
      <3>3. Queues'[<<s, d>>] = chan'[s][d] /\ kept[<<s, d>>] = c[s][d]
        BY <1>0 DEF After
      <3> QED
        BY <1>3, <3>1, <3>2, <3>3
    <2>2. CASE \E d \in SL : p = <<N, d>>
      <3>1. PICK d \in SL : p = <<N, d>>
        BY <2>2
      <3>2. Queues'[<<N, d>>] = juggleQueue'[d] /\ kept[<<N, d>>] = IF d = n THEN q ELSE juggleQueue[d]
        BY <1>0 DEF After
      <3> QED
        BY <1>2, <3>1, <3>2
    <2> QED
      BY <2>1, <2>2, <1>0 DEF After
  <1>7. A \in SUBSET Place /\ x \in [A -> Message]
    BY <1>4, Places
  <1>8. \A a \in A : x[a] \notin R /\ x[a].to = a[2]
    BY <1>4
  <1>9. \A a, b \in A : x[a] = x[b] => a = b
    BY <1>4, <1>8
  <1>10. {x[a] : a \in A} = {copy[d] : d \in SL}
    <2>1. \A d \in SL : <<n, d>> \in A /\ x[<<n, d>>] = copy[d]
      OBVIOUS
    <2> QED
      BY <1>4, <2>1
  <1> HIDE DEF A, x
  <1>11. Grown(R, A, x)
    <2>1. /\ \A a \in A : Queues'[a] = Append(RestOf(n, c, q)[a], x[a])
          /\ \A p \in Place \ A : Queues'[p] = RestOf(n, c, q)[p]
      BY <1>5, <1>6 DEF kept
    <2>2. Appends(n, R, c, q, A, x)
      BY <1>2, <1>3, <1>7, <1>8, <1>9, <2>1 DEF Appends
    <2> QED
      BY <2>2, Appending
  <1> QED
    BY <1>10, <1>11 DEF Grown

-----------------------------------------------------------------------------
(* The sequence number stays below the wrap.                                  *)
BelowWrap == Len(log) <= 2^16 - 2

(* The counters of the leader's scheduler and its queue of requests.          *)
SchedulerOK ==
    /\ pending \subseteq Request
    /\ leader_batch_processed \in 0..MaxCycle
    /\ leader_round2_next_rcanopus_cycle = leader_batch_processed + 1
    /\ rgLeader_batch_received_from \in [SL -> 0..MaxCycle]
    /\ submitted \in [SL -> 0..MaxCycle]

(* A pass is over messages that are in the juggle queue.                      *)
PassOK == pass \in [SL -> Nat] /\ \A n \in SL : pass[n] <= Len(juggleQueue[n])

(* The Round 3 messages of an SL, and those of them its pass has still to try. *)
Round3OK ==
    /\ arrived \subseteq Round3Message
    /\ juggledRound3 \in [SL -> SUBSET arrived]
    /\ passRound3 \in [SL -> SUBSET arrived]
    /\ \A n \in SL : passRound3[n] \subseteq juggledRound3[n]

NodeInv == QueuesOK /\ PassOK /\ Round3OK /\ SchedulerOK /\ R2!IInv

(* The constants of the message set are in their range.                       *)
LEMMA R2Assumptions == N \in Nat \ {0} /\ 2^16 - 2 \in 1..(2^16 - 2) /\ 2^16 = 65536
  <1>1. 2^16 = 65536
    BY SMT
  <1> QED
    BY <1>1, NAssumption

(* What the invariant of the message set says of a message and its SL.        *)
LEMMA MessageTypes ==
    ASSUME NodeInv, NEW m \in Net
    PROVE  /\ m \in Message /\ m.to \in SL /\ m.seq \in R2!Seq16
           /\ m.type = "PREPREPARE" => m.body \in R2!Preprepare
           /\ m.type = "PARTIAL_COMMIT" =>
                 m.sender \in SL /\ m = PartialCommit(m.seq, m.sender, m.to)
           /\ m.type = "FULL_COMMIT" => m = FullCommit(m.seq, m.to)
           /\ m.type \in {"PREPREPARE", "PARTIAL_COMMIT", "FULL_COMMIT"}
  <1>1. m \in R2!Message
    BY DEF NodeInv, R2!IInv, R2!TypeOK, Net
  <1>2. R2!SL = SL
    BY DEF R2!SL, SL
  <1>3. CASE m \in R2!PreprepareMessage
    BY <1>1, <1>2, <1>3 DEF Message, R2!PreprepareMessage
  <1>4. CASE m \in R2!PartialCommitMessage
    BY <1>1, <1>2, <1>4 DEF Message, R2!PartialCommitMessage, PartialCommit
  <1>5. CASE m \in R2!FullCommitMessage
    BY <1>1, <1>2, <1>5 DEF Message, R2!FullCommitMessage, FullCommit
  <1> QED
    BY <1>1, <1>3, <1>4, <1>5 DEF R2!Message

(* The messages that the handlers send.                                       *)
LEMMA Preprepares ==
    ASSUME NEW s \in R2!Seq16, NEW p \in R2!Preprepare, NEW d \in SL
    PROVE  /\ PreprepareMessage(s, p, d) \in Message /\ PreprepareMessage(s, p, d).to = d
           /\ PreprepareMessage(s, p, d).type = "PREPREPARE" /\ PreprepareMessage(s, p, d).seq = s
  BY DEF PreprepareMessage, Message, R2!Message, R2!PreprepareMessage, R2!SL, SL

(* A PartialCommit.                                                           *)
LEMMA PartialCommits ==
    ASSUME NEW s \in R2!Seq16, NEW n \in SL, NEW d \in SL
    PROVE  /\ PartialCommit(s, n, d) \in Message /\ PartialCommit(s, n, d).to = d
           /\ PartialCommit(s, n, d).type = "PARTIAL_COMMIT" /\ PartialCommit(s, n, d).sender = n
  BY DEF PartialCommit, Message, R2!Message, R2!PartialCommitMessage, R2!SL, SL

(* A FullCommit.                                                              *)
LEMMA FullCommits ==
    ASSUME NEW s \in R2!Seq16, NEW d \in SL
    PROVE  /\ FullCommit(s, d) \in Message /\ FullCommit(s, d).to = d
           /\ FullCommit(s, d).type = "FULL_COMMIT" /\ FullCommit(s, d).seq = s
  BY DEF FullCommit, Message, R2!Message, R2!FullCommitMessage, R2!SL, SL

(* Sequence numbers are natural numbers.                                      *)
LEMMA SeqNat == R2!Seq16 \subseteq Nat
  BY R2Assumptions DEF R2!Seq16

(* The vote counts of Round2.                                                 *)
Last == Len(log)
Applied(n) == Len(delivered[n])
Votes(n) == Applied(n) + (IF state[n] \in Idle THEN 0 ELSE 1)

NodeTypes ==
    /\ round2_next_seq \in [SL -> R2!Seq16]
    /\ state \in [SL -> States]
    /\ round2_sequence \in [SL -> R2!Seq16]
    /\ message_received_counter \in [SL -> 0..N]
    /\ leader_collector_rr \in SL
    /\ log \in Seq(R2!Preprepare) /\ Last \in Nat
    /\ delivered \in [SL -> Seq(R2!Preprepare)]
    /\ stored \in [SL -> SUBSET R2!Preprepare]
    /\ \A n \in SL : Applied(n) \in Nat /\ Votes(n) \in Nat

Positions ==
    /\ BelowWrap
    /\ round2_next_seq[Leader] = Last + 1
    /\ \A n \in SL \ {Leader} : round2_next_seq[n] = Votes(n) + 1
    /\ \A n \in SL : Votes(n) <= Last /\ Last <= Votes(n) + 1
    /\ \A n \in SL \ {Leader} : state[n] # "WAITING_FOR_PREPREPARE"
    /\ \A n \in SL : state[n] \in Idle => stored[n] = {}
    /\ \A n \in SL : state[n] \notin Idle => round2_sequence[n] = Votes(n)
    /\ IF state[Leader] = "NONE" THEN Applied(Leader) = Last ELSE Applied(Leader) + 1 = Last

(* The invariant says so.                                                     *)
LEMMA NodeFacts == NodeInv => NodeTypes /\ Positions
  <1> SUFFICES ASSUME NodeInv PROVE NodeTypes /\ Positions
    OBVIOUS
  <1>1. R2!TypeOK /\ R2!Positions /\ R2!OpenInstances
    BY DEF NodeInv, R2!IInv
  <1>0. R2!SL = SL /\ R2!Leader = Leader
    BY DEF R2!SL, SL, R2!Leader, Leader
  <1>2. NodeTypes
    <2>1. \A n \in SL : Applied(n) \in Nat
      BY <1>0, <1>1 DEF R2!TypeOK, Applied
    <2>2. \A n \in SL : Votes(n) \in Nat
      BY <2>1 DEF Votes
    <2>3. R2!States = States
      BY DEF States, Idle, R2!States
    <2>4. Last \in Nat
      BY <1>1 DEF R2!TypeOK, Last
    <2> QED
      BY <1>0, <1>1, <2>1, <2>2, <2>3, <2>4 DEF R2!TypeOK, NodeTypes
  <1>3. \A n \in SL : Votes(n) = R2!Voted(n)
    BY DEF Votes, Applied, R2!Voted, Idle, R2!Idle
  <1>4. Positions
    <2>1. R2!Idle = Idle /\ R2!K = Last
      BY DEF R2!Idle, Idle, R2!K, Last
    <2>2. /\ Last <= 2^16 - 2
          /\ round2_next_seq[Leader] = Last + 1
          /\ \A n \in SL \ {Leader} : round2_next_seq[n] = Votes(n) + 1
          /\ \A n \in SL : Votes(n) <= Last /\ Last <= Votes(n) + 1
          /\ \A n \in SL \ {Leader} : state[n] # "WAITING_FOR_PREPREPARE"
      BY <1>0, <1>1, <1>3, <2>1 DEF R2!Positions
    <2>3. /\ \A n \in SL : state[n] \in Idle => stored[n] = {}
          /\ \A n \in SL : state[n] \notin Idle => round2_sequence[n] = Votes(n)
      BY <1>0, <1>1, <1>3, <2>1 DEF R2!OpenInstances
    <2>4. IF state[Leader] = "NONE" THEN Applied(Leader) = Last ELSE Applied(Leader) + 1 = Last
      BY <1>0, <1>1, <2>1 DEF R2!Positions, Applied, R2!D
    <2> QED
      BY <2>2, <2>3, <2>4 DEF Positions, BelowWrap, Last
  <1> QED
    BY <1>2, <1>4

(* Messages in flight.                                                        *)
LEMMA InFlightFacts ==
    ASSUME NodeInv, NEW m \in Net
    PROVE  /\ Last > 0
           /\ m.type = "PREPREPARE" => m.seq = Last /\ Votes(m.to) + 1 = Last /\ m.body = log[Last]
           /\ m.type = "PARTIAL_COMMIT" =>
                 /\ m.seq = Last /\ Votes(m.sender) = Last /\ m.to = log[Last].collector_SLid
                 /\ Votes(m.to) = Last => state[m.to] = "COLLECTOR_WAITING_FOR_PARTIALCOMMITS"
           /\ m.type = "FULL_COMMIT" =>
                 /\ m.seq = Votes(m.to) /\ state[m.to] = "WAITING_FOR_FULLCOMMIT"
                 /\ m.seq = Last => LET d == log[Last].collector_SLid IN
                       Votes(d) = Last /\ state[d] # "COLLECTOR_WAITING_FOR_PARTIALCOMMITS"
  <1>1. R2!InFlight /\ m \in InFlight \cup Juggled
    BY DEF NodeInv, R2!IInv, Net
  <1>2. \A n : Votes(n) = R2!Voted(n)
    BY DEF Votes, Applied, R2!Voted, Idle, R2!Idle
  <1>3. m.type \in {"PREPREPARE", "PARTIAL_COMMIT", "FULL_COMMIT"}
    BY MessageTypes
  <1>4. Last = R2!K /\ (R2!Col = log[Last].collector_SLid)
    BY DEF Last, R2!K, R2!Col
  <1>5. CASE m.type = "PREPREPARE"
    <2>1. R2!PreprepareInFlight(m)
      BY <1>1, <1>5 DEF R2!InFlight
    <2> QED
      BY <1>2, <1>4, <1>5, <2>1 DEF R2!PreprepareInFlight
  <1>6. CASE m.type = "PARTIAL_COMMIT"
    <2>1. R2!PartialCommitInFlight(m)
      BY <1>1, <1>6 DEF R2!InFlight
    <2> QED
      BY <1>2, <1>4, <1>6, <2>1 DEF R2!PartialCommitInFlight, R2!Closed, R2!Collecting
  <1>7. CASE m.type = "FULL_COMMIT"
    <2>1. R2!FullCommitInFlight(m)
      BY <1>1, <1>7 DEF R2!InFlight
    <2> QED
      BY <1>2, <1>4, <1>7, <2>1 DEF R2!FullCommitInFlight, R2!Closed, R2!Collecting
  <1> QED
    BY <1>3, <1>5, <1>6, <1>7

-----------------------------------------------------------------------------
(* The scheduler: what it proposes is a request, and the Preprepares are new. *)
Startable(from, pend) ==
    /\ pend \subseteq Request
    /\ from \in [SL -> 0..MaxCycle]

Sent(e, R) == R2!SendPreprepare(e, R) /\ QueuesOK'

(* The leader's scheduler sends the next Preprepare.                          *)
LEMMA SpawnSends ==
    ASSUME NodeInv, BelowWrap', NEW R, R \subseteq Net, NEW st, NEW from, NEW pend, NEW c, NEW q,
           RestOK(Leader, R, c, q), juggleQueue' = [juggleQueue EXCEPT ![Leader] = q],
           Startable(from, pend), canStartRound2(st, from, pend),
           leader_round2_sendPreprepare(st, pend, c), rgLeader_batch_received_from' = from,
           submitted' = submitted
    PROVE  /\ state' = [st EXCEPT ![Leader] = "WAITING_FOR_PREPREPARE"]
           /\ message_received_counter' = [message_received_counter EXCEPT ![Leader] = 0]
           /\ SchedulerOK'
           /\ \E e \in Request : Sent(e, R)
  <1> DEFINE e0 == IF pend # {} THEN Top(pend) ELSE {NextBatch}
  <1>1. PICK r \in e0 :
            LET p == [request |-> r, collector_SLid |-> leader_collector_rr]
                one == IF pend # {} THEN 0 ELSE 1
            IN  /\ state' = [st EXCEPT ![Leader] = "WAITING_FOR_PREPREPARE"]
                /\ message_received_counter' = [message_received_counter EXCEPT ![Leader] = 0]
                /\ pending' = pend \ {r}
                /\ leader_round2_next_rcanopus_cycle' = leader_round2_next_rcanopus_cycle + one
                /\ leader_batch_processed' = leader_batch_processed + one
                /\ round2_next_seq' = [round2_next_seq EXCEPT ![Leader] = (@ + 1) % 2^16]
                /\ leader_collector_rr' = IF leader_collector_rr + 1 = N
                                          THEN 0 ELSE leader_collector_rr + 1
                /\ chan' = Broadcast(c, Leader,
                       [d \in SL |-> PreprepareMessage(round2_next_seq[Leader], p, d)])
                /\ log' = Append(log, p)
    BY DEF leader_round2_sendPreprepare
  <1> DEFINE p == [request |-> r, collector_SLid |-> leader_collector_rr]
             one == IF pend # {} THEN 0 ELSE 1
             s == round2_next_seq[Leader]
             copy == [d \in SL |-> PreprepareMessage(s, p, d)]
  <1>2. /\ NodeTypes /\ Positions
        /\ SchedulerOK /\ QueuesOK /\ MaxCycle \in Nat
    BY NodeFacts, BoundsAssumption DEF NodeInv
  <1>3. pend = {} => leader_batch_processed < MaxCycle
    <2>1. pend = {} => from[Leader] > leader_batch_processed
      BY LeaderInSL DEF canStartRound2
    <2> QED
      BY <1>2, <2>1, LeaderInSL DEF Startable, SchedulerOK
  <1>4. r \in Request
    <2>1. CASE pend # {}
      BY <1>1, <2>1 DEF Startable, Top
    <2>2. CASE pend = {}
      <3>1. r = NextBatch
        BY <1>1, <2>2
      <3>2. leader_round2_next_rcanopus_cycle \in Cycle /\ 0 \in 0..NumRemote
        BY <1>2, <1>3, <2>2, BoundsAssumption DEF SchedulerOK, Cycle
      <3> QED
        BY <3>1, <3>2 DEF NextBatch, Request, RequestType
    <2> QED
      BY <2>1, <2>2
  <1>5. SchedulerOK'
    <2>1. pending' = pend \ {r} /\ leader_batch_processed' = leader_batch_processed + one
          /\ leader_round2_next_rcanopus_cycle' = leader_round2_next_rcanopus_cycle + one
      BY <1>1
    <2>2. one \in {0, 1} /\ leader_batch_processed + one \in 0..MaxCycle
      BY <1>2, <1>3 DEF SchedulerOK
    <2> HIDE DEF one
    <2> QED
      BY <1>2, <2>1, <2>2 DEF SchedulerOK, Startable
  <1>6. p \in R2!Preprepare /\ s = Last + 1 /\ Last \in Nat
    <2>1. leader_collector_rr \in SL /\ s = Last + 1 /\ Last \in Nat
      BY <1>2 DEF NodeTypes, Positions
    <2> QED
      BY <1>4, <2>1 DEF R2!Preprepare, R2!SL, SL
  <1>7. log' = Append(log, p) /\ Last' = Last + 1 /\ Last + 1 <= 2^16 - 2
    <2>1. log' = Append(log, p) /\ log \in Seq(R2!Preprepare)
      BY <1>1, <1>2 DEF NodeTypes
    <2>2. Len(log') = Len(log) + 1
      BY <1>6, <2>1
    <2> QED
      BY <2>1, <2>2 DEF BelowWrap, Last
  <1>8. s \in R2!Seq16
    BY <1>6, <1>7, R2Assumptions DEF R2!Seq16
  <1> HIDE DEF p, s, e0
  <1>9. \A d \in SL : copy[d] = PreprepareMessage(s, p, d)
    OBVIOUS
  <1>10. chan' = Broadcast(c, Leader, copy)
    BY <1>1 DEF p, s
  <1> HIDE DEF copy
  <1>11. \A d \in SL : copy[d].to = d /\ copy[d].type = "PREPREPARE" /\ copy[d].seq = s
    BY <1>6, <1>8, <1>9, Preprepares
  <1>12. ASSUME NEW d \in SL PROVE copy[d] \in Message /\ copy[d] \notin R
    <2>1. copy[d] \in Message
      BY <1>6, <1>8, <1>9, Preprepares
    <2>2. copy[d] \notin Net
      <3>1. ASSUME copy[d] \in Net PROVE FALSE
        <4>1. copy[d].seq = Last
          BY <1>11, <3>1, InFlightFacts
        <4> QED
          BY <1>6, <1>11, <4>1
      <3> QED
        BY <3>1
    <2> QED
      BY <2>1, <2>2
  <1>13. copy \in [SL -> Message]
    <2>1. copy = [d \in SL |-> copy[d]]
      BY DEF copy
    <2> QED
      BY <1>12, <2>1
  <1>14. QueuesOK' /\ Net' = R \cup {copy[d] : d \in SL}
    <2>1. Broadcasts(Leader, R, c, q, copy)
      BY <1>10, <1>11, <1>12, <1>13 DEF Broadcasts
    <2> QED
      BY <2>1, LeaderInSL, BroadcastAdds
  <1>15. {copy[d] : d \in SL} = R2!Preprepares(s, p)
    BY <1>9 DEF R2!Preprepares, PreprepareMessage, R2!SL, SL
  <1>16. R2!SendPreprepare(r, R)
    <2>1. Len(log) < 2^16 - 2
      BY <1>6, <1>7, R2Assumptions DEF Last
    <2>2. /\ leader_collector_rr' = IF leader_collector_rr + 1 = N THEN 0 ELSE leader_collector_rr + 1
          /\ round2_next_seq' = [round2_next_seq EXCEPT ![Leader] = (@ + 1) % 2^16]
      BY <1>1
    <2>3. (InFlight \cup Juggled)' = R \cup R2!Preprepares(round2_next_seq[Leader], p)
      BY <1>14, <1>15 DEF Net, s
    <2> QED
      BY <1>7, <2>1, <2>2, <2>3 DEF R2!SendPreprepare, R2!NextCollector, R2!Leader, Leader, p
  <1> QED
    BY <1>1, <1>4, <1>5, <1>14, <1>16 DEF Sent

-----------------------------------------------------------------------------
(* Every dispatch is a step of Round2, or changes nothing of it.              *)
Simulated == QueuesOK' /\ SchedulerOK' /\ [R2!Next]_(R2!vars)

(* An SL's handler has taken m out of the queues.                             *)
Taking(n, m, c, q) ==
    /\ NodeInv /\ BelowWrap' /\ m \in Net /\ m.to = n
    /\ RestOK(n, Net \ {m}, c, q)
    /\ submitted' = submitted

(* A step that leaves the scheduler alone.                                    *)
LEMMA SchedulerKept ==
    ASSUME SchedulerOK, UNCHANGED <<leader, rgLeader_batch_received_from, pending, submitted>>
    PROVE  SchedulerOK'
  BY DEF SchedulerOK, leader

(* A step that Round2 does not see.                                           *)
LEMMA Silent ==
    ASSUME QueuesOK', Net' = Net, SchedulerOK',
           UNCHANGED <<round2_next_seq, state, message_received_counter, status, leader, log, delivered>>
    PROVE  Simulated
  BY DEF Simulated, R2!vars, R2!status, status, leader, Net

(* A Preprepare is juggled.                                                   *)
LEMMA JugglePreprepareStep ==
    ASSUME NEW n \in SL, NEW m, NEW c, NEW q, Taking(n, m, c, q), JugglePreprepare(n, m, c, q)
    PROVE  Simulated
  <1>1. /\ NodeInv /\ m \in Net /\ m.to = n /\ m.type = "PREPREPARE" /\ m \in Message
        /\ RestOK(n, Net \ {m}, c, q) /\ Juggle(n, m, c, q)
    BY MessageTypes DEF Taking, JugglePreprepare
  <1>2. QueuesOK' /\ Net' = Net
    BY <1>1, JuggleKeeps
  <1>3. state[n] \notin Idle
    <2>1. /\ m.seq = Last /\ Votes(n) + 1 = Last /\ NodeTypes /\ Positions
      BY <1>1, InFlightFacts, NodeFacts
    <2>2. m.seq <= round2_next_seq[n]
      <3>1. m.seq = Last /\ Last \in Nat /\ Votes(n) + 1 = Last
        BY <1>1, <2>1 DEF NodeTypes
      <3>2. CASE n = Leader
        BY <2>1, <3>1, <3>2 DEF Positions
      <3>3. CASE n # Leader
        BY <2>1, <3>1, <3>3 DEF Positions
      <3> QED
        BY <3>2, <3>3
    <2>3. m.seq \in Nat /\ round2_next_seq[n] \in Nat
      BY <2>1, SeqNat DEF NodeTypes
    <2> QED
      BY <2>2, <2>3 DEF JugglePreprepare
  <1>4. state' = state /\ message_received_counter' = message_received_counter
    <2>1. state[n] # "NONE" /\ NodeTypes
      BY <1>1, <1>3, NodeFacts DEF Idle
    <2> QED
      BY <2>1 DEF JugglePreprepare, NodeTypes
  <1>5. SchedulerOK'
    BY <1>1, SchedulerKept DEF JugglePreprepare, Taking, NodeInv
  <1> QED
    BY <1>2, <1>4, <1>5, Silent DEF JugglePreprepare

(* A PartialCommit is juggled.                                                *)
LEMMA JuggleCommitStep ==
    ASSUME NEW n \in SL, NEW m, NEW c, NEW q, Taking(n, m, c, q), JuggleCommit(n, m, c, q)
    PROVE  Simulated
  <1>1. /\ NodeInv /\ m \in Net /\ m.to = n /\ m \in Message
        /\ RestOK(n, Net \ {m}, c, q) /\ Juggle(n, m, c, q)
    BY MessageTypes DEF Taking, JuggleCommit
  <1>2. QueuesOK' /\ Net' = Net
    BY <1>1, JuggleKeeps
  <1>3. SchedulerOK'
    BY <1>1, SchedulerKept DEF JuggleCommit, Taking, NodeInv
  <1> QED
    BY <1>2, <1>3, Silent DEF JuggleCommit

(* A Preprepare is handled.                                                   *)
LEMMA HandlePreprepareStep ==
    ASSUME NEW n \in SL, NEW m, NEW c, NEW q, Taking(n, m, c, q), HandlePreprepare(n, m, c, q)
    PROVE  Simulated
  <1> DEFINE y == PartialCommit(m.seq, n, m.body.collector_SLid)
  <1>1. /\ NodeInv /\ m \in Net /\ m.to = n /\ m.type = "PREPREPARE" /\ m \in Message
        /\ m.seq \in R2!Seq16 /\ m.body \in R2!Preprepare
        /\ RestOK(n, Net \ {m}, c, q) /\ Consume(n, Send(c, n, y), q)
    BY MessageTypes DEF Taking, HandlePreprepare
  <1>2. m.body.collector_SLid \in SL
    BY <1>1 DEF R2!Preprepare, R2!SL, SL
  <1>3. /\ y \in Message /\ y.to = m.body.collector_SLid /\ y.type = "PARTIAL_COMMIT"
        /\ y.sender = n
    BY <1>1, <1>2, PartialCommits
  <1> HIDE DEF y
  <1>4. y \notin Net
    <2>1. Votes(n) + 1 = Last /\ NodeTypes
      BY <1>1, InFlightFacts, NodeFacts
    <2>2. ASSUME y \in Net PROVE FALSE
      <3>1. Votes(n) = Last
        BY <1>1, <1>3, <2>2, InFlightFacts
      <3> QED
        BY <2>1, <3>1 DEF NodeTypes
    <2> QED
      BY <2>2
  <1>5. QueuesOK' /\ Net' = (Net \ {m}) \cup {y}
    BY <1>1, <1>2, <1>3, <1>4, SendAdds
  <1>6. SchedulerOK'
    BY <1>1, SchedulerKept DEF HandlePreprepare, Taking, NodeInv
  <1>7. R2!HandlePreprepare(m)
    <2>1. (InFlight \cup Juggled)' = ((InFlight \cup Juggled) \ {m})
                \cup {R2!PartialCommit(m.seq, n, m.body.collector_SLid)}
      BY <1>5 DEF Net, y, PartialCommit, R2!PartialCommit
    <2>2. R2!Accepts(m)
      BY <1>1 DEF HandlePreprepare, R2!Accepts, R2!Idle, Idle, R2!Leader, Leader
    <2> QED
      BY <1>1, <2>1, <2>2 DEF HandlePreprepare, R2!HandlePreprepare, R2!Leader, Leader, leader
  <1> QED
    BY <1>1, <1>5, <1>6, <1>7 DEF Simulated, R2!Next, Net

(* A PartialCommit is counted.                                                *)
LEMMA HandlePartialCommitStep ==
    ASSUME NEW n \in SL, NEW m, NEW c, NEW q, Taking(n, m, c, q), HandlePartialCommit(n, m, c, q)
    PROVE  Simulated
  <1>1. /\ NodeInv /\ m \in Net /\ m.to = n /\ m.type = "PARTIAL_COMMIT" /\ m \in Message
        /\ m.seq \in R2!Seq16 /\ RestOK(n, Net \ {m}, c, q)
    BY MessageTypes DEF Taking, HandlePartialCommit
  <1>2. SchedulerOK'
    BY <1>1, SchedulerKept DEF HandlePartialCommit, Taking, NodeInv
  <1>3. R2!Counts(m)
    BY <1>1 DEF HandlePartialCommit, R2!Counts
  <1> DEFINE last == message_received_counter[n] + 1 = N
             copy == [d \in SL |-> FullCommit(m.seq, d)]
  <1>4. Consume(n, IF last THEN Broadcast(c, n, copy) ELSE c, q)
    BY DEF HandlePartialCommit
  <1>5. CASE ~last
    <2>1. chan' = c /\ juggleQueue' = [juggleQueue EXCEPT ![n] = q]
      BY <1>4, <1>5 DEF Consume
    <2>2. QueuesOK' /\ Net' = Net \ {m}
      BY <1>1, <2>1, ConsumeTakes
    <2>3. state' = state
      BY <1>1, <1>5, NodeFacts DEF HandlePartialCommit, NodeTypes
    <2>4. R2!HandlePartialCommit(m)
      BY <1>1, <1>3, <1>5, <2>2, <2>3 DEF HandlePartialCommit, R2!HandlePartialCommit, Net, status, leader,
                                  R2!message_required
    <2> QED
      BY <1>1, <1>2, <2>2, <2>4 DEF Simulated, R2!Next, Net
  <1>6. CASE last
    <2>1. chan' = Broadcast(c, n, copy) /\ juggleQueue' = [juggleQueue EXCEPT ![n] = q]
      BY <1>4, <1>6 DEF Consume
    <2>2. m.seq = Last /\ m.to = log[Last].collector_SLid
      BY <1>1, InFlightFacts
    <2>3. ASSUME NEW d \in SL
          PROVE  copy[d] \in Message /\ copy[d].to = d /\ copy[d] \notin Net
      <3>1. copy[d] = FullCommit(m.seq, d)
        OBVIOUS
      <3>2. /\ copy[d] \in Message /\ copy[d].to = d /\ copy[d].type = "FULL_COMMIT"
            /\ copy[d].seq = m.seq
        BY <1>1, <3>1, FullCommits
      <3> HIDE DEF copy
      <3>3. ASSUME copy[d] \in Net PROVE FALSE
        <4>1. state[n] # "COLLECTOR_WAITING_FOR_PARTIALCOMMITS"
          BY <1>1, <2>2, <3>2, <3>3, InFlightFacts
        <4> QED
          BY <4>1 DEF HandlePartialCommit
      <3> QED
        BY <3>2, <3>3
    <2>4. copy \in [SL -> Message]
      BY <2>3
    <2> HIDE DEF copy
    <2>5. QueuesOK' /\ Net' = (Net \ {m}) \cup {copy[d] : d \in SL}
      <3>1. Broadcasts(n, Net \ {m}, c, q, copy)
        BY <1>1, <2>1, <2>3, <2>4 DEF Broadcasts
      <3> QED
        BY <3>1, BroadcastAdds
    <2>6. {copy[d] : d \in SL} = R2!FullCommits(m.seq)
      BY DEF copy, R2!FullCommits, R2!FullCommit, FullCommit, R2!SL, SL
    <2>7. R2!HandleLastPartialCommit(m)
      BY <1>1, <1>3, <1>6, <2>5, <2>6 DEF HandlePartialCommit, R2!HandleLastPartialCommit, Net, status,
                                  leader, R2!message_required
    <2> QED
      BY <1>1, <1>2, <2>5, <2>7 DEF Simulated, R2!Next, Net
  <1> QED
    BY <1>5, <1>6

(* Round 3 work is a request.                                                 *)
LEMMA WorkIsRequest ==
    ASSUME NEW n \in SL, NEW r \in Request
    PROVE  ConnectivityWork(n, r) \subseteq Request
  <1>1. r.cycle \in Cycle /\ 0 \in 0..NumRemote
    BY BoundsAssumption DEF Request
  <1> QED
    BY <1>1 DEF ConnectivityWork, Request, RequestType

(* An entry is applied.                                                       *)
LEMMA HandleFullCommitStep ==
    ASSUME NEW n \in SL, NEW m, NEW c, NEW q, Taking(n, m, c, q), HandleFullCommit(n, m, c, q)
    PROVE  Simulated
  <1> DEFINE idle == [state EXCEPT ![n] = "NONE"]
  <1>1. /\ NodeInv /\ m \in Net /\ m.to = n /\ m.type = "FULL_COMMIT" /\ m \in Message
        /\ RestOK(n, Net \ {m}, c, q)
        /\ BelowWrap' /\ submitted' = submitted
        /\ juggleQueue' = [juggleQueue EXCEPT ![n] = q]
        /\ stored' = [stored EXCEPT ![n] = {}]
        /\ UNCHANGED <<round2_sequence, round2_isCollector, rgLeader_batch_received_from>>
        /\ state[n] = "WAITING_FOR_FULLCOMMIT" /\ m.seq = round2_sequence[n]
    BY MessageTypes DEF Taking, HandleFullCommit
  <1>2. PICK p \in stored[n] :
          LET work == ConnectivityWork(n, p.request)
          IN  /\ delivered' = [delivered EXCEPT ![n] = Append(@, p)]
              /\ IF n = Leader
                 THEN SpawnRound2(idle, rgLeader_batch_received_from, pending \cup work, c)
                 ELSE /\ state' = idle
                      /\ chan' = c
                      /\ UNCHANGED <<pending, message_received_counter, round2_next_seq, leader, log>>
    BY DEF HandleFullCommit
  <1> DEFINE work == ConnectivityWork(n, p.request)
             pend == pending \cup work
             from == rgLeader_batch_received_from
  <1>3. p \in R2!Preprepare /\ p.request \in Request
    <2>1. stored[n] \in SUBSET R2!Preprepare
      BY <1>1, NodeFacts DEF NodeTypes
    <2> QED
      BY <2>1 DEF R2!Preprepare
  <1>4. Startable(from, pend)
    <2>1. work \subseteq Request
      BY <1>3, WorkIsRequest
    <2> QED
      BY <1>1, <2>1 DEF Startable, NodeInv, SchedulerOK
  <1>5. R2!Commit(m)
    BY <1>1, <1>2 DEF R2!Commit
  <1> HIDE DEF pend, idle
  <1>6. CASE n = Leader /\ canStartRound2(idle, from, pend)
    <2>1. SpawnRound2(idle, from, pend, c)
      BY <1>2, <1>6 DEF pend
    <2>2. leader_round2_sendPreprepare(idle, pend, c)
      BY <1>6, <2>1 DEF SpawnRound2
    <2>3. /\ state' = [idle EXCEPT ![Leader] = "WAITING_FOR_PREPREPARE"]
          /\ message_received_counter' = [message_received_counter EXCEPT ![Leader] = 0]
          /\ SchedulerOK'
          /\ \E e \in Request : Sent(e, Net \ {m})
      BY <1>1, <1>4, <1>6, <2>2, SpawnSends
    <2>4. PICK e \in Request : Sent(e, Net \ {m})
      BY <2>3
    <2>5. state' = [state EXCEPT ![Leader] = "WAITING_FOR_PREPREPARE"]
      BY <1>6, <2>3 DEF idle
    <2>6. R2!HandleFullCommitAndSpawn(m, e)
      BY <1>1, <1>5, <1>6, <2>3, <2>4, <2>5 DEF R2!HandleFullCommitAndSpawn, Sent, Net, R2!Leader, Leader
    <2> QED
      BY <1>1, <2>3, <2>4, <2>6 DEF Simulated, Sent, R2!Next, Net
  <1>7. CASE ~(n = Leader /\ canStartRound2(idle, from, pend))
    <2>1. /\ state' = idle /\ chan' = c
          /\ UNCHANGED <<message_received_counter, round2_next_seq, leader, log>>
          /\ pending' \in {pending, pend}
      <3>1. CASE n = Leader
        <4>1. SpawnRound2(idle, from, pend, c)
          BY <1>2, <3>1 DEF pend
        <4> QED
          BY <1>7, <3>1, <4>1 DEF SpawnRound2
      <3>2. CASE n # Leader
        BY <1>2, <3>2
      <3> QED
        BY <3>1, <3>2
    <2>2. QueuesOK' /\ Net' = Net \ {m}
      BY <1>1, <2>1, ConsumeTakes
    <2>3. SchedulerOK'
      BY <1>1, <1>4, <2>1 DEF SchedulerOK, NodeInv, Startable, leader
    <2>4. R2!HandleFullCommit(m)
      BY <1>1, <1>5, <2>1, <2>2 DEF R2!HandleFullCommit, leader, Net, idle
    <2> QED
      BY <1>1, <2>2, <2>3, <2>4 DEF Simulated, R2!Next, Net
  <1> QED
    BY <1>6, <1>7

(* A message of Round 2, received or tried again.                             *)
LEMMA DispatchStep ==
    ASSUME NEW n \in SL, NEW m, NEW c, NEW q, Taking(n, m, c, q), dispatcher_round2(n, m, c, q)
    PROVE  Simulated
  BY JugglePreprepareStep, HandlePreprepareStep, JuggleCommitStep, HandlePartialCommitStep,
     HandleFullCommitStep DEF dispatcher_round2

(* Any other message at the leader.                                           *)
LEMMA LeaderNotesStep ==
    ASSUME NodeInv, BelowWrap', NEW from, NEW work, LeaderNotes(from, work),
           from \in [SL -> 0..MaxCycle], work \subseteq Request
    PROVE  Simulated
  <1> DEFINE pend == pending \cup work
  <1>1. /\ SpawnRound2(state, from, pend, chan)
        /\ rgLeader_batch_received_from' = from /\ submitted' = submitted
        /\ UNCHANGED <<juggleQueue, status, delivered>>
    BY DEF LeaderNotes, client
  <1>2. Startable(from, pend)
    BY DEF NodeInv, SchedulerOK, Startable
  <1>3. /\ RestOK(Leader, Net, chan, juggleQueue[Leader]) /\ SchedulerOK
        /\ juggleQueue' = [juggleQueue EXCEPT ![Leader] = juggleQueue[Leader]]
    BY <1>1, NothingTaken, LeaderInSL DEF NodeInv, QueuesOK
  <1> HIDE DEF pend
  <1>4. CASE canStartRound2(state, from, pend)
    <2>1. leader_round2_sendPreprepare(state, pend, chan)
      BY <1>1, <1>4 DEF SpawnRound2
    <2>2. /\ state' = [state EXCEPT ![Leader] = "WAITING_FOR_PREPREPARE"]
          /\ message_received_counter' = [message_received_counter EXCEPT ![Leader] = 0]
          /\ SchedulerOK'
          /\ \E e \in Request : Sent(e, Net)
      BY <1>1, <1>2, <1>3, <1>4, <2>1, SpawnSends
    <2>3. PICK e \in Request : Sent(e, Net)
      BY <2>2
    <2>4. R2!Propose(e)
      BY <1>1, <1>4, <2>2, <2>3 DEF R2!Propose, Sent, Net, R2!Leader, Leader, R2!canStartRound2,
                             canStartRound2, status
    <2> QED
      BY <2>2, <2>3, <2>4 DEF Simulated, Sent, R2!Next
  <1>5. CASE ~canStartRound2(state, from, pend)
    <2>1. /\ state' = state /\ chan' = chan /\ pending' = pend
          /\ UNCHANGED <<message_received_counter, round2_next_seq, leader, log>>
      BY <1>1, <1>5 DEF SpawnRound2
    <2>2. QueuesOK' /\ Net' = Net
      BY <1>3, <2>1, ConsumeTakes, LeaderInSL
    <2>3. SchedulerOK'
      BY <1>1, <1>2, <1>3, <2>1 DEF SchedulerOK, Startable, leader
    <2> QED
      BY <1>1, <2>1, <2>2, <2>3, Silent
  <1> QED
    BY <1>4, <1>5

(* What Round 3 makes the leader push is a request.                           *)
LEMMA WorkRequest ==
    /\ \A c \in Cycle, b \in Remote : {Work(FETCHED_RESULT, c, b)} \subseteq Request
    /\ \A c \in Cycle : \A t \in {LOCAL_MEMBERSHIP, FULL_MEMBERSHIP} : {Work(t, c, 0)} \subseteq Request
  BY BoundsAssumption DEF Work, Request, RequestType, Remote

(* The work of an answer.                                                     *)
LEMMA Round3Work ==
    ASSUME NEW n \in SL, NEW m \in Round3Message, dispatcher_round3(n, m)
    PROVE  Quiet \/ \E work : Notes(work) /\ work \subseteq Request
  <1>1. m.cycle \in Cycle
    BY DEF Round3Message
  <1>2. /\ {Work(LOCAL_MEMBERSHIP, m.cycle, 0)} \subseteq Request
        /\ {Work(FULL_MEMBERSHIP, m.cycle, 0)} \subseteq Request
        /\ {} \subseteq Request
    BY <1>1, WorkRequest
  <1>3. CASE HandleConnectivityResponse(n, m)
    <2>1. PICK work \in {{Work(LOCAL_MEMBERSHIP, m.cycle, 0)}, {}} : Notes(work)
      BY <1>3 DEF HandleConnectivityResponse, Notes
    <2> QED
      BY <1>2, <2>1
  <1>4. CASE HandleMembershipResponse(n, m)
    BY <1>2, <1>4 DEF HandleMembershipResponse, Notes, Quiet
  <1>5. CASE JuggleRound3(n, m) \/ HandleConnectivityRequest(n, m)
    BY <1>5 DEF JuggleRound3, HandleConnectivityRequest, Quiet
  <1> QED
    BY <1>3, <1>4, <1>5 DEF dispatcher_round3

(* The initial state, when the run starts with sequence number 1.             *)
LEMMA InitSimulates == FirstSeq = 1 /\ Init => NodeInv /\ R2!Init
  <1> SUFFICES ASSUME FirstSeq = 1, Init PROVE NodeInv /\ R2!Init
    OBVIOUS
  <1>1. /\ chan \in [SL -> [SL -> Seq(Message)]] /\ juggleQueue \in [SL -> Seq(Message)]
        /\ \A s, d \in SL : chan[s][d] = <<>>
        /\ \A d \in SL : juggleQueue[d] = <<>>
    BY DEF Init
  <1>2. \A p \in Place : Queues[p] = <<>>
    <2>1. QueuesAre
      BY QueuesAt
    <2>2. ASSUME NEW p \in Place PROVE Queues[p] = <<>>
      <3>1. p[2] \in SL /\ (p[1] \in SL \/ p[1] = N) /\ p = <<p[1], p[2]>>
        BY Places
      <3>2. CASE p[1] \in SL
        <4>1. Queues[<<p[1], p[2]>>] = chan[p[1]][p[2]]
          BY <2>1, <3>1, <3>2 DEF QueuesAre
        <4> QED
          BY <1>1, <3>1, <3>2, <4>1
      <3>3. CASE p[1] = N
        <4>1. Queues[<<N, p[2]>>] = juggleQueue[p[2]]
          BY <2>1, <3>1 DEF QueuesAre
        <4> QED
          BY <1>1, <3>1, <3>3, <4>1
      <3> QED
        BY <3>1, <3>2, <3>3
    <2> QED
      BY <2>2
  <1>3. OnceIn(Queues) /\ AddressedIn(Queues)
    BY <1>2 DEF OnceIn, AddressedIn
  <1>4. MessagesIn(Queues) = {}
    <2>1. \A m : m \notin MessagesIn(Queues)
      BY <1>2, InMessages
    <2> QED
      BY <2>1
  <1>5. R2!Init
    <2>1. InFlight \cup Juggled = {}
      BY <1>4, NetIsQueues
    <2>2. (FirstSeq - 1) % N = 0
      BY NAssumption
    <2> QED
      BY <2>1, <2>2 DEF Init, R2!Init, R2!SL, SL
  <1>6. R2!IInv
    BY <1>5, R2Assumptions, R2!InitIInv, R2!NAssumption, R2!MaxSeqAssumption
  <1>7. SchedulerOK
    BY BoundsAssumption DEF Init, SchedulerOK
  <1> QED
    <2>1. PassOK /\ Round3OK
      BY <1>1 DEF Init, PassOK, Round3OK
    <2> QED
      BY <1>1, <1>3, <1>5, <1>6, <1>7, <2>1 DEF NodeInv, QueuesOK

(* What the threads that touch no queue change is none of Round2's business.  *)
LEMMA OtherThreads ==
    ASSUME NodeInv, UNCHANGED <<chan, juggleQueue>>, SchedulerOK',
           UNCHANGED <<round2_next_seq, state, message_received_counter, status, leader, log, delivered>>
    PROVE  Simulated
  <1>1. QueuesOK'
    BY DEF NodeInv, QueuesOK, Queues, QueuesOf, OnceIn, AddressedIn
  <1>2. Net' = Net
    BY DEF Net, InFlight, Juggled
  <1> QED
    BY <1>1, <1>2, Silent

(* Every step of the SLs is one of Round2, or nothing to it.                  *)
LEMMA NextSimulates ==
    ASSUME NodeInv, [Next]_vars, BelowWrap'
    PROVE  Simulated
  <1> USE DEF NodeInv
  <1>1. ASSUME NEW n \in SL, Receive(n) PROVE Simulated
    <2>1. PICK s \in SL :
            /\ chan[s][n] # <<>>
            /\ dispatcher_round2(n, Head(chan[s][n]), [chan EXCEPT ![s][n] = Tail(@)], juggleQueue[n])
      BY <1>1 DEF Receive
    <2>2. submitted' = submitted
      BY <1>1 DEF Receive, client
    <2>3. Taking(n, Head(chan[s][n]), [chan EXCEPT ![s][n] = Tail(@)], juggleQueue[n])
      BY <2>1, <2>2, ReceiveTakes DEF Taking
    <2> QED
      BY <2>1, <2>3, DispatchStep
  <1>2. ASSUME NEW n \in SL, Retry(n) PROVE Simulated
    <2>1. /\ dispatcher_round2(n, Head(juggleQueue[n]), chan, Tail(juggleQueue[n]))
          /\ submitted' = submitted /\ pass[n] > 0
      BY <1>2 DEF Retry, client
    <2>2. juggleQueue[n] # <<>>
      BY <2>1 DEF QueuesOK, PassOK
    <2>3. Taking(n, Head(juggleQueue[n]), chan, Tail(juggleQueue[n]))
      BY <2>1, <2>2, RetryTakes DEF Taking
    <2> QED
      BY <2>1, <2>3, DispatchStep
  <1>3. CASE ReceiveEmpty
    <2>1. rgLeader_batch_received_from \in [SL -> 0..MaxCycle]
      BY DEF SchedulerOK
    <2> QED
      BY <1>3, <2>1, LeaderNotesStep DEF ReceiveEmpty, LeaderReceive
  <1>4. ASSUME NEW s \in SL, ReceiveRequest(s) PROVE Simulated
    <2> DEFINE from == [rgLeader_batch_received_from EXCEPT ![s] = @ + 1]
    <2>1. from \in [SL -> 0..MaxCycle]
      BY <1>4, BoundsAssumption DEF ReceiveRequest, SchedulerOK
    <2>2. LeaderNotes(from, {})
      BY <1>4 DEF ReceiveRequest, LeaderReceive
    <2> HIDE DEF from
    <2>3. {} \subseteq Request
      OBVIOUS
    <2> QED
      BY <2>1, <2>2, <2>3, LeaderNotesStep
  <1>5. CASE \E c \in Cycle, b \in Remote : ReceiveFetchResponse(c, b)
    <2>1. PICK c \in Cycle, b \in Remote : ReceiveFetchResponse(c, b)
      BY <1>5
    <2>2. {Work(FETCHED_RESULT, c, b)} \subseteq Request
      BY WorkRequest
    <2> QED
      BY <2>1, <2>2, LeaderNotesStep DEF ReceiveFetchResponse, LeaderReceive, SchedulerOK
  <1>6. CASE Quiet
    <2>1. SchedulerOK'
      BY <1>6, SchedulerKept DEF Quiet, round2, client
    <2> QED
      BY <1>6, <2>1, OtherThreads DEF Quiet, round2, queues
  <1>11. ASSUME NEW n \in SL, ReceiveRound3(n) \/ RetryRound3(n) PROVE Simulated
    <2>1. PICK m : m \in Round3Message /\ dispatcher_round3(n, m)
      BY <1>11 DEF ReceiveRound3, RetryRound3, Round3OK
    <2>2. CASE Quiet
      BY <1>6, <2>2
    <2>3. ASSUME NEW work, Notes(work), work \subseteq Request PROVE Simulated
      BY <2>3, LeaderNotesStep DEF Notes, SchedulerOK
    <2> QED
      BY <2>1, <2>2, <2>3, Round3Work
  <1>12. ASSUME NEW n \in SL, ReceiveOther(n) PROVE Simulated
    BY <1>6, <1>12 DEF ReceiveOther, Quiet
  <1>7. CASE mockClientOnLeader
    <2>1. SchedulerOK'
      BY <1>7, BoundsAssumption, LeaderInSL DEF mockClientOnLeader, SchedulerOK, rest, leader, client
    <2> QED
      BY <1>7, <2>1, OtherThreads DEF mockClientOnLeader, rest, queues
  <1>8. ASSUME NEW s \in SL, mockClient(s) PROVE Simulated
    <2>1. SchedulerOK'
      BY <1>8, BoundsAssumption DEF mockClient, SchedulerOK, rest, leader
    <2> QED
      BY <1>8, <2>1, OtherThreads DEF mockClient, rest, queues
  <1>9. CASE ListenPipe
    <2>1. SchedulerOK'
      BY <1>9, SchedulerKept DEF ListenPipe, rest
    <2> QED
      BY <1>9, <2>1, OtherThreads DEF ListenPipe, rest, queues
  <1>10. CASE UNCHANGED vars
    <2>1. SchedulerOK'
      BY <1>10, SchedulerKept DEF vars, client
    <2> QED
      BY <1>10, <2>1, OtherThreads DEF vars, queues
  <1> QED
    BY <1>1, <1>2, <1>3, <1>4, <1>5, <1>7, <1>8, <1>9, <1>10, <1>11, <1>12 DEF Next

(* A handler leaves the juggle queue as it found it, or with the message at   *)
(* its end; those of other SLs it does not touch.                             *)
LEMMA DispatchJuggles ==
    ASSUME NEW n \in SL, NEW m, NEW c, NEW q, dispatcher_round2(n, m, c, q)
    PROVE  \E r \in {q, Append(q, m)} : juggleQueue' = [juggleQueue EXCEPT ![n] = r]
  <1>1. CASE JugglePreprepare(n, m, c, q)
    BY <1>1 DEF JugglePreprepare, Juggle, Consume
  <1>2. CASE JuggleCommit(n, m, c, q)
    BY <1>2 DEF JuggleCommit, Juggle, Consume
  <1>3. CASE HandlePreprepare(n, m, c, q)
    BY <1>3 DEF HandlePreprepare, Consume
  <1>4. CASE HandlePartialCommit(n, m, c, q)
    BY <1>4 DEF HandlePartialCommit, Consume
  <1>5. CASE HandleFullCommit(n, m, c, q)
    BY <1>5 DEF HandleFullCommit
  <1> QED
    BY <1>1, <1>2, <1>3, <1>4, <1>5 DEF dispatcher_round2

(* The passes stay within the juggle queues.                                  *)
LEMMA NextPassOK ==
    ASSUME QueuesOK, PassOK, [Next]_vars, QueuesOK'
    PROVE  PassOK'
  <1>0. /\ juggleQueue \in [SL -> Seq(Message)] /\ juggleQueue' \in [SL -> Seq(Message)]
        /\ pass \in [SL -> Nat] /\ \A n \in SL : pass[n] <= Len(juggleQueue[n])
        /\ \A n \in SL : Len(juggleQueue[n]) \in Nat /\ Len(juggleQueue'[n]) \in Nat
    <2>1. juggleQueue \in [SL -> Seq(Message)] /\ juggleQueue' \in [SL -> Seq(Message)]
      BY DEF QueuesOK
    <2> QED
      BY <2>1 DEF PassOK
  <1>1. ASSUME NEW n \in SL, Receive(n) PROVE PassOK'
    <2>1. PICK s \in SL :
            dispatcher_round2(n, Head(chan[s][n]), [chan EXCEPT ![s][n] = Tail(@)], juggleQueue[n])
      BY <1>1 DEF Receive
    <2>2. \A d \in SL \ {n} : juggleQueue'[d] = juggleQueue[d]
      <3>1. PICK r : juggleQueue' = [juggleQueue EXCEPT ![n] = r]
        BY <2>1, DispatchJuggles
      <3> QED
        BY <1>0, <3>1
    <2>3. pass' = [pass EXCEPT ![n] = Len(juggleQueue'[n])]
      BY <1>1 DEF Receive, StartPass
    <2> QED
      BY <1>0, <2>2, <2>3 DEF PassOK
  <1>2. ASSUME NEW n \in SL, Retry(n) PROVE PassOK'
    <2> DEFINE q == Tail(juggleQueue[n])
               m == Head(juggleQueue[n])
    <2>1. dispatcher_round2(n, m, chan, q) /\ pass' = [pass EXCEPT ![n] = @ - 1] /\ pass[n] > 0
      BY <1>2 DEF Retry
    <2>2. /\ q \in Seq(Message) /\ m \in Message /\ Len(q) = Len(juggleQueue[n]) - 1
      <3>1. juggleQueue[n] \in Seq(Message) /\ juggleQueue[n] # <<>>
        BY <1>0, <2>1
      <3> QED
        BY <3>1
    <2> HIDE DEF q, m
    <2>3. PICK r \in {q, Append(q, m)} : juggleQueue' = [juggleQueue EXCEPT ![n] = r]
      BY <2>1, DispatchJuggles
    <2>4. juggleQueue'[n] = r /\ \A d \in SL \ {n} : juggleQueue'[d] = juggleQueue[d]
      BY <1>0, <2>3
    <2>5. Len(r) >= Len(juggleQueue[n]) - 1 /\ Len(r) \in Nat
      <3>1. Len(Append(q, m)) = Len(q) + 1 /\ Len(q) \in Nat
        BY <2>2
      <3> QED
        BY <1>0, <2>2, <2>3, <3>1
    <2>6. pass'[n] = pass[n] - 1 /\ pass'[n] \in Nat /\ \A d \in SL \ {n} : pass'[d] = pass[d]
      BY <1>0, <2>1
    <2>7. pass' \in [SL -> Nat]
      BY <1>0, <2>1, <2>6
    <2>8. ASSUME NEW d \in SL PROVE pass'[d] <= Len(juggleQueue'[d])
      <3>1. CASE d = n
        BY <1>0, <2>4, <2>5, <2>6, <3>1
      <3>2. CASE d # n
        BY <1>0, <2>4, <2>6, <3>2
      <3> QED
        BY <3>1, <3>2
    <2> QED
      BY <2>7, <2>8 DEF PassOK
  <1>3. ASSUME NEW from, NEW work, LeaderReceive(from, work) PROVE PassOK'
    <2>1. juggleQueue' = juggleQueue /\ pass' = [pass EXCEPT ![Leader] = Len(juggleQueue'[Leader])]
      BY <1>3 DEF LeaderReceive, LeaderNotes, StartPass
    <2> QED
      BY <1>0, <2>1, LeaderInSL DEF PassOK
  <1>4. CASE ReceiveEmpty
    BY <1>3, <1>4 DEF ReceiveEmpty
  <1>5. ASSUME NEW s \in SL, ReceiveRequest(s) PROVE PassOK'
    BY <1>3, <1>5 DEF ReceiveRequest
  <1>6. CASE \E c \in Cycle, b \in Remote : ReceiveFetchResponse(c, b)
    BY <1>3, <1>6 DEF ReceiveFetchResponse
  <1>7. ASSUME NEW n \in SL, ReceiveRound3(n) \/ ReceiveOther(n) PROVE PassOK'
    <2>1. juggleQueue' = juggleQueue
      BY <1>7, Round3Steps DEF ReceiveOther, Quiet, Notes, LeaderNotes, round2, queues
    <2>2. pass' = [pass EXCEPT ![n] = Len(juggleQueue'[n])]
      BY <1>7 DEF ReceiveRound3, ReceiveOther, StartPass
    <2> QED
      BY <1>0, <2>1, <2>2 DEF PassOK
  <1>10. ASSUME NEW n \in SL, RetryRound3(n) PROVE UNCHANGED <<juggleQueue, pass>>
    BY <1>10, Round3Steps DEF RetryRound3, Quiet, Notes, LeaderNotes, round2, queues
  <1>8. CASE UNCHANGED <<juggleQueue, pass>>
    BY <1>8 DEF PassOK
  <1>9. CASE mockClientOnLeader \/ (\E s \in SL : mockClient(s)) \/ ListenPipe \/ UNCHANGED vars
    BY <1>8, <1>9 DEF mockClientOnLeader, mockClient, ListenPipe, rest, queues, vars
  <1> QED
    BY <1>1, <1>2, <1>4, <1>5, <1>6, <1>7, <1>8, <1>9, <1>10 DEF Next

(* What a step does to the Round 3 messages of the queues.                    *)
Round3Stays == UNCHANGED <<juggledRound3, arrived>>

LEMMA Round3Dispatched ==
    ASSUME NEW n \in SL, NEW m, dispatcher_round3(n, m)
    PROVE  \E j \in {juggledRound3[n] \cup {m}, juggledRound3[n] \ {m}} :
              juggledRound3' = [juggledRound3 EXCEPT ![n] = j]
  BY DEF dispatcher_round3, JuggleRound3, HandleConnectivityRequest, HandleConnectivityResponse,
         HandleMembershipResponse

(* They stay of their type, and a pass within what is juggled.                *)
LEMMA NextRound3OK ==
    ASSUME Round3OK, [Next]_vars
    PROVE  Round3OK'
  <1>1. ASSUME NEW n \in SL, Round3Stays, StartPass(n) PROVE Round3OK'
    BY <1>1 DEF Round3OK, Round3Stays, StartPass
  <1>2. CASE Round3Stays /\ passRound3' = passRound3
    BY <1>2 DEF Round3OK, Round3Stays
  <1>3. ASSUME NEW n \in SL, Receive(n) \/ ReceiveOther(n) PROVE Round3OK'
    BY <1>1, <1>3 DEF Receive, ReceiveOther, Round3Stays
  <1>4. ASSUME NEW from, NEW work, LeaderReceive(from, work) PROVE Round3OK'
    BY <1>1, <1>4, LeaderInSL DEF LeaderReceive, Round3Stays
  <1>5. CASE \/ ReceiveEmpty \/ (\E s \in SL : ReceiveRequest(s))
             \/ \E c \in Cycle, b \in Remote : ReceiveFetchResponse(c, b)
    BY <1>4, <1>5 DEF ReceiveEmpty, ReceiveRequest, ReceiveFetchResponse
  <1>6. ASSUME NEW n \in SL, ReceiveRound3(n) PROVE Round3OK'
    <2>1. PICK m \in Round3Message : dispatcher_round3(n, m) /\ arrived' = arrived \cup {m}
      BY <1>6 DEF ReceiveRound3
    <2>2. PICK j \in {juggledRound3[n] \cup {m}, juggledRound3[n] \ {m}} :
              juggledRound3' = [juggledRound3 EXCEPT ![n] = j]
      BY <2>1, Round3Dispatched
    <2>3. juggledRound3' \in [SL -> SUBSET arrived']
      BY <2>1, <2>2 DEF Round3OK
    <2>4. passRound3' = [passRound3 EXCEPT ![n] = juggledRound3'[n]]
      BY <1>6 DEF ReceiveRound3, StartPass
    <2>5. \A d \in SL \ {n} : juggledRound3'[d] = juggledRound3[d]
      BY <2>2 DEF Round3OK
    <2> QED
      BY <2>1, <2>3, <2>4, <2>5 DEF Round3OK
  <1>7. ASSUME NEW n \in SL, RetryRound3(n) PROVE Round3OK'
    <2>1. PICK m \in passRound3[n] : /\ dispatcher_round3(n, m)
                                     /\ passRound3' = [passRound3 EXCEPT ![n] = @ \ {m}]
      BY <1>7 DEF RetryRound3
    <2>2. PICK j \in {juggledRound3[n] \cup {m}, juggledRound3[n] \ {m}} :
              juggledRound3' = [juggledRound3 EXCEPT ![n] = j]
      BY <2>1, Round3Dispatched
    <2>3. arrived' = arrived
      BY <1>7 DEF RetryRound3
    <2> QED
      BY <2>1, <2>2, <2>3 DEF Round3OK
  <1>8. CASE \/ (\E n \in SL : Retry(n)) \/ mockClientOnLeader \/ (\E s \in SL : mockClient(s))
             \/ ListenPipe \/ UNCHANGED vars
    BY <1>2, <1>8 DEF Retry, mockClientOnLeader, mockClient, ListenPipe, rest, round3, vars, Round3Stays
  <1> QED
    BY <1>3, <1>5, <1>6, <1>7, <1>8 DEF Next

(* The invariant is kept below the wrap.                                      *)
LEMMA NextNodeInv == NodeInv /\ [Next]_vars /\ BelowWrap' => NodeInv'
  <1> SUFFICES ASSUME NodeInv, [Next]_vars, BelowWrap' PROVE NodeInv'
    OBVIOUS
  <1>1. Simulated
    BY NextSimulates
  <1>2. R2!IInv'
    BY <1>1, R2Assumptions, R2!NextIInv, R2!NAssumption, R2!MaxSeqAssumption DEF Simulated, NodeInv
  <1>3. PassOK' /\ Round3OK'
    BY <1>1, NextPassOK, NextRound3OK DEF Simulated, NodeInv
  <1> QED
    BY <1>1, <1>2, <1>3 DEF Simulated, NodeInv

(* The queues implement the message set of Round2, as long as no sequence     *)
(* number wraps: whatever the order in which the connections are served, and  *)
(* whatever the juggle queue does to that of the messages in it.              *)
THEOREM QueuesImplementRound2 == FirstSeq = 1 => (Spec /\ []BelowWrap => MessageSet!Spec)
  <1>1. ASSUME FirstSeq = 1 PROVE Spec /\ []BelowWrap => MessageSet!Spec
    <2>1. Init => NodeInv /\ R2!Init
      BY <1>1, InitSimulates
    <2>2. NodeInv /\ [Next]_vars /\ BelowWrap' => NodeInv'
      BY NextNodeInv
    <2>3. NodeInv /\ [Next]_vars /\ BelowWrap' => [R2!Next]_(R2!vars)
      BY NextSimulates DEF Simulated
    <2>4. R2!Init => MessageSet!Init
      BY DEF R2!Init, MessageSet!Init, R2!SL, MessageSet!SL
    <2>5. [R2!Next]_(R2!vars) => [MessageSet!Next]_(MessageSet!vars)
      BY DEF R2!Next, MessageSet!Next, R2!vars, MessageSet!vars, R2!status,
             MessageSet!status, R2!Propose, MessageSet!Propose, R2!HandlePreprepare,
             MessageSet!HandlePreprepare, R2!HandlePartialCommit,
             MessageSet!HandlePartialCommit, R2!HandleLastPartialCommit,
             MessageSet!HandleLastPartialCommit, R2!HandleFullCommit,
             MessageSet!HandleFullCommit, R2!HandleFullCommitAndSpawn,
             MessageSet!HandleFullCommitAndSpawn, R2!SendPreprepare,
             MessageSet!SendPreprepare, R2!Preprepares, MessageSet!Preprepares,
             R2!PartialCommit, MessageSet!PartialCommit, R2!FullCommit,
             MessageSet!FullCommit, R2!FullCommits, MessageSet!FullCommits, R2!NextCollector,
             MessageSet!NextCollector, R2!canStartRound2, MessageSet!canStartRound2,
             R2!Accepts, MessageSet!Accepts, R2!Counts, MessageSet!Counts, R2!Commit,
             MessageSet!Commit, R2!message_required, MessageSet!message_required, R2!Idle,
             MessageSet!Idle, R2!Leader, MessageSet!Leader, R2!SL, MessageSet!SL
    <2> QED
      BY <2>1, <2>2, <2>3, <2>4, <2>5, PTL DEF Spec, MessageSet!Spec
  <1> QED
    BY <1>1

-----------------------------------------------------------------------------
(* The order of the messages, and what it does to the juggle queue.           *)
Collecting == "COLLECTOR_WAITING_FOR_PARTIALCOMMITS"
Collector(i) == log[i].collector_SLid

(* The collector has sent the FullCommits of instance v.                      *)
Done(v) ==
    \/ v < Last
    \/ v = Last /\ Votes(Collector(Last)) = Last /\ state[Collector(Last)] # Collecting

(* An entry is applied by nobody before all have voted for it.                *)
LEMMA DoneFacts ==
    ASSUME NodeInv, Last > 0
    PROVE  /\ Collector(Last) \in SL
           /\ Done(Last) => \A n \in SL : Votes(n) = Last
           /\ \A n \in SL : Applied(n) = Last => Done(Last)
  <1>1. R2!TypeOK /\ R2!Counting
    BY DEF NodeInv, R2!IInv
  <1>2. \A n : Votes(n) = R2!Voted(n)
    BY DEF Votes, Applied, R2!Voted, Idle, R2!Idle
  <1>3. Last = R2!K /\ R2!Col = Collector(Last) /\ \A n : Applied(n) = R2!D(n)
    BY DEF Last, R2!K, R2!Col, Collector, Applied, R2!D
  <1>4. R2!Col \in R2!SL
    <2>1. Last \in Nat
      BY NodeFacts DEF NodeTypes
    <2> QED
      BY <1>1, <1>3, <2>1, R2Assumptions, R2!ColInSL, R2!NAssumption, R2!MaxSeqAssumption
  <1>5. R2!SL = SL
    BY DEF R2!SL, SL
  <1>6. Done(Last) <=> R2!Closed
    <2>1. Last \in Nat
      BY NodeFacts DEF NodeTypes
    <2>2. Done(Last) <=> Votes(Collector(Last)) = Last /\ state[Collector(Last)] # Collecting
      BY <2>1 DEF Done
    <2> QED
      BY <1>2, <1>3, <2>2 DEF R2!Closed, Collecting, R2!Collecting
  <1> QED
    BY <1>1, <1>2, <1>3, <1>4, <1>5, <1>6 DEF R2!Counting

(* A PartialCommit on a path is of the SL at its start.                       *)
Senders == \A s, d \in SL : \A i \in 1..Len(chan[s][d]) :
    chan[s][d][i].type = "PARTIAL_COMMIT" => chan[s][d][i].sender = s

(* The collectors take turns.                                                 *)
NextOf(c) == IF c + 1 = N THEN 0 ELSE c + 1

Rotates ==
    /\ Last > 0 => leader_collector_rr = NextOf(Collector(Last))
    /\ Last > 1 => Collector(Last) = NextOf(Collector(Last - 1))

(* An SL with an open instance that is done has its FullCommit coming.        *)
Contains(x, s) == \E i \in 1..Len(s) : s[i] = x

FullCommitComing == \A n \in SL :
    state[n] \notin Idle /\ Done(Votes(n)) =>
        Contains(FullCommit(Votes(n), n), chan[Collector(Votes(n))][n])

(* The last collector's FullCommit is ahead of its PartialCommit.             *)
FullCommitFirst == \A s, d \in SL : \A j \in 1..Len(chan[s][d]) :
    /\ chan[s][d][j].type = "PARTIAL_COMMIT"
    /\ Last > 1
    /\ s = Collector(Last - 1)
    /\ Applied(d) < Last - 1
    => \E i \in 1..(j - 1) : chan[s][d][i] = FullCommit(Last - 1, d)

(* What is in the juggle queue of SL n.                                       *)
NoPreprepare(q) == \A j \in 1..Len(q) : q[j].type # "PREPREPARE"

JuggledPreprepare(n, i) == n # Leader /\ Last > 1 /\ (state[n] \in Idle => i <= pass[n])

JuggledPartialCommit(n, i, m) ==
    /\ m.sender # n
    /\ Votes(n) = Last => i <= pass[n] \/ chan[n][n] # <<>>
    /\ Last > 1 /\ m.sender = Collector(Last - 1) =>
          Applied(n) >= Last - 1 /\ NoPreprepare(juggleQueue[n])

JuggleOK(n) == \A i \in 1..Len(juggleQueue[n]) :
    LET m == juggleQueue[n][i]
    IN  /\ m.type # "FULL_COMMIT"
        /\ m.type = "PREPREPARE" => JuggledPreprepare(n, i)
        /\ m.type = "PARTIAL_COMMIT" => JuggledPartialCommit(n, i, m)

OrderInv == /\ Senders /\ Rotates /\ FullCommitComing /\ FullCommitFirst
            /\ \A n \in SL : JuggleOK(n)

-----------------------------------------------------------------------------
(* What the steps do, as far as the order of the messages is concerned.       *)
SameVotes ==
    /\ log' = log /\ delivered' = delivered /\ leader_collector_rr' = leader_collector_rr
    /\ \A d \in SL : (state'[d] \in Idle <=> state[d] \in Idle)
                     /\ (state'[d] = Collecting <=> state[d] = Collecting)

(* SL n has taken m and juggles it.                                           *)
Juggles(n, m, c, q) ==
    /\ chan' = c /\ juggleQueue'[n] = Append(q, m)
    /\ SameVotes
    /\ m.type # "FULL_COMMIT"
    /\ m.type = "PREPREPARE" => n # Leader /\ state[n] \notin Idle
    /\ m.type = "PARTIAL_COMMIT" => Votes(n) < Last

(* It votes.                                                                  *)
Voting(n, m, c, q) ==
    /\ chan' = Send(c, n, PartialCommit(Last, n, Collector(Last))) /\ juggleQueue'[n] = q
    /\ log' = log /\ delivered' = delivered /\ leader_collector_rr' = leader_collector_rr
    /\ m.type = "PREPREPARE" /\ state[n] \in Idle
    /\ state'[n] \notin Idle /\ (Collector(Last) = n => state'[n] = Collecting)
    /\ \A d \in SL \ {n} : state'[d] = state[d]

(* It counts a PartialCommit, or the last.                                    *)
Counting(n, m, c, q) ==
    /\ chan' = c /\ juggleQueue'[n] = q
    /\ SameVotes
    /\ m.type = "PARTIAL_COMMIT"
    /\ state[n] \notin Idle /\ Votes(n) = Last

CountingLast(n, m, c, q) ==
    /\ chan' = Broadcast(c, n, [d \in SL |-> FullCommit(Last, d)]) /\ juggleQueue'[n] = q
    /\ log' = log /\ delivered' = delivered /\ leader_collector_rr' = leader_collector_rr
    /\ m.type = "PARTIAL_COMMIT"
    /\ n = Collector(Last) /\ state[n] \notin Idle /\ Votes(n) = Last
    /\ state'[n] = "WAITING_FOR_FULLCOMMIT"
    /\ \A d \in SL \ {n} : state'[d] = state[d]

(* The leader sends a Preprepare, with what else is in its channels.          *)
Proposes(c) ==
    /\ Done(Last) \/ Last = 0
    /\ \E x \in [SL -> Message] :
          chan' = Broadcast(c, Leader, x) /\ \A d \in SL : x[d].type = "PREPREPARE"
    /\ \E p \in R2!Preprepare : log' = Append(log, p) /\ p.collector_SLid = leader_collector_rr
    /\ leader_collector_rr' = NextOf(leader_collector_rr)

(* It applies the entry, and the leader may send the next.                    *)
Applying(n, m, c, q) ==
    /\ juggleQueue'[n] = q
    /\ m = FullCommit(Votes(n), n) /\ state[n] \notin Idle /\ state[n] # Collecting
    /\ state'[n] \in Idle /\ \A d \in SL \ {n} : state'[d] = state[d]
    /\ \E p \in R2!Preprepare : delivered' = [delivered EXCEPT ![n] = Append(@, p)]
    /\ \/ chan' = c /\ log' = log /\ leader_collector_rr' = leader_collector_rr
       \/ n = Leader /\ Proposes(c)

Handles(n, m, c, q) ==
    \/ Juggles(n, m, c, q)
    \/ Voting(n, m, c, q)
    \/ Counting(n, m, c, q)
    \/ CountingLast(n, m, c, q)
    \/ Applying(n, m, c, q)

(* What the scheduler sends is a proposal.                                    *)
LEMMA SpawnProposes ==
    ASSUME NodeInv, NEW st, NEW pend, NEW c, leader_round2_sendPreprepare(st, pend, c),
           Done(Last) \/ Last = 0, NodeInv', BelowWrap'
    PROVE  Proposes(c)
  <1>1. /\ round2_next_seq[Leader] \in R2!Seq16 /\ round2_next_seq[Leader] = Last + 1
        /\ leader_collector_rr \in SL /\ log \in Seq(R2!Preprepare) /\ Last \in Nat
        /\ log' \in Seq(R2!Preprepare)
    <2>1. NodeTypes /\ Positions /\ NodeTypes'
      BY NodeFacts, PTL
    <2> QED
      BY <2>1, LeaderInSL DEF NodeTypes, Positions
  <1>2. PICK r, p :
            /\ p.collector_SLid = leader_collector_rr
            /\ leader_collector_rr' = NextOf(leader_collector_rr)
            /\ chan' = Broadcast(c, Leader,
                   [d \in SL |-> PreprepareMessage(round2_next_seq[Leader], p, d)])
            /\ log' = Append(log, p)
    BY DEF leader_round2_sendPreprepare, NextOf
  <1> DEFINE x == [d \in SL |-> PreprepareMessage(round2_next_seq[Leader], p, d)]
  <1>3. p \in R2!Preprepare
    <2>1. Len(Append(log, p)) = Len(log) + 1 /\ Append(log, p)[Len(log) + 1] = p
      BY <1>1
    <2>2. Len(log) + 1 \in 1..Len(log')
      BY <1>1, <1>2, <2>1 DEF Last
    <2> QED
      BY <1>1, <1>2, <2>1, <2>2
  <1>4. x \in [SL -> Message] /\ \A d \in SL : x[d].type = "PREPREPARE"
    BY <1>1, <1>3, Preprepares
  <1> QED
    BY <1>2, <1>3, <1>4 DEF Proposes

(* Of the dispatcher's steps.                                                 *)
LEMMA SameVotesKept ==
    ASSUME UNCHANGED <<log, delivered, leader, state>>
    PROVE  SameVotes
  BY DEF SameVotes, leader

(* Juggling.                                                                  *)
LEMMA JugglesShape ==
    ASSUME NEW n \in SL, NEW m, NEW c, NEW q, Taking(n, m, c, q),
           JugglePreprepare(n, m, c, q) \/ JuggleCommit(n, m, c, q)
    PROVE  Juggles(n, m, c, q)
  <1>1. /\ NodeInv /\ m \in Net /\ m.to = n /\ NodeTypes /\ Positions /\ m.seq \in Nat
        /\ juggleQueue \in [SL -> Seq(Message)]
    BY MessageTypes, SeqNat, NodeFacts DEF Taking, NodeInv, QueuesOK
  <1>2. chan' = c /\ juggleQueue'[n] = Append(q, m)
    <2>1. Juggle(n, m, c, q)
      BY DEF JugglePreprepare, JuggleCommit
    <2> QED
      BY <1>1, <2>1 DEF Juggle, Consume
  <1>3. CASE JugglePreprepare(n, m, c, q)
    <2>1. m.type = "PREPREPARE" /\ m.seq = Last /\ Votes(n) + 1 = Last
      BY <1>1, <1>3, InFlightFacts DEF JugglePreprepare
    <2>2. state[n] \notin Idle
      <3>1. CASE n = Leader
        BY <1>1, <1>3, <2>1, <3>1 DEF JugglePreprepare, NodeTypes, Positions
      <3>2. CASE n # Leader
        BY <1>1, <1>3, <2>1, <3>2 DEF JugglePreprepare, NodeTypes, Positions
      <3> QED
        BY <3>1, <3>2
    <2>3. n # Leader
      <3>1. Votes(n) = Applied(n) + 1 /\ Applied(n) \in Nat
        BY <1>1, <2>2 DEF Votes, NodeTypes
      <3>2. state[n] # "NONE"
        BY <2>2 DEF Idle
      <3> QED
        BY <1>1, <2>1, <3>1, <3>2 DEF Positions, NodeTypes
    <2>4. state' = state
      BY <1>1, <1>3, <2>2 DEF JugglePreprepare, NodeTypes, Idle
    <2>5. SameVotes
      BY <1>3, <2>4, SameVotesKept DEF JugglePreprepare
    <2> QED
      BY <1>2, <2>1, <2>2, <2>3, <2>5 DEF Juggles
  <1>4. CASE JuggleCommit(n, m, c, q)
    <2>1. SameVotes
      BY <1>4, SameVotesKept DEF JuggleCommit
    <2>2. m.type # "FULL_COMMIT"
      <3>1. ASSUME m.type = "FULL_COMMIT" PROVE FALSE
        <4>1. state[n] = "WAITING_FOR_FULLCOMMIT"
          BY <1>1, <3>1, InFlightFacts
        <4> QED
          BY <1>4, <3>1, <4>1 DEF JuggleCommit, Idle
      <3> QED
        BY <3>1
    <2>3. m.type = "PARTIAL_COMMIT"
      BY <1>4, <2>2 DEF JuggleCommit
    <2>4. Votes(n) < Last
      <3>1. m.seq = Last /\ (Votes(n) = Last => state[n] = Collecting)
        BY <1>1, <2>3, InFlightFacts DEF Collecting
      <3>2. Votes(n) <= Last /\ Votes(n) \in Nat /\ Last \in Nat
        BY <1>1 DEF Positions, NodeTypes
      <3>3. ASSUME Votes(n) = Last PROVE FALSE
        <4>1. state[n] \notin Idle
          BY <3>1, <3>3 DEF Collecting, Idle
        <4>2. round2_sequence[n] = Last
          BY <1>1, <3>3, <4>1 DEF Positions
        <4> QED
          BY <1>4, <2>3, <3>1, <3>2, <4>1, <4>2 DEF JuggleCommit
      <3> QED
        BY <3>2, <3>3
    <2> QED
      BY <1>2, <2>1, <2>2, <2>3, <2>4 DEF Juggles
  <1> QED
    BY <1>3, <1>4

(* A vote.                                                                    *)
LEMMA VotingShape ==
    ASSUME NEW n \in SL, NEW m, NEW c, NEW q, Taking(n, m, c, q), HandlePreprepare(n, m, c, q)
    PROVE  Voting(n, m, c, q)
  <1>1. /\ NodeInv /\ m \in Net /\ m.to = n /\ NodeTypes /\ m.type = "PREPREPARE"
        /\ juggleQueue \in [SL -> Seq(Message)]
    BY NodeFacts DEF Taking, NodeInv, QueuesOK, HandlePreprepare
  <1>2. m.seq = Last /\ m.body.collector_SLid = Collector(Last)
    BY <1>1, InFlightFacts DEF Collector
  <1>3. chan' = Send(c, n, PartialCommit(Last, n, Collector(Last))) /\ juggleQueue'[n] = q
    BY <1>1, <1>2 DEF HandlePreprepare, Consume
  <1>4. /\ state' = [state EXCEPT ![n] = IF Collector(Last) = n THEN Collecting
                                         ELSE "WAITING_FOR_FULLCOMMIT"]
        /\ state[n] \in Idle
        /\ UNCHANGED <<log, delivered, leader>>
    BY <1>2 DEF HandlePreprepare, Collecting
  <1>5. /\ state'[n] \notin Idle /\ (Collector(Last) = n => state'[n] = Collecting)
        /\ \A d \in SL \ {n} : state'[d] = state[d]
    BY <1>1, <1>4 DEF NodeTypes, Idle, Collecting
  <1> QED
    BY <1>1, <1>3, <1>4, <1>5 DEF Voting, leader

(* Counting.                                                                  *)
LEMMA CountingShape ==
    ASSUME NEW n \in SL, NEW m, NEW c, NEW q, Taking(n, m, c, q), HandlePartialCommit(n, m, c, q)
    PROVE  Counting(n, m, c, q) \/ CountingLast(n, m, c, q)
  <1>1. /\ NodeInv /\ m \in Net /\ m.to = n /\ NodeTypes /\ Positions /\ m.type = "PARTIAL_COMMIT"
        /\ juggleQueue \in [SL -> Seq(Message)]
    BY NodeFacts DEF Taking, NodeInv, QueuesOK, HandlePartialCommit
  <1>2. m.seq = Last /\ n = Collector(Last)
    BY <1>1, InFlightFacts DEF Collector
  <1>3. state[n] = Collecting /\ state[n] \notin Idle /\ Votes(n) = Last
    <2>1. state[n] = Collecting /\ state[n] \notin Idle /\ m.seq = round2_sequence[n]
      BY DEF HandlePartialCommit, Collecting, Idle
    <2> QED
      BY <1>1, <1>2, <2>1 DEF Positions
  <1> DEFINE last == message_received_counter[n] + 1 = N
  <1>4. /\ Consume(n, IF last THEN Broadcast(c, n, [d \in SL |-> FullCommit(Last, d)]) ELSE c, q)
        /\ state' = [state EXCEPT ![n] = IF last THEN "WAITING_FOR_FULLCOMMIT" ELSE @]
        /\ UNCHANGED <<log, delivered, leader>>
    BY <1>2 DEF HandlePartialCommit
  <1>5. juggleQueue'[n] = q
    BY <1>1, <1>4 DEF Consume
  <1>6. CASE ~last
    <2>1. state' = state /\ chan' = c
      BY <1>1, <1>4, <1>6 DEF NodeTypes, Consume
    <2>2. SameVotes
      BY <1>4, <2>1, SameVotesKept
    <2> QED
      BY <1>1, <1>3, <1>5, <2>1, <2>2 DEF Counting
  <1>7. CASE last
    <2>1. chan' = Broadcast(c, n, [d \in SL |-> FullCommit(Last, d)])
      BY <1>4, <1>7 DEF Consume
    <2>2. state'[n] = "WAITING_FOR_FULLCOMMIT" /\ \A d \in SL \ {n} : state'[d] = state[d]
      BY <1>1, <1>4, <1>7 DEF NodeTypes
    <2> QED
      BY <1>1, <1>2, <1>3, <1>4, <1>5, <2>1, <2>2 DEF CountingLast, leader
  <1> QED
    BY <1>6, <1>7

(* Applying.                                                                  *)
LEMMA ApplyingShape ==
    ASSUME NEW n \in SL, NEW m, NEW c, NEW q, Taking(n, m, c, q), HandleFullCommit(n, m, c, q), NodeInv'
    PROVE  Applying(n, m, c, q)
  <1> DEFINE idle == [state EXCEPT ![n] = "NONE"]
  <1>1. /\ NodeInv /\ m \in Net /\ m.to = n /\ NodeTypes /\ Positions /\ m.type = "FULL_COMMIT"
        /\ juggleQueue \in [SL -> Seq(Message)] /\ BelowWrap'
        /\ m = FullCommit(m.seq, n)
    BY NodeFacts, MessageTypes DEF Taking, NodeInv, QueuesOK, HandleFullCommit
  <1>2. /\ m.seq = Votes(n) /\ state[n] = "WAITING_FOR_FULLCOMMIT" /\ Last > 0
        /\ m.seq = Last => Done(Last)
    BY <1>1, InFlightFacts DEF Done, Collector, Collecting
  <1>3. m = FullCommit(Votes(n), n) /\ state[n] \notin Idle /\ state[n] # Collecting
    BY <1>1, <1>2 DEF Idle, Collecting
  <1>4. juggleQueue'[n] = q
    BY <1>1 DEF HandleFullCommit
  <1>5. PICK p \in stored[n] :
          LET work == ConnectivityWork(n, p.request)
          IN  /\ delivered' = [delivered EXCEPT ![n] = Append(@, p)]
              /\ IF n = Leader
                 THEN SpawnRound2(idle, rgLeader_batch_received_from, pending \cup work, c)
                 ELSE /\ state' = idle
                      /\ chan' = c
                      /\ UNCHANGED <<pending, message_received_counter, round2_next_seq, leader, log>>
    BY DEF HandleFullCommit
  <1>6. p \in R2!Preprepare
    BY <1>1 DEF NodeTypes
  <1>7. idle[n] = "NONE" /\ \A d \in SL \ {n} : idle[d] = state[d]
    BY <1>1 DEF NodeTypes
  <1> DEFINE pend == pending \cup ConnectivityWork(n, p.request)
  <1>8. CASE n = Leader /\ canStartRound2(idle, rgLeader_batch_received_from, pend)
    <2>1. leader_round2_sendPreprepare(idle, pend, c)
      BY <1>5, <1>8 DEF SpawnRound2
    <2>2. Votes(n) = Last
      <3>1. Votes(n) = Applied(n) + 1
        BY <1>3 DEF Votes
      <3> QED
        BY <1>1, <1>2, <1>8, <3>1 DEF Positions
    <2> HIDE DEF pend
    <2>3. Proposes(c)
      BY <1>1, <1>2, <2>1, <2>2, SpawnProposes
    <2>4. state'[n] \in Idle /\ \A d \in SL \ {n} : state'[d] = state[d]
      <3>1. state' = [idle EXCEPT ![Leader] = "WAITING_FOR_PREPREPARE"]
        BY <2>1 DEF leader_round2_sendPreprepare
      <3> QED
        BY <1>1, <1>7, <1>8, <3>1 DEF NodeTypes, Idle
    <2> QED
      BY <1>3, <1>4, <1>5, <1>6, <1>8, <2>3, <2>4 DEF Applying
  <1>9. CASE ~(n = Leader /\ canStartRound2(idle, rgLeader_batch_received_from, pend))
    <2>1. state' = idle /\ chan' = c /\ UNCHANGED <<leader, log>>
      <3>1. CASE n = Leader
        BY <1>5, <1>9, <3>1 DEF SpawnRound2
      <3>2. CASE n # Leader
        BY <1>5, <3>2
      <3> QED
        BY <3>1, <3>2
    <2> QED
      BY <1>3, <1>4, <1>5, <1>6, <1>7, <2>1 DEF Applying, Idle, leader
  <1> QED
    BY <1>8, <1>9

(* Every call of the dispatcher has one of the five shapes.                   *)
LEMMA HandlesShape ==
    ASSUME NEW n \in SL, NEW m, NEW c, NEW q, Taking(n, m, c, q), dispatcher_round2(n, m, c, q), NodeInv'
    PROVE  Handles(n, m, c, q)
  BY JugglesShape, VotingShape, CountingShape, ApplyingShape DEF dispatcher_round2, Handles

(* Every other step: the leader may send a Preprepare, a pass may begin.      *)
Passes == \A n \in SL : pass'[n] = pass[n] \/ pass'[n] = Len(juggleQueue[n])

Others ==
    /\ juggleQueue' = juggleQueue
    /\ Passes
    /\ \/ chan' = chan /\ SameVotes
       \/ /\ Proposes(chan) /\ delivered' = delivered
          /\ \A d \in SL : (state'[d] \in Idle <=> state[d] \in Idle)
                           /\ (state'[d] = Collecting <=> state[d] = Collecting)

(* What the leader does with any other message.                               *)
LEMMA LeaderNotesShape ==
    ASSUME NodeInv, BelowWrap', NodeInv', NEW from, NEW work, LeaderNotes(from, work), Passes
    PROVE  Others
  <1>1. /\ NodeTypes /\ Positions /\ pass \in [SL -> Nat]
    BY NodeFacts DEF NodeInv, PassOK
  <1>2. /\ SpawnRound2(state, from, pending \cup work, chan)
        /\ juggleQueue' = juggleQueue /\ delivered' = delivered
    BY DEF LeaderNotes
  <1>3. Passes
    OBVIOUS
  <1>4. CASE canStartRound2(state, from, pending \cup work)
    <2>1. leader_round2_sendPreprepare(state, pending \cup work, chan) /\ state[Leader] = "NONE"
      BY <1>2, <1>4 DEF SpawnRound2, canStartRound2
    <2>2. Done(Last) \/ Last = 0
      <3>1. Applied(Leader) = Last /\ Last \in Nat
        BY <1>1, <2>1 DEF Positions, NodeTypes
      <3>2. CASE Last > 0
        BY <3>1, <3>2, DoneFacts, LeaderInSL
      <3> QED
        BY <3>1, <3>2
    <2>3. Proposes(chan)
      BY <2>1, <2>2, SpawnProposes
    <2>4. \A d \in SL : (state'[d] \in Idle <=> state[d] \in Idle)
                        /\ (state'[d] = Collecting <=> state[d] = Collecting)
      <3>1. state' = [state EXCEPT ![Leader] = "WAITING_FOR_PREPREPARE"]
        BY <2>1 DEF leader_round2_sendPreprepare
      <3> QED
        BY <1>1, <2>1, <3>1 DEF NodeTypes, Idle, Collecting
    <2> QED
      BY <1>2, <1>3, <2>3, <2>4 DEF Others
  <1>5. CASE ~canStartRound2(state, from, pending \cup work)
    <2>1. state' = state /\ chan' = chan /\ UNCHANGED <<leader, log>>
      BY <1>2, <1>5 DEF SpawnRound2
    <2>2. SameVotes
      BY <1>2, <2>1, SameVotesKept
    <2> QED
      BY <1>2, <1>3, <2>1, <2>2 DEF Others
  <1> QED
    BY <1>4, <1>5

(* A step is a message received, a message tried again, or another one.       *)
Received(n) == \E s \in SL :
    /\ chan[s][n] # <<>> /\ pass[n] = 0
    /\ Handles(n, Head(chan[s][n]), [chan EXCEPT ![s][n] = Tail(@)], juggleQueue[n])
    /\ Taking(n, Head(chan[s][n]), [chan EXCEPT ![s][n] = Tail(@)], juggleQueue[n])
    /\ pass'[n] = Len(juggleQueue'[n])

Retried(n) ==
    /\ pass[n] > 0 /\ juggleQueue[n] # <<>>
    /\ Handles(n, Head(juggleQueue[n]), chan, Tail(juggleQueue[n]))
    /\ Taking(n, Head(juggleQueue[n]), chan, Tail(juggleQueue[n]))
    /\ pass'[n] = pass[n] - 1

Dispatched(n) ==
    /\ Received(n) \/ Retried(n)
    /\ \A d \in SL \ {n} : juggleQueue'[d] = juggleQueue[d] /\ pass'[d] = pass[d]

(* These are all the steps.                                                   *)
LEMMA NextShape ==
    ASSUME NodeInv, [Next]_vars, BelowWrap', NodeInv'
    PROVE  Others \/ \E n \in SL : Dispatched(n)
  <1> USE DEF NodeInv
  <1>0. pass \in [SL -> Nat] /\ juggleQueue \in [SL -> Seq(Message)]
    BY DEF PassOK, QueuesOK
  <1>1. ASSUME NEW n \in SL, Receive(n) PROVE Dispatched(n)
    <2>1. PICK s \in SL :
            /\ chan[s][n] # <<>>
            /\ dispatcher_round2(n, Head(chan[s][n]), [chan EXCEPT ![s][n] = Tail(@)], juggleQueue[n])
      BY <1>1 DEF Receive
    <2> DEFINE m == Head(chan[s][n])
               c == [chan EXCEPT ![s][n] = Tail(@)]
               q == juggleQueue[n]
    <2>2. submitted' = submitted /\ pass[n] = 0 /\ pass' = [pass EXCEPT ![n] = Len(juggleQueue'[n])]
      BY <1>1 DEF Receive, Blocked, StartPass, client
    <2>3. Taking(n, m, c, q)
      BY <2>1, <2>2, ReceiveTakes DEF Taking
    <2>4. dispatcher_round2(n, m, c, q)
      BY <2>1
    <2> HIDE DEF m, c, q
    <2>5. Handles(n, m, c, q)
      BY <2>3, <2>4, HandlesShape
    <2>6. PICK r : juggleQueue' = [juggleQueue EXCEPT ![n] = r]
      BY <2>4, DispatchJuggles
    <2>7. \A d \in SL \ {n} : juggleQueue'[d] = juggleQueue[d] /\ pass'[d] = pass[d]
      BY <1>0, <2>2, <2>6
    <2>8. pass'[n] = Len(juggleQueue'[n])
      BY <1>0, <2>2
    <2>9. Received(n)
      BY <2>1, <2>2, <2>3, <2>5, <2>8 DEF Received, m, c, q
    <2> QED
      BY <2>7, <2>9 DEF Dispatched
  <1>2. ASSUME NEW n \in SL, Retry(n) PROVE Dispatched(n)
    <2> DEFINE m == Head(juggleQueue[n])
               q == Tail(juggleQueue[n])
    <2>1. /\ dispatcher_round2(n, m, chan, q)
          /\ submitted' = submitted /\ pass[n] > 0
          /\ pass' = [pass EXCEPT ![n] = @ - 1]
      BY <1>2 DEF Retry, client
    <2>2. juggleQueue[n] # <<>>
      BY <2>1 DEF QueuesOK, PassOK
    <2>3. Taking(n, m, chan, q)
      BY <2>1, <2>2, RetryTakes DEF Taking
    <2> HIDE DEF m, q
    <2>4. Handles(n, m, chan, q)
      BY <2>1, <2>3, HandlesShape
    <2>5. PICK r : juggleQueue' = [juggleQueue EXCEPT ![n] = r]
      BY <2>1, DispatchJuggles
    <2>6. \A d \in SL \ {n} : juggleQueue'[d] = juggleQueue[d] /\ pass'[d] = pass[d]
      BY <1>0, <2>1, <2>5
    <2>7. pass'[n] = pass[n] - 1
      BY <1>0, <2>1
    <2>8. Retried(n)
      BY <2>1, <2>2, <2>3, <2>4, <2>7 DEF Retried, m, q
    <2> QED
      BY <2>6, <2>8 DEF Dispatched
  <1>3. ASSUME NEW from, NEW work, LeaderReceive(from, work) PROVE Others
    <2>1. pass' = [pass EXCEPT ![Leader] = Len(juggleQueue'[Leader])] /\ juggleQueue' = juggleQueue
      BY <1>3 DEF LeaderReceive, LeaderNotes, StartPass
    <2>2. Passes
      BY <1>0, <2>1 DEF Passes
    <2> QED
      BY <1>3, <2>2, LeaderNotesShape DEF LeaderReceive
  <1>4. CASE \/ ReceiveEmpty \/ (\E s \in SL : ReceiveRequest(s))
             \/ \E c \in Cycle, b \in Remote : ReceiveFetchResponse(c, b)
    BY <1>3, <1>4 DEF ReceiveEmpty, ReceiveRequest, ReceiveFetchResponse
  <1>5. ASSUME Quiet, Passes PROVE Others
    <2>1. UNCHANGED <<chan, juggleQueue, log, delivered, leader, state>>
      BY <1>5 DEF Quiet, round2, queues
    <2> QED
      BY <1>5, <2>1, SameVotesKept DEF Others
  <1>6. ASSUME NEW n \in SL, ReceiveRound3(n) \/ RetryRound3(n) \/ ReceiveOther(n) PROVE Others
    <2>1. Quiet \/ \E work : Notes(work)
      BY <1>6, Round3Steps DEF ReceiveOther, Quiet
    <2>2. juggleQueue' = juggleQueue
      BY <2>1 DEF Quiet, Notes, LeaderNotes, round2, queues
    <2>3. pass' = pass \/ pass' = [pass EXCEPT ![n] = Len(juggleQueue'[n])]
      BY <1>6 DEF ReceiveRound3, RetryRound3, ReceiveOther, StartPass
    <2>4. Passes
      BY <1>0, <2>2, <2>3 DEF Passes
    <2>5. ASSUME NEW work, Notes(work) PROVE Others
      BY <2>4, <2>5, LeaderNotesShape DEF Notes
    <2>6. CASE Quiet
      BY <1>5, <2>4, <2>6
    <2>7. CASE \E work : Notes(work)
      <3>1. PICK work : Notes(work)
        BY <2>7
      <3> QED
        BY <2>5, <3>1
    <2> QED
      BY <2>1, <2>6, <2>7
  <1>7. CASE UNCHANGED <<chan, juggleQueue, pass, log, delivered, leader, state>>
    BY <1>7, SameVotesKept DEF Others, Passes
  <1>8. CASE mockClientOnLeader \/ (\E s \in SL : mockClient(s)) \/ ListenPipe \/ UNCHANGED vars
    BY <1>7, <1>8 DEF mockClientOnLeader, mockClient, ListenPipe, rest, queues, vars
  <1> QED
    BY <1>1, <1>2, <1>4, <1>6, <1>8 DEF Next

-----------------------------------------------------------------------------
(* What a step does to the channels, position by position.  s0 is the SL from *)
(* which SL n has taken a message, N if it has not; voter says whether it may *)
(* have sent a PartialCommit.                                                 *)
Shift(s, d, n, s0) == IF s = s0 /\ d = n THEN 1 ELSE 0

OldAt(a, b, t, j) == j + t \in 1..Len(a) /\ b[j] = a[j + t]

NewAt(a, b, t, j, s, n, voter) ==
    /\ s = n /\ \A i \in 1..Len(a) : i - t < j
    /\ b[j].type = "PARTIAL_COMMIT" => voter /\ b[j].sender = n

FlowOn(a, b, t, s, n, voter) ==
    /\ \A i \in 1..Len(a) : i > t => i - t \in 1..Len(b) /\ b[i - t] = a[i]
    /\ \A j \in 1..Len(b) : OldAt(a, b, t, j) \/ NewAt(a, b, t, j, s, n, voter)

Flow(n, s0, voter) == \A s, d \in SL :
    FlowOn(chan[s][d], chan'[s][d], Shift(s, d, n, s0), s, n, voter)

(* One channel: what is left of it, with or without a message appended.       *)
LEMMA FlowSame ==
    ASSUME NEW M, NEW a \in Seq(M), NEW t \in {0, 1}, t = 1 => a # <<>>, NEW b,
           b = IF t = 1 THEN Tail(a) ELSE a, NEW s, NEW n, NEW voter
    PROVE  FlowOn(a, b, t, s, n, voter)
  <1>1. Len(a) \in Nat /\ Len(b) = Len(a) - t /\ \A i \in 1..Len(b) : b[i] = a[i + t]
    <2>1. CASE t = 1
      <3>1. a # <<>> /\ b = Tail(a) /\ Len(a) \in Nat
        BY <2>1
      <3>2. Len(b) = Len(a) - 1 /\ \A i \in 1..Len(b) : b[i] = a[i + 1]
        BY <3>1
      <3> QED
        BY <2>1, <3>1, <3>2
    <2>2. CASE t = 0
      <3>1. b = a /\ Len(a) \in Nat
        BY <2>2
      <3> QED
        BY <2>2, <3>1
    <2> QED
      BY <2>1, <2>2
  <1>2. ASSUME NEW i \in 1..Len(a), i > t PROVE i - t \in 1..Len(b) /\ b[i - t] = a[i]
    <2>1. i - t \in 1..Len(b) /\ (i - t) + t = i
      BY <1>1, <1>2
    <2> QED
      BY <1>1, <2>1
  <1>3. ASSUME NEW j \in 1..Len(b) PROVE OldAt(a, b, t, j)
    BY <1>1 DEF OldAt
  <1> QED
    BY <1>2, <1>3 DEF FlowOn

(* A message is appended.                                                     *)
LEMMA FlowAppend ==
    ASSUME NEW M, NEW a \in Seq(M), NEW t \in {0, 1}, t = 1 => a # <<>>, NEW b \in Seq(M),
           NEW y \in M, b = Append(IF t = 1 THEN Tail(a) ELSE a, y), NEW n, NEW voter,
           y.type = "PARTIAL_COMMIT" => voter /\ y.sender = n
    PROVE  FlowOn(a, b, t, n, n, voter)
  <1> DEFINE r == IF t = 1 THEN Tail(a) ELSE a
  <1>1. r \in Seq(M) /\ FlowOn(a, r, t, n, n, voter) /\ Len(a) \in Nat
        /\ Len(r) = Len(a) - t
    <2>1. r \in Seq(M) /\ r = IF t = 1 THEN Tail(a) ELSE a
      BY DEF r
    <2>2. Len(r) = Len(a) - t
      <3>1. CASE t = 1
        BY <3>1
      <3>2. CASE t = 0
        BY <3>2
      <3> QED
        BY <3>1, <3>2
    <2> HIDE DEF r
    <2>3. FlowOn(a, r, t, n, n, voter)
      BY <2>1, FlowSame
    <2> QED
      BY <2>1, <2>2, <2>3
  <1> HIDE DEF r
  <1>2. b = Append(r, y)
    BY DEF r
  <1>3. Len(b) = Len(r) + 1 /\ b[Len(b)] = y /\ Len(r) \in Nat /\ \A i \in 1..Len(r) : b[i] = r[i]
    <2>1. r \in Seq(M) /\ y \in M
      BY <1>1
    <2>2. Len(r) \in Nat
      BY <2>1
    <2>3. Len(Append(r, y)) = Len(r) + 1
      BY <2>1
    <2>4. Append(r, y)[Len(r) + 1] = y
      BY <2>1
    <2>5. \A i \in 1..Len(r) : Append(r, y)[i] = r[i]
      BY <2>1
    <2> QED
      BY <1>2, <2>2, <2>3, <2>4, <2>5
  <1>4. ASSUME NEW i \in 1..Len(a), i > t PROVE i - t \in 1..Len(b) /\ b[i - t] = a[i]
    <2>1. i - t \in 1..Len(r) /\ r[i - t] = a[i]
      BY <1>1, <1>4 DEF FlowOn
    <2> QED
      BY <1>3, <2>1
  <1>5. ASSUME NEW j \in 1..Len(b)
        PROVE  OldAt(a, b, t, j) \/ NewAt(a, b, t, j, n, n, voter)
    <2>1. CASE j \in 1..Len(r)
      <3>1. OldAt(a, r, t, j)
        <4>1. j + t \in 1..Len(a) /\ (j + t) - t = j /\ j + t > t
          BY <1>1, <2>1
        <4>2. r[j] = a[j + t]
          BY <1>1, <4>1 DEF FlowOn
        <4> QED
          BY <4>1, <4>2 DEF OldAt
      <3> QED
        BY <1>3, <2>1, <3>1 DEF OldAt
    <2>2. CASE j \notin 1..Len(r)
      <3>1. j = Len(b) /\ b[j] = y
        BY <1>3, <2>2
      <3>2. \A i \in 1..Len(a) : i - t < j
        BY <1>1, <1>3, <3>1
      <3> QED
        BY <3>1, <3>2 DEF NewAt
    <2> QED
      BY <2>1, <2>2
  <1> QED
    BY <1>4, <1>5 DEF FlowOn

(* c is what the channels are when SL n has taken a message from s0, or none. *)
Left(c, n, s0) ==
    /\ chan \in [SL -> [SL -> Seq(Message)]] /\ c \in [SL -> [SL -> Seq(Message)]]
    /\ \A s, d \in SL :
          /\ Shift(s, d, n, s0) = 1 => chan[s][d] # <<>>
          /\ c[s][d] = IF Shift(s, d, n, s0) = 1 THEN Tail(chan[s][d]) ELSE chan[s][d]

(* At most one message is taken from a channel.                               *)
LEMMA ShiftIs == \A s, d, n, s0 : Shift(s, d, n, s0) \in {0, 1}
  BY DEF Shift

(* Nothing is sent.                                                           *)
LEMMA FlowNothing ==
    ASSUME NEW c, NEW n \in SL, NEW s0, NEW voter, Left(c, n, s0), chan' = c
    PROVE  Flow(n, s0, voter)
  <1> SUFFICES ASSUME NEW s \in SL, NEW d \in SL
               PROVE  FlowOn(chan[s][d], chan'[s][d], Shift(s, d, n, s0), s, n, voter)
    BY DEF Flow
  <1>1. /\ chan[s][d] \in Seq(Message)
        /\ Shift(s, d, n, s0) = 1 => chan[s][d] # <<>>
        /\ chan'[s][d] = IF Shift(s, d, n, s0) = 1 THEN Tail(chan[s][d]) ELSE chan[s][d]
        /\ Shift(s, d, n, s0) \in {0, 1}
    BY ShiftIs DEF Left
  <1> QED
    BY <1>1, FlowSame

(* One channel, where something may be sent.                                  *)
LEMMA FlowOne ==
    ASSUME NEW c, NEW n \in SL, NEW s0, NEW voter, Left(c, n, s0),
           NEW s \in SL, NEW d \in SL,
           \/ chan'[s][d] = c[s][d]
           \/ s = n /\ \E y \in Message : /\ chan'[s][d] = Append(c[s][d], y)
                                          /\ y.type = "PARTIAL_COMMIT" => voter /\ y.sender = n
    PROVE  FlowOn(chan[s][d], chan'[s][d], Shift(s, d, n, s0), s, n, voter)
  <1>1. /\ chan[s][d] \in Seq(Message)
        /\ Shift(s, d, n, s0) = 1 => chan[s][d] # <<>>
        /\ c[s][d] = IF Shift(s, d, n, s0) = 1 THEN Tail(chan[s][d]) ELSE chan[s][d]
        /\ Shift(s, d, n, s0) \in {0, 1} /\ c[s][d] \in Seq(Message)
    BY ShiftIs DEF Left
  <1>2. CASE chan'[s][d] = c[s][d]
    BY <1>1, <1>2, FlowSame
  <1>3. CASE s = n /\ \E y \in Message : /\ chan'[s][d] = Append(c[s][d], y)
                                         /\ y.type = "PARTIAL_COMMIT" => voter /\ y.sender = n
    <2>1. PICK y \in Message : /\ chan'[s][d] = Append(c[s][d], y)
                               /\ y.type = "PARTIAL_COMMIT" => voter /\ y.sender = n
      BY <1>3
    <2>2. chan'[s][d] \in Seq(Message)
      BY <1>1, <2>1
    <2> DEFINE a == chan[s][d]
               b == chan'[s][d]
               t == Shift(s, d, n, s0)
    <2>3. /\ a \in Seq(Message) /\ b \in Seq(Message) /\ t \in {0, 1} /\ (t = 1 => a # <<>>)
          /\ b = Append(IF t = 1 THEN Tail(a) ELSE a, y)
      BY <1>1, <2>1, <2>2
    <2>4. y.type = "PARTIAL_COMMIT" => voter /\ y.sender = n
      BY <2>1
    <2> HIDE DEF a, b, t
    <2>5. FlowOn(a, b, t, n, n, voter)
      BY <2>3, <2>4, FlowAppend
    <2> QED
      BY <1>3, <2>5 DEF a, b, t
  <1> QED
    BY <1>2, <1>3

(* A PartialCommit is sent.                                                   *)
LEMMA FlowSend ==
    ASSUME NEW c, NEW n \in SL, NEW s0, Left(c, n, s0),
           NEW y \in Message, y.to \in SL, y.sender = n, chan' = Send(c, n, y)
    PROVE  Flow(n, s0, TRUE) /\ chan'[n][y.to] # <<>>
  <1>1. c \in [SL -> [SL -> Seq(Message)]]
    BY DEF Left
  <1> DEFINE e == y.to
  <1>2. chan' = [c EXCEPT ![n][e] = Append(@, y)] /\ e \in SL
    BY DEF Send
  <1> HIDE DEF e
  <1>3. /\ chan'[n][e] = Append(c[n][e], y)
        /\ \A s, d \in SL : s # n \/ d # e => chan'[s][d] = c[s][d]
    BY <1>1, <1>2
  <1>4. ASSUME NEW s \in SL, NEW d \in SL
        PROVE  FlowOn(chan[s][d], chan'[s][d], Shift(s, d, n, s0), s, n, TRUE)
    <2>1. CASE s = n /\ d = e
      <3>1. \E z \in Message : /\ chan'[s][d] = Append(c[s][d], z)
                               /\ z.type = "PARTIAL_COMMIT" => TRUE /\ z.sender = n
        BY <1>3, <2>1
      <3> QED
        BY <2>1, <3>1, FlowOne
    <2>2. CASE s # n \/ d # e
      <3>1. chan'[s][d] = c[s][d]
        BY <1>3, <2>2
      <3> QED
        BY <3>1, FlowOne
    <2> QED
      BY <2>1, <2>2
  <1>5. chan'[n][e] # <<>>
    <2>1. c[n][e] \in Seq(Message)
      BY <1>1, <1>2
    <2> QED
      BY <1>3, <2>1
  <1> QED
    BY <1>4, <1>5 DEF Flow, e

(* A Preprepare or a FullCommit is sent to everybody.                         *)
NoVotes(x) == \A d \in SL : x[d].type # "PARTIAL_COMMIT"
AppendsTo(c, n, x) == \A d \in SL : chan'[n][d] = Append(c[n][d], x[d])

(* A broadcast appends to every channel of n and no vote among it.            *)
LEMMA FlowBroadcast ==
    ASSUME NEW c, NEW n \in SL, NEW s0, Left(c, n, s0), NEW x \in [SL -> Message],
           NoVotes(x), chan' = Broadcast(c, n, x)
    PROVE  Flow(n, s0, FALSE) /\ AppendsTo(c, n, x)
  <1>1. c \in [SL -> [SL -> Seq(Message)]]
    BY DEF Left
  <1>2. /\ \A d \in SL : chan'[n][d] = Append(c[n][d], x[d])
        /\ \A s \in SL \ {n}, d \in SL : chan'[s][d] = c[s][d]
    <2> DEFINE row == [d \in SL |-> Append(c[n][d], x[d])]
    <2>1. chan' = [c EXCEPT ![n] = row]
      BY <1>1 DEF Broadcast
    <2>2. \A d \in SL : row[d] = Append(c[n][d], x[d])
      OBVIOUS
    <2> HIDE DEF row
    <2> QED
      BY <1>1, <2>1, <2>2
  <1>3. ASSUME NEW s \in SL, NEW d \in SL
        PROVE  FlowOn(chan[s][d], chan'[s][d], Shift(s, d, n, s0), s, n, FALSE)
    <2>1. CASE s = n
      <3>1. x[d] \in Message /\ x[d].type # "PARTIAL_COMMIT" /\ chan'[s][d] = Append(c[s][d], x[d])
        BY <1>2, <2>1 DEF NoVotes
      <3> QED
        BY <2>1, <3>1, FlowOne
    <2>2. CASE s # n
      <3>1. chan'[s][d] = c[s][d]
        BY <1>2, <2>2
      <3> QED
        BY <3>1, FlowOne
    <2> QED
      BY <2>1, <2>2
  <1> QED
    BY <1>2, <1>3 DEF Flow, AppendsTo

-----------------------------------------------------------------------------
(* SL n has taken m from s0, or from its juggle queue.                        *)
Takes(n, m, c, q, s0) ==
    /\ Taking(n, m, c, q) /\ Handles(n, m, c, q) /\ Left(c, n, s0)
    /\ \/ /\ s0 \in SL /\ chan[s0][n] # <<>> /\ m = Head(chan[s0][n])
          /\ q = juggleQueue[n]
          /\ pass[n] = 0 /\ pass'[n] = Len(juggleQueue'[n])
       \/ /\ s0 = N /\ juggleQueue[n] # <<>> /\ m = Head(juggleQueue[n])
          /\ q = Tail(juggleQueue[n])
          /\ pass[n] > 0 /\ pass'[n] = pass[n] - 1
    /\ \A d \in SL \ {n} : juggleQueue'[d] = juggleQueue[d] /\ pass'[d] = pass[d]

(* Every dispatch takes a message.                                            *)
LEMMA DispatchedTakes ==
    ASSUME NodeInv, NEW n \in SL, Dispatched(n)
    PROVE  \E m, c, q, s0 : Takes(n, m, c, q, s0)
  <1>0. chan \in [SL -> [SL -> Seq(Message)]] /\ juggleQueue \in [SL -> Seq(Message)]
    BY DEF NodeInv, QueuesOK
  <1>1. CASE Received(n)
    <2>1. PICK s \in SL :
            /\ chan[s][n] # <<>> /\ pass[n] = 0
            /\ Handles(n, Head(chan[s][n]), [chan EXCEPT ![s][n] = Tail(@)], juggleQueue[n])
            /\ Taking(n, Head(chan[s][n]), [chan EXCEPT ![s][n] = Tail(@)], juggleQueue[n])
            /\ pass'[n] = Len(juggleQueue'[n])
      BY <1>1 DEF Received
    <2> DEFINE c == [chan EXCEPT ![s][n] = Tail(@)]
    <2>2. c \in [SL -> [SL -> Seq(Message)]]
      <3>1. Tail(chan[s][n]) \in Seq(Message)
        BY <1>0, <2>1
      <3> QED
        BY <1>0, <3>1
    <2>3. c[s][n] = Tail(chan[s][n]) /\ \A t, d \in SL : t # s \/ d # n => c[t][d] = chan[t][d]
      BY <1>0
    <2>4. Handles(n, Head(chan[s][n]), c, juggleQueue[n]) /\ Taking(n, Head(chan[s][n]), c, juggleQueue[n])
      BY <2>1
    <2> HIDE DEF c
    <2>5. Left(c, n, s)
      <3>1. ASSUME NEW t \in SL, NEW d \in SL
            PROVE  /\ Shift(t, d, n, s) = 1 => chan[t][d] # <<>>
                   /\ c[t][d] = IF Shift(t, d, n, s) = 1 THEN Tail(chan[t][d]) ELSE chan[t][d]
        <4>1. CASE t = s /\ d = n
          BY <2>1, <2>3, <4>1 DEF Shift
        <4>2. CASE ~(t = s /\ d = n)
          BY <2>3, <4>2 DEF Shift
        <4> QED
          BY <4>1, <4>2
      <3> QED
        BY <1>0, <2>2, <3>1 DEF Left
    <2>6. Takes(n, Head(chan[s][n]), c, juggleQueue[n], s)
      BY <1>1, <2>1, <2>4, <2>5 DEF Takes, Dispatched
    <2> QED
      BY <2>6
  <1>2. CASE Retried(n)
    <2>1. Left(chan, n, N)
      BY <1>0, Places DEF Left, Shift
    <2>2. Takes(n, Head(juggleQueue[n]), chan, Tail(juggleQueue[n]), N)
      BY <1>2, <2>1 DEF Takes, Retried, Dispatched
    <2> QED
      BY <2>2
  <1> QED
    BY <1>1, <1>2 DEF Dispatched

(* The messages of the queues are those of Net.                               *)
LEMMA InQueues ==
    ASSUME NodeInv
    PROVE  /\ \A s, d \in SL : \A i \in 1..Len(chan[s][d]) :
                  chan[s][d][i] \in Net /\ chan[s][d][i].to = d
           /\ \A d \in SL : \A i \in 1..Len(juggleQueue[d]) :
                  juggleQueue[d][i] \in Net /\ juggleQueue[d][i].to = d
  <1>1. QueuesAre /\ Net = MessagesIn(Queues) /\ AddressedIn(Queues)
    BY QueuesAt, NetIsQueues DEF Net, NodeInv, QueuesOK
  <1>2. ASSUME NEW p \in Place, NEW i \in 1..Len(Queues[p])
        PROVE  Queues[p][i] \in Net /\ Queues[p][i].to = p[2]
    <2>1. Queues[p][i] \in MessagesIn(Queues)
      BY InMessages
    <2> QED
      BY <1>1, <2>1 DEF AddressedIn
  <1>3. ASSUME NEW s \in SL, NEW d \in SL, NEW i \in 1..Len(chan[s][d])
        PROVE  chan[s][d][i] \in Net /\ chan[s][d][i].to = d
    <2>1. <<s, d>> \in Place /\ <<s, d>>[2] = d
      BY Places
    <2>2. Queues[<<s, d>>] = chan[s][d]
      BY <1>1 DEF QueuesAre
    <2> QED
      BY <1>2, <2>1, <2>2
  <1>4. ASSUME NEW d \in SL, NEW i \in 1..Len(juggleQueue[d])
        PROVE  juggleQueue[d][i] \in Net /\ juggleQueue[d][i].to = d
    <2>1. <<N, d>> \in Place /\ <<N, d>>[2] = d
      BY Places
    <2>2. Queues[<<N, d>>] = juggleQueue[d]
      BY <1>1 DEF QueuesAre
    <2> QED
      BY <1>2, <2>1, <2>2
  <1> QED
    BY <1>3, <1>4

(* Every dispatch moves the messages of the channels as Flow says.            *)
LEMMA TakesFlow ==
    ASSUME NEW n \in SL, NEW m, NEW c, NEW q, NEW s0, Takes(n, m, c, q, s0)
    PROVE  \/ Voting(n, m, c, q) /\ Flow(n, s0, TRUE)
                                 /\ (Collector(Last) = n => chan'[n][n] # <<>>)
           \/ (Juggles(n, m, c, q) \/ Counting(n, m, c, q)) /\ Flow(n, s0, FALSE)
           \/ /\ CountingLast(n, m, c, q) /\ Flow(n, s0, FALSE)
              /\ \A d \in SL : Contains(FullCommit(Last, d), chan'[n][d])
           \/ Applying(n, m, c, q) /\ Flow(n, s0, FALSE)
  <1>0. /\ Left(c, n, s0) /\ NodeInv /\ m \in Net
        /\ c \in [SL -> [SL -> Seq(Message)]]
    BY DEF Takes, Left, Taking
  <1>1. CASE Voting(n, m, c, q)
    <2> DEFINE y == PartialCommit(Last, n, Collector(Last))
    <2>1. /\ Collector(Last) \in SL /\ Last \in R2!Seq16
      <3>1. Last > 0 /\ m.seq = Last /\ m.seq \in R2!Seq16
        BY <1>0, <1>1, InFlightFacts, MessageTypes DEF Voting
      <3> QED
        BY <1>0, <3>1, DoneFacts
    <2>2. y \in Message /\ y.to = Collector(Last) /\ y.sender = n
      BY <2>1, PartialCommits
    <2>3. chan' = Send(c, n, y)
      BY <1>1 DEF Voting
    <2> HIDE DEF y
    <2>4. Flow(n, s0, TRUE) /\ chan'[n][y.to] # <<>>
      BY <1>0, <2>1, <2>2, <2>3, FlowSend
    <2> QED
      BY <1>1, <2>2, <2>4
  <1>2. CASE Juggles(n, m, c, q) \/ Counting(n, m, c, q)
    <2>1. chan' = c
      BY <1>2 DEF Juggles, Counting
    <2> QED
      BY <1>0, <1>2, <2>1, FlowNothing
  <1>3. CASE CountingLast(n, m, c, q)
    <2> DEFINE x == [d \in SL |-> FullCommit(Last, d)]
    <2>1. Last \in R2!Seq16
      <3>1. Last > 0 /\ m.seq = Last /\ m.seq \in R2!Seq16
        BY <1>0, <1>3, InFlightFacts, MessageTypes DEF CountingLast
      <3> QED
        BY <3>1
    <2>2. \A d \in SL : x[d] = FullCommit(Last, d)
      OBVIOUS
    <2>3. x \in [SL -> Message] /\ NoVotes(x)
      BY <2>1, FullCommits DEF NoVotes
    <2>4. chan' = Broadcast(c, n, x)
      BY <1>3 DEF CountingLast
    <2> HIDE DEF x
    <2>5. Flow(n, s0, FALSE) /\ AppendsTo(c, n, x)
      <3>1. Left(c, n, s0)
        BY <1>0
      <3> QED
        BY <2>3, <2>4, <3>1, FlowBroadcast
    <2>6. ASSUME NEW d \in SL PROVE Contains(FullCommit(Last, d), chan'[n][d])
      <3>1. c[n][d] \in Seq(Message) /\ x[d] \in Message
        BY <1>0, <2>3
      <3>2. LET l == Len(c[n][d]) + 1
            IN  l \in 1..Len(Append(c[n][d], x[d])) /\ Append(c[n][d], x[d])[l] = x[d]
        BY <3>1
      <3> QED
        BY <2>2, <2>5, <3>2 DEF Contains, AppendsTo
    <2> QED
      BY <1>3, <2>5, <2>6
  <1>4. CASE Applying(n, m, c, q)
    <2>1. CASE chan' = c
      BY <1>0, <1>4, <2>1, FlowNothing
    <2>2. CASE n = Leader /\ Proposes(c)
      <3>1. PICK x \in [SL -> Message] :
              chan' = Broadcast(c, n, x) /\ \A d \in SL : x[d].type = "PREPREPARE"
        BY <2>2 DEF Proposes
      <3>2. NoVotes(x)
        BY <3>1 DEF NoVotes
      <3>3. Flow(n, s0, FALSE)
        BY <1>0, <3>1, <3>2, FlowBroadcast
      <3> QED
        BY <1>4, <3>3
    <2> QED
      BY <1>4, <2>1, <2>2 DEF Applying
  <1> QED
    BY <1>1, <1>2, <1>3, <1>4 DEF Takes, Handles

(* So do the other steps.                                                     *)
LEMMA OthersFlow ==
    ASSUME NodeInv, Others
    PROVE  Flow(Leader, N, FALSE)
  <1>1. Left(chan, Leader, N)
    BY Places DEF NodeInv, QueuesOK, Left, Shift
  <1>2. CASE chan' = chan
    BY <1>1, <1>2, LeaderInSL, FlowNothing
  <1>3. CASE Proposes(chan)
    <2>1. PICK x \in [SL -> Message] :
            chan' = Broadcast(chan, Leader, x) /\ \A d \in SL : x[d].type = "PREPREPARE"
      BY <1>3 DEF Proposes
    <2>2. NoVotes(x)
      BY <2>1 DEF NoVotes
    <2> QED
      BY <1>1, <2>1, <2>2, LeaderInSL, FlowBroadcast
  <1> QED
    BY <1>2, <1>3 DEF Others

(* What is not taken stays.                                                   *)
LEMMA FlowContains ==
    ASSUME NEW n, NEW s0, NEW voter, Flow(n, s0, voter), NEW s \in SL, NEW d \in SL, NEW x,
           Contains(x, chan[s][d]), chan[s][d] \in Seq(Message),
           s = s0 /\ d = n => x # Head(chan[s][d])
    PROVE  Contains(x, chan'[s][d])
  <1>1. PICK i \in 1..Len(chan[s][d]) : chan[s][d][i] = x
    BY DEF Contains
  <1>2. i > Shift(s, d, n, s0)
    <2>1. CASE s = s0 /\ d = n
      <3>1. Head(chan[s][d]) = chan[s][d][1] /\ Len(chan[s][d]) \in Nat
        BY <1>1
      <3> QED
        BY <1>1, <2>1, <3>1 DEF Shift
    <2>2. CASE ~(s = s0 /\ d = n)
      BY <1>1, <2>2 DEF Shift
    <2> QED
      BY <2>1, <2>2
  <1>3. FlowOn(chan[s][d], chan'[s][d], Shift(s, d, n, s0), s, n, voter)
    BY DEF Flow
  <1> QED
    BY <1>1, <1>2, <1>3 DEF FlowOn, Contains

(* The senders on a path stay what they are.                                  *)
LEMMA FlowSenders ==
    ASSUME NEW n, NEW s0, NEW voter, Flow(n, s0, voter), Senders
    PROVE  Senders'
  <1> SUFFICES ASSUME NEW s \in SL, NEW d \in SL, NEW j \in 1..Len(chan'[s][d]),
                      chan'[s][d][j].type = "PARTIAL_COMMIT"
               PROVE  chan'[s][d][j].sender = s
    BY DEF Senders
  <1> DEFINE t == Shift(s, d, n, s0)
  <1>1. OldAt(chan[s][d], chan'[s][d], t, j) \/ NewAt(chan[s][d], chan'[s][d], t, j, s, n, voter)
    BY DEF Flow, FlowOn
  <1> HIDE DEF t
  <1> QED
    BY <1>1 DEF OldAt, NewAt, Senders

-----------------------------------------------------------------------------
(* What the steps do to the votes.                                            *)
LogLater ==
    /\ Last \in Nat /\ Last' \in {Last, Last + 1}
    /\ \A i \in 1..Last : Collector(i)' = Collector(i)
    /\ Last' = Last => leader_collector_rr' = leader_collector_rr
    /\ Last' = Last + 1 =>
          /\ Collector(Last)' = leader_collector_rr
          /\ leader_collector_rr' = NextOf(leader_collector_rr)
          /\ Done(Last) \/ Last = 0

(* The log stays, or grows by the entry proposed.                             *)
LEMMA LogLaterIs ==
    ASSUME NodeInv,
           \/ log' = log /\ leader_collector_rr' = leader_collector_rr
           \/ \E c : Proposes(c)
    PROVE  LogLater
  <1>1. log \in Seq(R2!Preprepare) /\ Last \in Nat
    BY NodeFacts DEF NodeTypes
  <1>2. CASE log' = log /\ leader_collector_rr' = leader_collector_rr
    BY <1>1, <1>2 DEF LogLater, Last, Collector
  <1>3. CASE \E c : Proposes(c)
    <2>1. PICK p \in R2!Preprepare : log' = Append(log, p) /\ p.collector_SLid = leader_collector_rr
      BY <1>3 DEF Proposes
    <2>2. Len(log') = Len(log) + 1 /\ log'[Len(log) + 1] = p /\ \A i \in 1..Len(log) : log'[i] = log[i]
      BY <1>1, <2>1
    <2>3. leader_collector_rr' = NextOf(leader_collector_rr) /\ (Done(Last) \/ Last = 0)
      BY <1>3 DEF Proposes
    <2>4. Last' = Last + 1 /\ Last' # Last
      BY <1>1, <2>2 DEF Last
    <2>5. Collector(Last)' = leader_collector_rr
      BY <1>1, <2>1, <2>2, <2>4 DEF Last, Collector
    <2>6. \A i \in 1..Last : Collector(i)' = Collector(i)
      BY <2>2 DEF Last, Collector
    <2> QED
      BY <1>1, <2>3, <2>4, <2>5, <2>6 DEF LogLater
  <1> QED
    BY <1>2, <1>3

(* So it is in every step.                                                    *)
LEMMA NextLogLater ==
    ASSUME NodeInv, Others \/ \E n \in SL : Dispatched(n)
    PROVE  LogLater
  <1>1. CASE Others
    BY <1>1, LogLaterIs DEF Others, SameVotes
  <1>2. ASSUME NEW n \in SL, Dispatched(n) PROVE LogLater
    <2>1. PICK m, c, q, s0 : Takes(n, m, c, q, s0)
      BY <1>2, DispatchedTakes
    <2>2. Handles(n, m, c, q)
      BY <2>1 DEF Takes
    <2> QED
      BY <2>2, LogLaterIs DEF Handles, Juggles, Voting, Counting, CountingLast, Applying, SameVotes
  <1> QED
    BY <1>1, <1>2

(* The collectors go on taking turns.                                         *)
LEMMA RotatesKept ==
    ASSUME Rotates, LogLater
    PROVE  Rotates'
  <1> DEFINE Turn(k) == /\ k > 0 => leader_collector_rr = NextOf(Collector(k))
                        /\ k > 1 => Collector(k) = NextOf(Collector(k - 1))
  <1>1. PICK k \in Nat : k = Last
    BY DEF LogLater
  <1>2. Turn(k)
    BY <1>1 DEF Rotates
  <1>3. \A i \in 1..k : Collector(i)' = Collector(i)
    BY <1>1 DEF LogLater
  <1>4. CASE Last' = k
    <2>1. k > 0 => leader_collector_rr' = NextOf(Collector(k)')
      <3>1. k > 0 => k \in 1..k
        OBVIOUS
      <3> QED
        BY <1>1, <1>2, <1>3, <1>4, <3>1 DEF LogLater
    <2>2. k > 1 => Collector(k)' = NextOf(Collector(k - 1)')
      <3>1. k > 1 => k \in 1..k /\ k - 1 \in 1..k
        OBVIOUS
      <3>2. k > 1 => Collector(k)' = Collector(k) /\ Collector(k - 1)' = Collector(k - 1)
        BY <1>3, <3>1
      <3> QED
        BY <1>2, <3>2
    <2> QED
      BY <1>4, <2>1, <2>2 DEF Rotates, NextOf, Collector
  <1>5. CASE Last' = k + 1
    <2>1. Collector(Last)' = leader_collector_rr /\ leader_collector_rr' = NextOf(leader_collector_rr)
      BY <1>1, <1>5 DEF LogLater
    <2>2. k > 0 => leader_collector_rr = NextOf(Collector(k)')
      <3>1. k > 0 => k \in 1..k
        OBVIOUS
      <3> QED
        BY <1>2, <1>3, <3>1
    <2>3. Last' - 1 = k /\ (Last' > 1 => k > 0)
      BY <1>5
    <2>4. Collector(Last - 1)' = Collector(k)'
      BY <2>3 DEF Collector
    <2> QED
      BY <2>1, <2>2, <2>3, <2>4 DEF Rotates, NextOf
  <1> QED
    BY <1>1, <1>4, <1>5 DEF LogLater

(* The votes of an SL whose deliveries and open instance stay.                *)
VotesOf(d) == Applied(d)' = Applied(d) /\ Votes(d)' = Votes(d)

(* What decides the votes of an SL.                                           *)
LEMMA VotesStay ==
    ASSUME NEW d \in SL, delivered'[d] = delivered[d], state'[d] \in Idle <=> state[d] \in Idle
    PROVE  VotesOf(d)
  <1>1. Applied(d)' = Applied(d)
    BY DEF Applied
  <1> QED
    BY <1>1 DEF VotesOf, Votes

(* A vote, seen from the counts.                                              *)
Voted(n) ==
    /\ Votes(n) + 1 = Last /\ Votes(n)' = Last /\ Applied(n)' = Applied(n) /\ Applied(n) = Votes(n)
    /\ \A d \in SL \ {n} : VotesOf(d)
    /\ Last' = Last /\ Last > 0
    /\ \A v : ~Done(Last) /\ (Done(v)' => v < Last)

(* A vote raises the count of its SL to the last instance.                    *)
LEMMA VotingVotes ==
    ASSUME NodeInv, NEW n \in SL, NEW m \in Net, m.to = n, NEW c, NEW q, Voting(n, m, c, q)
    PROVE  Voted(n)
  <1>1. Votes(n) + 1 = Last /\ Last > 0 /\ NodeTypes
    BY InFlightFacts, NodeFacts DEF Voting
  <1>2. Applied(n) = Votes(n) /\ Applied(n) \in Nat /\ Last \in Nat /\ Votes(n) # Last
    BY <1>1 DEF Votes, Voting, NodeTypes
  <1>3. Applied(n)' = Applied(n) /\ Last' = Last /\ \A i : Collector(i)' = Collector(i)
    BY DEF Voting, Applied, Last, Collector
  <1>4. Votes(n)' = Applied(n) + 1
    BY <1>3 DEF Votes, Voting
  <1>5. ASSUME NEW d \in SL \ {n} PROVE VotesOf(d)
    BY VotesStay DEF Voting
  <1>6. Collector(Last) \in SL /\ (Done(Last) => Votes(n) = Last)
    BY <1>1, DoneFacts
  <1>7. ASSUME NEW v, Done(v)' PROVE v < Last
    <2>1. PICK e \in SL : e = Collector(Last)
      BY <1>6
    <2>2. Collector(Last)' = e
      BY <1>3, <2>1 DEF Collector
    <2>3. v < Last \/ (v = Last /\ Votes(e)' = Last /\ state'[e] # Collecting)
      BY <1>3, <1>7, <2>2 DEF Done, Votes, Applied
    <2>4. ASSUME Votes(e)' = Last, state'[e] # Collecting PROVE FALSE
      <3>1. e # n
        BY <2>1, <2>4 DEF Voting
      <3>2. Votes(e)' = Votes(e) /\ state'[e] = state[e]
        BY <1>5, <3>1 DEF VotesOf, Voting
      <3>3. Done(Last)
        BY <2>1, <2>4, <3>2 DEF Done
      <3> QED
        BY <1>2, <1>6, <3>3
    <2> QED
      BY <2>3, <2>4
  <1> QED
    BY <1>1, <1>2, <1>3, <1>4, <1>5, <1>6, <1>7 DEF Voted

DoneBefore == \A v \in Nat : v <= Last /\ Done(v)' => Done(v)

(* Nothing of the votes changes.                                              *)
LEMMA SameVotesStay ==
    ASSUME NodeInv, Last > 0, SameVotes
    PROVE  Last' = Last /\ DoneBefore /\ \A d \in SL : VotesOf(d)
  <1>1. Last' = Last /\ \A i : Collector(i)' = Collector(i)
    BY DEF SameVotes, Last, Collector
  <1>2. \A d \in SL : VotesOf(d)
    BY VotesStay DEF SameVotes
  <1>3. ASSUME NEW v \in Nat, Done(v)' PROVE Done(v)
    <2>1. PICK e \in SL : e = Collector(Last)
      BY DoneFacts
    <2>2. Collector(Last)' = e
      BY <1>1, <2>1 DEF Collector
    <2>3. v < Last \/ (v = Last /\ Votes(e)' = Last /\ state'[e] # Collecting)
      BY <1>1, <1>3, <2>2 DEF Done, Votes, Applied
    <2>4. Votes(e)' = Votes(e) /\ (state'[e] # Collecting => state[e] # Collecting)
      BY <1>2 DEF VotesOf, SameVotes
    <2> QED
      BY <2>1, <2>3, <2>4 DEF Done
  <1> QED
    BY <1>1, <1>2, <1>3 DEF DoneBefore

(* The last PartialCommit is counted.                                         *)
LEMMA CountingLastVotes ==
    ASSUME NEW n \in SL, NEW m, NEW c, NEW q, CountingLast(n, m, c, q)
    PROVE  Last' = Last /\ \A d \in SL : VotesOf(d)
  <1>1. Last' = Last
    BY DEF CountingLast, Last
  <1>2. ASSUME NEW d \in SL PROVE VotesOf(d)
    <2>1. delivered' = delivered
      BY DEF CountingLast
    <2>2. state'[d] \in Idle <=> state[d] \in Idle
      BY DEF CountingLast, Idle
    <2> QED
      BY <2>1, <2>2, VotesStay
  <1> QED
    BY <1>1, <1>2

(* The leader proposes.                                                       *)
LEMMA ProposingVotes ==
    ASSUME NodeInv, Last > 0, Proposes(chan), Others
    PROVE  Last' = Last + 1 /\ DoneBefore /\ \A d \in SL : VotesOf(d)
  <1>1. log \in Seq(R2!Preprepare) /\ Last \in Nat
    BY NodeFacts DEF NodeTypes
  <1>2. Last' = Last + 1 /\ Done(Last)
    BY <1>1 DEF Proposes, Last
  <1>3. delivered' = delivered /\ \A d \in SL : state'[d] \in Idle <=> state[d] \in Idle
    BY DEF Others, SameVotes
  <1>4. \A d \in SL : VotesOf(d)
    BY <1>3, VotesStay
  <1>5. \A v \in Nat : v <= Last => Done(v)
    <2>1. ASSUME NEW v \in Nat, v <= Last PROVE Done(v)
      <3>1. Last \in Nat
        BY <1>1
      <3>2. CASE v = Last
        BY <1>2, <3>2
      <3>3. CASE v # Last
        <4>1. v < Last
          BY <2>1, <3>1, <3>3
        <4> QED
          BY <4>1 DEF Done
      <3> QED
        BY <3>2, <3>3
    <2> QED
      BY <2>1
  <1> QED
    BY <1>2, <1>4, <1>5 DEF DoneBefore

(* The entry is applied.                                                      *)
Applies(n) ==
    /\ Applied(n)' = Applied(n) + 1 /\ Votes(n) = Applied(n) + 1 /\ Votes(n)' = Votes(n)
    /\ \A d \in SL \ {n} : VotesOf(d)
    /\ DoneBefore

(* What is done was done before, and the other counts stay.                   *)
LEMMA ApplyingVotes ==
    ASSUME NodeInv, Last > 0, NEW n \in SL, NEW m, NEW c, NEW q, Applying(n, m, c, q)
    PROVE  Applies(n)
  <1>1. /\ log \in Seq(R2!Preprepare) /\ delivered \in [SL -> Seq(R2!Preprepare)]
        /\ Last \in Nat /\ Applied(n) \in Nat
    BY NodeFacts DEF NodeTypes
  <1>2. /\ state[n] \notin Idle /\ state[n] # Collecting /\ state'[n] \in Idle
        /\ \A d \in SL \ {n} : state'[d] = state[d]
    BY DEF Applying
  <1>3. PICK p \in R2!Preprepare : delivered' = [delivered EXCEPT ![n] = Append(@, p)]
    BY DEF Applying
  <1>4. /\ delivered'[n] = Append(delivered[n], p) /\ delivered[n] \in Seq(R2!Preprepare)
        /\ \A d \in SL \ {n} : delivered'[d] = delivered[d]
    BY <1>1, <1>3
  <1>5. Applied(n)' = Applied(n) + 1
    BY <1>4 DEF Applied
  <1>6. Votes(n) = Applied(n) + 1 /\ Votes(n)' = Votes(n)
    BY <1>1, <1>2, <1>5 DEF Votes
  <1>7. ASSUME NEW d \in SL \ {n} PROVE VotesOf(d)
    BY <1>2, <1>4, VotesStay
  <1>8. CASE log' = log
    <2>1. ASSUME NEW v \in Nat, Done(v)' PROVE Done(v)
      <3>1. PICK e \in SL : e = Collector(Last)
        BY DoneFacts
      <3>2. Collector(Last)' = e /\ Last' = Last
        BY <1>8, <3>1 DEF Collector, Last
      <3>3. v < Last \/ (v = Last /\ Votes(e)' = Last /\ state'[e] # Collecting)
        BY <2>1, <3>2 DEF Done, Votes, Applied
      <3>4. Votes(e)' = Votes(e) /\ (state'[e] # Collecting => state[e] # Collecting)
        BY <1>2, <1>6, <1>7 DEF VotesOf
      <3> QED
        BY <3>1, <3>3, <3>4 DEF Done
    <2>2. DoneBefore
      BY <2>1 DEF DoneBefore
    <2> QED
      BY <1>5, <1>6, <1>7, <2>2 DEF Applies
  <1>9. CASE Proposes(c)
    <2>1. Done(Last)
      BY <1>9 DEF Proposes
    <2>2. ASSUME NEW v \in Nat, v <= Last PROVE Done(v)
      <3>1. CASE v = Last
        BY <2>1, <3>1
      <3>2. CASE v # Last
        <4>1. v < Last
          BY <1>1, <2>2, <3>2
        <4> QED
          BY <4>1 DEF Done
      <3> QED
        BY <3>1, <3>2
    <2>3. DoneBefore
      BY <2>2 DEF DoneBefore
    <2> QED
      BY <1>5, <1>6, <1>7, <2>3 DEF Applies
  <1> QED
    BY <1>8, <1>9 DEF Applying

-----------------------------------------------------------------------------
(* The FullCommits are on their way.                                          *)
LEMMA ComingKept ==
    ASSUME NodeInv, LogLater, FullCommitComing, NEW e \in SL, state[e] \notin Idle, Done(Votes(e)),
           Votes(e)' = Votes(e), NEW n \in SL, NEW s0, NEW voter, Flow(n, s0, voter),
           \/ s0 = N
           \/ e # n
           \/ s0 \in SL /\ Head(chan[s0][n]).type # "FULL_COMMIT"
    PROVE  Contains(FullCommit(Votes(e), e), chan[Collector(Votes(e))][e])'
  <1>1. PICK v \in Nat : v = Votes(e)
    BY NodeFacts DEF NodeTypes
  <1>2. v \in 1..Last
    <2>1. Votes(e) = Applied(e) + 1 /\ Applied(e) \in Nat /\ Votes(e) <= Last /\ Last \in Nat
      BY NodeFacts DEF Votes, NodeTypes, Positions
    <2> QED
      BY <1>1, <2>1
  <1>3. Collector(v)' = Collector(v) /\ Collector(v) \in SL
    <2>1. log \in Seq(R2!Preprepare)
      BY NodeFacts DEF NodeTypes
    <2>2. log[v] \in R2!Preprepare
      BY <1>2, <2>1 DEF Last
    <2> QED
      BY <1>2, <2>2 DEF LogLater, Collector, R2!Preprepare, R2!SL, SL
  <1>4. Contains(FullCommit(v, e), chan[Collector(v)][e])
    BY <1>1 DEF FullCommitComing
  <1>5. PICK s \in SL : s = Collector(v)
    BY <1>3
  <1>6. chan[s][e] \in Seq(Message)
    BY DEF NodeInv, QueuesOK
  <1>7. s = s0 /\ e = n => FullCommit(v, e) # Head(chan[s][e])
    <2>1. FullCommit(v, e).type = "FULL_COMMIT"
      BY DEF FullCommit
    <2> QED
      BY <1>5, <2>1, Places
  <1>8. Contains(FullCommit(v, e), chan'[s][e])
    BY <1>4, <1>5, <1>6, <1>7, FlowContains
  <1>9. Contains(FullCommit(v, e), chan[Collector(v)][e])'
    BY <1>3, <1>5, <1>8 DEF Contains, FullCommit
  <1> QED
    BY <1>1, <1>9 DEF Contains, FullCommit, Collector, Votes, Applied

(* An SL whose votes stay keeps its FullCommit coming.                        *)
LEMMA ComingOn ==
    ASSUME NodeInv, LogLater, FullCommitComing, NEW e \in SL, state[e] \notin Idle,
           VotesOf(e), DoneBefore, Done(Votes(e))',
           NEW n \in SL, NEW s0, NEW voter, Flow(n, s0, voter),
           \/ s0 = N
           \/ e # n
           \/ s0 \in SL /\ Head(chan[s0][n]).type # "FULL_COMMIT"
    PROVE  Contains(FullCommit(Votes(e), e), chan[Collector(Votes(e))][e])'
  <1>1. PICK v \in Nat : v = Votes(e)
    BY NodeFacts DEF NodeTypes
  <1>2. v <= Last /\ Votes(e)' = v
    BY <1>1, NodeFacts DEF Positions, VotesOf
  <1>3. Done(v)'
    BY <1>2 DEF Done
  <1>4. Done(v)
    BY <1>2, <1>3 DEF DoneBefore
  <1>5. Done(Votes(e)) /\ Votes(e)' = Votes(e)
    BY <1>1, <1>2, <1>4 DEF Done
  <1> QED
    BY <1>5, ComingKept

(* After a dispatch.                                                          *)
LEMMA ComingDispatched ==
    ASSUME NEW n \in SL, NEW m, NEW c, NEW q, NEW s0, Takes(n, m, c, q, s0), LogLater,
           FullCommitComing, NEW e \in SL, state'[e] \notin Idle, Done(Votes(e))'
    PROVE  Contains(FullCommit(Votes(e), e), chan[Collector(Votes(e))][e])'
  <1>1. NodeInv /\ m \in Net /\ m.to = n
    BY DEF Takes, Taking
  <1>2. Last > 0 /\ Last \in Nat
    BY <1>1, InFlightFacts, NodeFacts DEF NodeTypes
  <1>3. s0 = N \/ (s0 \in SL /\ Head(chan[s0][n]) = m)
    BY DEF Takes
  <1>4. CASE Voting(n, m, c, q) /\ Flow(n, s0, TRUE)
    <2>1. Voted(n)
      BY <1>1, <1>4, VotingVotes
    <2>2. PICK v : v = Votes(e)'
      OBVIOUS
    <2>3. Done(v)'
      BY <2>2 DEF Done
    <2>4. v < Last
      BY <2>1, <2>3 DEF Voted
    <2>5. e # n
      BY <1>2, <2>1, <2>2, <2>4 DEF Voted
    <2>6. DoneBefore
      BY <2>1 DEF Voted, DoneBefore, Done
    <2>7. VotesOf(e) /\ state[e] \notin Idle
      BY <1>4, <2>1, <2>5 DEF Voted, Voting
    <2> QED
      BY <1>1, <1>4, <2>5, <2>6, <2>7, ComingOn
  <1>5. CASE (Juggles(n, m, c, q) \/ Counting(n, m, c, q)) /\ Flow(n, s0, FALSE)
    <2>1. SameVotes /\ m.type # "FULL_COMMIT"
      BY <1>5 DEF Juggles, Counting
    <2>2. DoneBefore /\ VotesOf(e) /\ state[e] \notin Idle
      BY <1>1, <1>2, <2>1, SameVotesStay DEF SameVotes
    <2> QED
      BY <1>1, <1>3, <1>5, <2>1, <2>2, ComingOn
  <1>6. CASE /\ CountingLast(n, m, c, q) /\ Flow(n, s0, FALSE)
             /\ \A d \in SL : Contains(FullCommit(Last, d), chan'[n][d])
    <2>1. Last' = Last /\ VotesOf(e) /\ n = Collector(Last) /\ m.type = "PARTIAL_COMMIT"
      BY <1>6, CountingLastVotes DEF CountingLast
    <2>2. state[e] \notin Idle
      BY <1>6 DEF CountingLast
    <2>3. PICK v \in Nat : v = Votes(e)
      BY <1>1, NodeFacts DEF NodeTypes
    <2>4. v <= Last /\ Votes(e)' = v
      BY <1>1, <2>1, <2>3, NodeFacts DEF Positions, VotesOf
    <2>5. CASE v = Last
      <3>1. log' = log
        BY <1>6 DEF CountingLast
      <3>2. Collector(Votes(e))' = n
        BY <2>1, <2>4, <2>5, <3>1 DEF Collector, Votes, Applied
      <3>3. Contains(FullCommit(v, e), chan'[n][e])
        BY <1>6, <2>5
      <3> QED
        BY <2>4, <3>2, <3>3 DEF Contains, FullCommit
    <2>6. CASE v # Last
      <3>1. Done(Votes(e)) /\ Votes(e)' = Votes(e)
        BY <1>2, <2>3, <2>4, <2>6 DEF Done
      <3> QED
        BY <1>1, <1>3, <1>6, <2>1, <2>2, <3>1, ComingKept
    <2> QED
      BY <2>5, <2>6
  <1>7. CASE Applying(n, m, c, q) /\ Flow(n, s0, FALSE)
    <2>1. Applies(n) /\ e # n /\ state'[e] = state[e]
      BY <1>1, <1>2, <1>7, ApplyingVotes DEF Applying
    <2>2. DoneBefore /\ VotesOf(e) /\ state[e] \notin Idle
      BY <2>1 DEF Applies
    <2> QED
      BY <1>1, <1>7, <2>1, <2>2, ComingOn
  <1> QED
    BY <1>4, <1>5, <1>6, <1>7, TakesFlow

(* After any other step.                                                      *)
LEMMA ComingOthers ==
    ASSUME NodeInv, Others, LogLater, FullCommitComing, NEW e \in SL, state'[e] \notin Idle,
           Done(Votes(e))'
    PROVE  Contains(FullCommit(Votes(e), e), chan[Collector(Votes(e))][e])'
  <1>1. state[e] \notin Idle /\ Flow(Leader, N, FALSE) /\ Leader \in SL
    BY OthersFlow, LeaderInSL DEF Others, SameVotes
  <1>2. Last > 0
    <2>1. Votes(e) = Applied(e) + 1 /\ Applied(e) \in Nat /\ Votes(e) <= Last /\ Last \in Nat
      BY <1>1, NodeFacts DEF Votes, NodeTypes, Positions
    <2> QED
      BY <2>1
  <1>3. DoneBefore /\ VotesOf(e)
    <2>1. CASE SameVotes
      BY <1>2, <2>1, SameVotesStay
    <2>2. CASE ~SameVotes
      BY <1>2, <2>2, ProposingVotes DEF Others
    <2> QED
      BY <2>1, <2>2
  <1> QED
    BY <1>1, <1>3, ComingOn

(* FullCommitComing is kept.                                                  *)
LEMMA ComingNext ==
    ASSUME NodeInv, LogLater, FullCommitComing, Others \/ \E n \in SL : Dispatched(n)
    PROVE  FullCommitComing'
  <1>1. ASSUME NEW e \in SL, state'[e] \notin Idle, Done(Votes(e))'
        PROVE  Contains(FullCommit(Votes(e), e), chan[Collector(Votes(e))][e])'
    <2>1. CASE Others
      BY <1>1, <2>1, ComingOthers
    <2>2. CASE \E n \in SL : Dispatched(n)
      <3>1. PICK n \in SL : Dispatched(n)
        BY <2>2
      <3>2. PICK m, c, q, s0 : Takes(n, m, c, q, s0)
        BY <3>1, DispatchedTakes
      <3> QED
        BY <1>1, <3>2, ComingDispatched
    <2> QED
      BY <2>1, <2>2
  <1> QED
    BY <1>1 DEF FullCommitComing

-----------------------------------------------------------------------------
(* PartialCommits in flight are of the last instance, before and after a step.*)
PartialCommitsNow ==
    /\ \A s, d \in SL : \A i \in 1..Len(chan[s][d]) :
          chan[s][d][i].type = "PARTIAL_COMMIT" => chan[s][d][i].seq = Last /\ Last > 0
    /\ \A d \in SL : \A i \in 1..Len(juggleQueue[d]) :
          juggleQueue[d][i].type = "PARTIAL_COMMIT" => juggleQueue[d][i].seq = Last /\ Last > 0

(* Before the step.                                                           *)
LEMMA PartialCommitsAre == NodeInv => PartialCommitsNow
  BY InQueues, InFlightFacts DEF PartialCommitsNow

(* After it.                                                                  *)
LEMMA PartialCommitsWere == NodeInv' => PartialCommitsNow'
  BY PartialCommitsAre, PTL

(* The FullCommit that was ahead of a PartialCommit still is.                 *)
LEMMA FirstOld ==
    ASSUME NodeInv, FullCommitFirst, NEW n \in SL, NEW s0, NEW voter, Flow(n, s0, voter),
           NEW s \in SL, NEW d \in SL, NEW j \in 1..Len(chan'[s][d]),
           chan'[s][d][j].type = "PARTIAL_COMMIT",
           OldAt(chan[s][d], chan'[s][d], Shift(s, d, n, s0), j),
           Last > 1, s = Collector(Last - 1), Applied(d) < Last - 1,
           s = s0 /\ d = n => Head(chan[s][d]) # FullCommit(Last - 1, d)
    PROVE  \E i \in 1..(j - 1) : chan'[s][d][i] = FullCommit(Last - 1, d)
  <1>1. PICK t \in {0, 1} : t = Shift(s, d, n, s0)
    BY ShiftIs
  <1>2. chan[s][d] \in Seq(Message)
    BY DEF NodeInv, QueuesOK
  <1>3. j + t \in 1..Len(chan[s][d]) /\ chan[s][d][j + t].type = "PARTIAL_COMMIT"
    BY <1>1 DEF OldAt
  <1>4. PICK i \in 1..(j + t - 1) : chan[s][d][i] = FullCommit(Last - 1, d)
    BY <1>3 DEF FullCommitFirst
  <1>5. i > t
    <2>1. CASE i <= t
      <3>1. t = 1 /\ i = 1
        BY <1>1, <2>1
      <3>2. s = s0 /\ d = n
        BY <1>1, <3>1 DEF Shift
      <3>3. Len(chan[s][d]) > 0
        BY <1>2, <1>3
      <3>4. Head(chan[s][d]) = chan[s][d][1]
        BY <1>2, <3>3
      <3> QED
        BY <1>4, <3>1, <3>2, <3>4
    <2> QED
      BY <1>1, <2>1
  <1>6. j \in Nat /\ i \in 1..Len(chan[s][d]) /\ Len(chan[s][d]) \in Nat
    BY <1>1, <1>2, <1>3
  <1>7. i - t \in 1..Len(chan'[s][d]) /\ chan'[s][d][i - t] = chan[s][d][i]
    BY <1>1, <1>5, <1>6 DEF Flow, FlowOn
  <1>8. i - t \in 1..(j - 1)
    BY <1>1, <1>5, <1>6
  <1> QED
    BY <1>4, <1>7, <1>8

(* It is ahead of a PartialCommit just sent.                                  *)
LEMMA FirstNew ==
    ASSUME NodeInv, FullCommitComing, NEW n \in SL, NEW m, NEW c, NEW q, NEW s0,
           Voting(n, m, c, q), Flow(n, s0, TRUE), NEW d \in SL, NEW j \in 1..Len(chan'[n][d]),
           NewAt(chan[n][d], chan'[n][d], Shift(n, d, n, s0), j, n, n, TRUE),
           Last > 1, n = Collector(Last - 1), Applied(d) < Last - 1
    PROVE  \E i \in 1..(j - 1) : chan'[n][d][i] = FullCommit(Last - 1, d)
  <1>1. Last \in Nat /\ Applied(d) \in Nat /\ Last <= Votes(d) + 1
    BY NodeFacts DEF NodeTypes, Positions
  <1>2. state[d] \notin Idle /\ Votes(d) = Last - 1
    BY <1>1 DEF Votes
  <1>3. d # n
    BY <1>2 DEF Voting
  <1>4. Shift(n, d, n, s0) = 0
    BY <1>3 DEF Shift
  <1>5. Done(Last - 1)
    BY <1>1 DEF Done
  <1>6. Contains(FullCommit(Last - 1, d), chan[n][d])
    BY <1>2, <1>5 DEF FullCommitComing
  <1>7. PICK i \in 1..Len(chan[n][d]) : chan[n][d][i] = FullCommit(Last - 1, d)
    BY <1>6 DEF Contains
  <1>8. chan[n][d] \in Seq(Message)
    BY DEF NodeInv, QueuesOK
  <1>9. i \in Nat /\ i > 0 /\ i - 0 = i /\ j \in Nat
    BY <1>8
  <1>10. i \in 1..Len(chan'[n][d]) /\ chan'[n][d][i] = chan[n][d][i]
    <2>1. FlowOn(chan[n][d], chan'[n][d], 0, n, n, TRUE)
      BY <1>4 DEF Flow
    <2>2. i > 0 => i - 0 \in 1..Len(chan'[n][d]) /\ chan'[n][d][i - 0] = chan[n][d][i]
      BY <2>1 DEF FlowOn
    <2> QED
      BY <1>9, <2>2
  <1>11. i < j
    BY <1>4, <1>9 DEF NewAt
  <1> QED
    BY <1>7, <1>9, <1>10, <1>11

(* The goal: what FullCommitFirst says of one position after the step.        *)
FirstGoal(s, d, j) ==
    /\ j \in 1..Len(chan[s][d])
    /\ chan[s][d][j].type = "PARTIAL_COMMIT"
    /\ Last > 1
    /\ s = Collector(Last - 1)
    /\ Applied(d) < Last - 1
    => \E i \in 1..(j - 1) : chan[s][d][i] = FullCommit(Last - 1, d)

(* All positions together.                                                    *)
LEMMA FirstGoals ==
    ASSUME \A s, d \in SL : \A j : FirstGoal(s, d, j)'
    PROVE  FullCommitFirst'
  BY DEF FirstGoal, FullCommitFirst

(* A dispatch.                                                                *)
LEMMA FirstDispatched ==
    ASSUME NEW n \in SL, NEW m, NEW c, NEW q, NEW s0, Takes(n, m, c, q, s0), LogLater, NodeInv',
           FullCommitComing, FullCommitFirst, NEW s \in SL, NEW d \in SL, NEW j
    PROVE  FirstGoal(s, d, j)'
  <1> SUFFICES ASSUME j \in 1..Len(chan'[s][d]), chan'[s][d][j].type = "PARTIAL_COMMIT",
                      Last' > 1, s = Collector(Last - 1)', Applied(d)' < Last' - 1
               PROVE  \E i \in 1..(j - 1) : chan'[s][d][i] = FullCommit(Last' - 1, d)
    BY DEF FirstGoal, FullCommit
  <1>1. NodeInv /\ m \in Net /\ m.to = n
    BY DEF Takes, Taking
  <1>2. Last > 0 /\ Last \in Nat /\ \A e \in SL : Applied(e) \in Nat
    BY <1>1, InFlightFacts, NodeFacts DEF NodeTypes
  <1>3. s0 \in SL => Head(chan[s0][n]) = m
    BY Places DEF Takes
  <1>4. PICK voter : Flow(n, s0, voter) /\ (voter => Voting(n, m, c, q)) /\ voter \in BOOLEAN
    BY TakesFlow
  <1>5. OldAt(chan[s][d], chan'[s][d], Shift(s, d, n, s0), j)
           \/ NewAt(chan[s][d], chan'[s][d], Shift(s, d, n, s0), j, s, n, voter)
    BY <1>4 DEF Flow, FlowOn
  <1>6. Last' = Last
    <2>1. CASE OldAt(chan[s][d], chan'[s][d], Shift(s, d, n, s0), j)
      <3>1. PICK i \in 1..Len(chan[s][d]) : chan[s][d][i] = chan'[s][d][j]
        BY <2>1 DEF OldAt
      <3>2. chan[s][d][i].seq = Last
        BY <1>1, <3>1, PartialCommitsAre DEF PartialCommitsNow
      <3>3. chan'[s][d][j].seq = Last'
        BY PartialCommitsWere DEF PartialCommitsNow
      <3> QED
        BY <3>1, <3>2, <3>3
    <2>2. CASE NewAt(chan[s][d], chan'[s][d], Shift(s, d, n, s0), j, s, n, voter)
      BY <1>4, <2>2 DEF NewAt, Voting, Last
    <2> QED
      BY <1>5, <2>1, <2>2
  <1>7. Last > 1 /\ s = Collector(Last - 1)
    <2>1. Last - 1 \in 1..Last
      BY <1>2, <1>6
    <2>2. PICK k : k = Last - 1 /\ k = Last' - 1
      BY <1>6
    <2>3. Collector(k)' = Collector(k)
      BY <2>1, <2>2 DEF LogLater
    <2>4. s = Collector(k)'
      BY <2>2 DEF Collector
    <2> QED
      BY <1>6, <2>2, <2>3, <2>4
  <1>8. Applied(d) < Last - 1 /\ (d = n /\ Applying(n, m, c, q) => Applied(d) + 1 < Last - 1)
    <2>1. CASE Applying(n, m, c, q)
      <3>1. Applies(n)
        BY <1>1, <1>2, <2>1, ApplyingVotes
      <3>2. Applied(d)' = Applied(d) \/ (d = n /\ Applied(d)' = Applied(d) + 1)
        BY <3>1 DEF Applies, VotesOf
      <3>3. d = n => Applied(d)' = Applied(d) + 1
        BY <3>1 DEF Applies
      <3> QED
        BY <1>2, <1>6, <3>2, <3>3
    <2>2. CASE ~Applying(n, m, c, q)
      <3>1. delivered' = delivered
        BY <2>2, TakesFlow DEF Voting, Juggles, Counting, CountingLast, SameVotes
      <3> QED
        BY <1>6, <2>2, <3>1 DEF Applied
    <2> QED
      BY <2>1, <2>2
  <1>9. CASE OldAt(chan[s][d], chan'[s][d], Shift(s, d, n, s0), j)
    <2>1. ASSUME s = s0, d = n, Head(chan[s][d]) = FullCommit(Last - 1, d) PROVE FALSE
      <3>1. m = FullCommit(Last - 1, n) /\ m.type = "FULL_COMMIT"
        BY <1>3, <2>1 DEF FullCommit
      <3>2. Applying(n, m, c, q)
        BY <3>1, TakesFlow DEF Voting, Juggles, Counting, CountingLast
      <3>3. Votes(n) = Last - 1
        BY <3>1, <3>2 DEF Applying, FullCommit
      <3>4. Applied(n) + 1 = Last - 1
        BY <3>2, <3>3 DEF Applying, Votes
      <3> QED
        BY <1>2, <1>8, <2>1, <3>2, <3>4
    <2> QED
      BY <1>1, <1>4, <1>6, <1>7, <1>8, <1>9, <2>1, FirstOld
  <1>10. CASE NewAt(chan[s][d], chan'[s][d], Shift(s, d, n, s0), j, s, n, voter)
    <2>1. s = n /\ voter = TRUE
      BY <1>4, <1>10 DEF NewAt
    <2>2. Voting(n, m, c, q) /\ Flow(n, s0, TRUE)
      BY <1>4, <2>1
    <2>3. NewAt(chan[n][d], chan'[n][d], Shift(n, d, n, s0), j, n, n, TRUE)
      BY <1>10, <2>1
    <2> QED
      BY <1>1, <1>6, <1>7, <1>8, <2>1, <2>2, <2>3, FirstNew
  <1> QED
    BY <1>5, <1>9, <1>10

(* Any other step.                                                            *)
LEMMA FirstOthers ==
    ASSUME NodeInv, Others, LogLater, NodeInv', FullCommitFirst, NEW s \in SL, NEW d \in SL, NEW j
    PROVE  FirstGoal(s, d, j)'
  <1> SUFFICES ASSUME j \in 1..Len(chan'[s][d]), chan'[s][d][j].type = "PARTIAL_COMMIT",
                      Last' > 1, s = Collector(Last - 1)', Applied(d)' < Last' - 1
               PROVE  \E i \in 1..(j - 1) : chan'[s][d][i] = FullCommit(Last' - 1, d)
    BY DEF FirstGoal, FullCommit
  <1>1. Flow(Leader, N, FALSE) /\ Leader \in SL /\ s # N
    BY OthersFlow, LeaderInSL, Places
  <1>2. OldAt(chan[s][d], chan'[s][d], Shift(s, d, Leader, N), j)
    BY <1>1 DEF Flow, FlowOn, NewAt
  <1>3. Last' = Last /\ Last \in Nat
    <2>1. PICK i \in 1..Len(chan[s][d]) : chan[s][d][i] = chan'[s][d][j]
      BY <1>2 DEF OldAt
    <2>2. chan[s][d][i].seq = Last
      BY <2>1, PartialCommitsAre DEF PartialCommitsNow
    <2>3. chan'[s][d][j].seq = Last'
      BY PartialCommitsWere DEF PartialCommitsNow
    <2> QED
      BY <2>1, <2>2, <2>3, NodeFacts DEF NodeTypes
  <1>4. Last > 1 /\ s = Collector(Last - 1)
    <2>1. Last - 1 \in 1..Last
      BY <1>3
    <2>2. PICK k : k = Last - 1 /\ k = Last' - 1
      BY <1>3
    <2>3. Collector(k)' = Collector(k)
      BY <2>1, <2>2 DEF LogLater
    <2>4. s = Collector(k)'
      BY <2>2 DEF Collector
    <2> QED
      BY <1>3, <2>2, <2>3, <2>4
  <1>5. Applied(d) < Last - 1
    BY <1>3 DEF Others, SameVotes, Applied
  <1> QED
    BY <1>1, <1>2, <1>3, <1>4, <1>5, FirstOld

(* FullCommitFirst is kept.                                                   *)
LEMMA FirstNext ==
    ASSUME NodeInv, LogLater, NodeInv', FullCommitComing, FullCommitFirst,
           Others \/ \E n \in SL : Dispatched(n)
    PROVE  FullCommitFirst'
  <1>1. ASSUME NEW s \in SL, NEW d \in SL, NEW j PROVE FirstGoal(s, d, j)'
    <2>1. CASE Others
      BY <2>1, FirstOthers
    <2>2. CASE \E n \in SL : Dispatched(n)
      <3>1. PICK n \in SL : Dispatched(n)
        BY <2>2
      <3>2. PICK m, c, q, s0 : Takes(n, m, c, q, s0)
        BY <3>1, DispatchedTakes
      <3> QED
        BY <3>2, FirstDispatched
    <2> QED
      BY <2>1, <2>2
  <1> QED
    BY <1>1, FirstGoals

-----------------------------------------------------------------------------
(* The juggle queue of an SL that takes no message.                           *)
LEMMA CollectorBefore ==
    ASSUME LogLater, Last' = Last, Last > 1
    PROVE  Collector(Last - 1)' = Collector(Last - 1)
  <1>1. Last - 1 \in 1..Last
    BY DEF LogLater
  <1>2. PICK k : k = Last - 1 /\ k = Last' - 1
    OBVIOUS
  <1>3. Collector(k)' = Collector(k)
    BY <1>1, <1>2 DEF LogLater
  <1>4. Collector(Last - 1)' = Collector(k)'
    BY <1>2 DEF Collector
  <1> QED
    BY <1>2, <1>3, <1>4

(* A message of the SL to itself is still there.                              *)
LEMMA OwnChannelStays ==
    ASSUME NodeInv, NEW n \in SL, NEW s0, NEW voter, Flow(n, s0, voter), NEW e \in SL,
           Shift(e, e, n, s0) = 0, chan[e][e] # <<>>
    PROVE  chan'[e][e] # <<>>
  <1>1. chan[e][e] \in Seq(Message)
    BY DEF NodeInv, QueuesOK
  <1>2. 1 \in 1..Len(chan[e][e]) /\ 1 > 0 /\ 1 - 0 = 1
    BY <1>1
  <1>3. FlowOn(chan[e][e], chan'[e][e], 0, e, n, voter)
    BY DEF Flow
  <1>4. 1 \in 1..Len(chan'[e][e])
    BY <1>2, <1>3 DEF FlowOn
  <1>5. Len(<<>>) = 0
    OBVIOUS
  <1> QED
    BY <1>4, <1>5

(* What is juggled stays in order.                                            *)
LEMMA JuggleOther ==
    ASSUME NodeInv, NodeInv', LogLater, NEW e \in SL, JuggleOK(e), VotesOf(e),
           state'[e] \in Idle <=> state[e] \in Idle,
           juggleQueue'[e] = juggleQueue[e],
           pass'[e] = pass[e] \/ pass'[e] = Len(juggleQueue[e]),
           NEW n \in SL, NEW s0, NEW voter, Flow(n, s0, voter), Shift(e, e, n, s0) = 0
    PROVE  JuggleOK(e)'
  <1> DEFINE j == juggleQueue[e]
  <1>1. j \in Seq(Message)
    BY DEF NodeInv, QueuesOK
  <1>2. ASSUME NEW i \in 1..Len(j)
        PROVE  /\ j[i].type # "FULL_COMMIT"
               /\ j[i].type = "PREPREPARE" => JuggledPreprepare(e, i)'
               /\ j[i].type = "PARTIAL_COMMIT" => JuggledPartialCommit(e, i, j[i])'
    <2>1. /\ j[i].type # "FULL_COMMIT"
          /\ j[i].type = "PREPREPARE" => JuggledPreprepare(e, i)
          /\ j[i].type = "PARTIAL_COMMIT" => JuggledPartialCommit(e, i, j[i])
      BY DEF JuggleOK
    <2>2. i <= Len(j)
      BY <1>1
    <2>3. i <= pass[e] => i <= pass'[e]
      BY <2>2
    <2>4. ASSUME j[i].type = "PREPREPARE" PROVE JuggledPreprepare(e, i)'
      BY <2>1, <2>3, <2>4 DEF JuggledPreprepare, Leader, LogLater
    <2>5. ASSUME j[i].type = "PARTIAL_COMMIT" PROVE JuggledPartialCommit(e, i, j[i])'
      <3>1. JuggledPartialCommit(e, i, j[i])
        BY <2>1, <2>5
      <3>2. Last' = Last
        <4>1. j[i].seq = Last
          BY <2>5, PartialCommitsAre DEF PartialCommitsNow
        <4>2. juggleQueue'[e][i].seq = Last'
          BY <2>5, PartialCommitsWere DEF PartialCommitsNow
        <4> QED
          BY <4>1, <4>2
      <3>3. chan[e][e] # <<>> => chan'[e][e] # <<>>
        BY OwnChannelStays
      <3>4. Last > 1 => Collector(Last - 1)' = Collector(Last - 1)
        BY <3>2, CollectorBefore
      <3>5. Votes(e)' = Votes(e) /\ Applied(e)' = Applied(e)
        BY DEF VotesOf
      <3>6. NoPreprepare(juggleQueue[e]) => NoPreprepare(juggleQueue[e])'
        BY DEF NoPreprepare
      <3> QED
        BY <2>3, <3>1, <3>2, <3>3, <3>4, <3>5, <3>6 DEF JuggledPartialCommit
    <2> QED
      BY <2>1, <2>4, <2>5
  <1> QED
    BY <1>2 DEF JuggleOK

-----------------------------------------------------------------------------
(* The juggle queue of the SL that takes a message: what was in it, moved     *)
(* forward if the message comes from it, and the message if it is juggled.    *)
Moved(n, s0) == IF s0 = N THEN 1 ELSE 0

OldJuggled(n, u, i) ==
    i + u \in 1..Len(juggleQueue[n]) /\ juggleQueue'[n][i] = juggleQueue[n][i + u]

(* Every message in the queue after the step is one of these.                 *)
LEMMA QueueMoves ==
    ASSUME NEW n \in SL, NEW m, NEW c, NEW q, NEW s0, Takes(n, m, c, q, s0),
           NEW i \in 1..Len(juggleQueue'[n])
    PROVE  \/ OldJuggled(n, Moved(n, s0), i)
           \/ juggleQueue'[n][i] = m /\ Juggles(n, m, c, q)
  <1> DEFINE j == juggleQueue[n]
  <1>1. j \in Seq(Message) /\ m \in Message
    BY MessageTypes DEF Takes, Taking, NodeInv, QueuesOK
  <1>2. /\ q \in Seq(Message)
        /\ \A k \in 1..Len(q) : k + Moved(n, s0) \in 1..Len(j) /\ q[k] = j[k + Moved(n, s0)]
    <2>1. CASE s0 = N
      <3>1. j # <<>> /\ q = Tail(j) /\ Moved(n, s0) = 1
        BY <2>1, Places DEF Takes, Moved
      <3>2. Len(j) \in Nat /\ Len(j) > 0
        BY <1>1, <3>1
      <3>3. q \in Seq(Message) /\ Len(q) = Len(j) - 1 /\ \A k \in 1..Len(q) : q[k] = j[k + 1]
        BY <1>1, <3>1, <3>2
      <3> QED
        BY <3>1, <3>2, <3>3
    <2>2. CASE s0 # N
      <3>1. q = j /\ Moved(n, s0) = 0
        BY <2>2 DEF Takes, Moved
      <3>2. \A k \in 1..Len(j) : k + 0 = k
        BY <1>1
      <3> QED
        BY <1>1, <3>1, <3>2
    <2> QED
      BY <2>1, <2>2
  <1>3. juggleQueue'[n] = q \/ (Juggles(n, m, c, q) /\ juggleQueue'[n] = Append(q, m))
    BY DEF Takes, Handles, Juggles, Voting, Counting, CountingLast, Applying
  <1>4. CASE juggleQueue'[n] = q
    BY <1>2, <1>4 DEF OldJuggled
  <1>5. CASE Juggles(n, m, c, q) /\ juggleQueue'[n] = Append(q, m)
    <2>1. Len(Append(q, m)) = Len(q) + 1 /\ Len(q) \in Nat
      BY <1>1, <1>2
    <2>2. CASE i = Len(q) + 1
      <3>1. Append(q, m)[Len(q) + 1] = m
        BY <1>1, <1>2
      <3> QED
        BY <1>5, <2>2, <3>1
    <2>3. CASE i # Len(q) + 1
      <3>1. i \in 1..Len(q)
        BY <1>5, <2>1, <2>3
      <3>2. Append(q, m)[i] = q[i]
        BY <1>1, <1>2, <3>1
      <3> QED
        BY <1>2, <1>5, <3>1, <3>2 DEF OldJuggled
    <2> QED
      BY <2>2, <2>3
  <1> QED
    BY <1>3, <1>4, <1>5

(* What the step does to the counts of votes.                                 *)
LEMMA TakesVotes ==
    ASSUME NEW n \in SL, NEW m, NEW c, NEW q, NEW s0, Takes(n, m, c, q, s0)
    PROVE  /\ Applied(n) \in Nat /\ Applied(n)' \in Nat /\ Applied(n)' >= Applied(n)
           /\ \A d \in SL \ {n} : VotesOf(d) /\ (state'[d] \in Idle <=> state[d] \in Idle)
           /\ Juggles(n, m, c, q) \/ Counting(n, m, c, q) \/ CountingLast(n, m, c, q) =>
                 VotesOf(n) /\ (state'[n] \in Idle <=> state[n] \in Idle)
  <1>1. NodeInv /\ m \in Net /\ m.to = n
    BY DEF Takes, Taking
  <1>2. Last > 0 /\ \A d \in SL : Applied(d) \in Nat
    BY <1>1, InFlightFacts, NodeFacts DEF NodeTypes
  <1>3. CASE Voting(n, m, c, q)
    <2>1. Voted(n) /\ \A d \in SL \ {n} : state'[d] = state[d]
      BY <1>1, <1>3, VotingVotes DEF Voting
    <2>2. ~(Juggles(n, m, c, q) \/ Counting(n, m, c, q) \/ CountingLast(n, m, c, q))
      BY <1>3 DEF Voting, Juggles, Counting, CountingLast
    <2> QED
      BY <1>2, <2>1, <2>2 DEF Voted
  <1>4. CASE Juggles(n, m, c, q) \/ Counting(n, m, c, q)
    <2>1. SameVotes
      BY <1>4 DEF Juggles, Counting
    <2>2. \A d \in SL : VotesOf(d) /\ (state'[d] \in Idle <=> state[d] \in Idle)
      BY <1>1, <1>2, <2>1, SameVotesStay DEF SameVotes
    <2> QED
      BY <1>2, <2>2 DEF VotesOf
  <1>5. CASE CountingLast(n, m, c, q)
    <2>1. \A d \in SL : VotesOf(d)
      BY <1>5, CountingLastVotes
    <2>2. \A d \in SL : state'[d] \in Idle <=> state[d] \in Idle
      BY <1>5 DEF CountingLast, Idle
    <2> QED
      BY <1>2, <2>1, <2>2 DEF VotesOf
  <1>6. CASE Applying(n, m, c, q)
    <2>1. Applies(n) /\ \A d \in SL \ {n} : state'[d] = state[d]
      BY <1>1, <1>2, <1>6, ApplyingVotes DEF Applying
    <2>2. ~(Juggles(n, m, c, q) \/ Counting(n, m, c, q) \/ CountingLast(n, m, c, q))
      BY <1>6 DEF Applying, Juggles, Counting, CountingLast, FullCommit
    <2> QED
      BY <1>2, <2>1, <2>2 DEF Applies
  <1> QED
    BY <1>3, <1>4, <1>5, <1>6, TakesFlow

(* A message tried again was the first of the queue.                          *)
LEMMA RetriedFirst ==
    ASSUME NEW n \in SL, NEW m, NEW c, NEW q, Takes(n, m, c, q, N)
    PROVE  1 \in 1..Len(juggleQueue[n]) /\ m = juggleQueue[n][1] /\ pass'[n] = pass[n] - 1
  <1>1. juggleQueue[n] \in Seq(Message)
    BY DEF Takes, Taking, NodeInv, QueuesOK
  <1>2. juggleQueue[n] # <<>> /\ m = Head(juggleQueue[n]) /\ pass'[n] = pass[n] - 1
    BY Places DEF Takes
  <1>3. Len(juggleQueue[n]) > 0 /\ Len(juggleQueue[n]) \in Nat
    BY <1>1, <1>2
  <1> QED
    BY <1>1, <1>2, <1>3

(* A message received is followed by a full pass.                             *)
LEMMA ReceivedPass ==
    ASSUME NEW n \in SL, NEW m, NEW c, NEW q, NEW s0, Takes(n, m, c, q, s0), s0 # N
    PROVE  pass[n] = 0 /\ pass'[n] = Len(juggleQueue'[n]) /\ s0 \in SL
           /\ chan[s0][n] # <<>> /\ m = Head(chan[s0][n])
  BY DEF Takes

(* A Preprepare in the juggle queue after the step.                           *)
LEMMA TakerPreprepare ==
    ASSUME NEW n \in SL, NEW m, NEW c, NEW q, NEW s0, Takes(n, m, c, q, s0), LogLater, NodeInv',
           JuggleOK(n), NEW i \in 1..Len(juggleQueue'[n])
    PROVE  /\ juggleQueue'[n][i].type # "FULL_COMMIT"
           /\ juggleQueue'[n][i].type = "PREPREPARE" => JuggledPreprepare(n, i)'
  <1>1. juggleQueue'[n] \in Seq(Message) /\ pass \in [SL -> Nat] /\ NodeInv
    BY DEF Takes, Taking, NodeInv, QueuesOK, PassOK
  <1>2. i \in Nat /\ i <= Len(juggleQueue'[n]) /\ pass[n] \in Nat
    BY <1>1
  <1>3. CASE OldJuggled(n, Moved(n, s0), i)
    <2>1. PICK k \in 1..Len(juggleQueue[n]) :
              k = i + Moved(n, s0) /\ juggleQueue'[n][i] = juggleQueue[n][k]
      BY <1>3 DEF OldJuggled
    <2>2. /\ juggleQueue'[n][i].type # "FULL_COMMIT"
          /\ juggleQueue'[n][i].type = "PREPREPARE" => JuggledPreprepare(n, k)
      BY <2>1 DEF JuggleOK
    <2>3. ASSUME juggleQueue'[n][i].type = "PREPREPARE", state'[n] \in Idle PROVE i <= pass'[n]
      <3>1. CASE s0 # N
        BY <1>2, <3>1, ReceivedPass
      <3>2. CASE s0 = N
        <4>1. m = juggleQueue[n][1] /\ 1 \in 1..Len(juggleQueue[n]) /\ pass'[n] = pass[n] - 1
          BY <3>2, RetriedFirst
        <4>2. m.type # "FULL_COMMIT"
          BY <4>1 DEF JuggleOK
        <4>3. state[n] \in Idle
          <5>1. ~Applying(n, m, c, q) /\ ~Voting(n, m, c, q)
            BY <2>3, <4>2 DEF Applying, FullCommit, Voting
          <5> QED
            BY <2>3, <5>1, TakesVotes, TakesFlow
        <4>4. k <= pass[n] /\ k = i + 1
          BY <2>1, <2>2, <2>3, <3>2, <4>3 DEF JuggledPreprepare, Moved
        <4> QED
          BY <1>2, <4>1, <4>4
      <3> QED
        BY <3>1, <3>2
    <2> QED
      BY <2>2, <2>3 DEF JuggledPreprepare, Leader, LogLater
  <1>4. CASE juggleQueue'[n][i] = m /\ Juggles(n, m, c, q)
    <2>1. m.type # "FULL_COMMIT" /\ (m.type = "PREPREPARE" => n # Leader /\ state[n] \notin Idle)
      BY <1>4 DEF Juggles
    <2>2. state'[n] \in Idle <=> state[n] \in Idle
      BY <1>4 DEF Juggles, SameVotes
    <2>3. m.type = "PREPREPARE" => Last > 1
      <3>1. m \in Net /\ m.to = n
        BY DEF Takes, Taking
      <3>2. m.type = "PREPREPARE" => Votes(n) + 1 = Last /\ Votes(n) = Applied(n) + 1
        BY <1>1, <2>1, <3>1, InFlightFacts DEF Votes
      <3> QED
        BY <1>1, <3>2, NodeFacts DEF NodeTypes
    <2> QED
      BY <1>4, <2>1, <2>2, <2>3 DEF JuggledPreprepare, Leader, LogLater
  <1> QED
    BY <1>3, <1>4, QueueMoves

(* A PartialCommit in the juggle queue after the step: no instance has begun. *)
LEMMA TakerLast ==
    ASSUME NEW n \in SL, NEW m, NEW c, NEW q, NEW s0, Takes(n, m, c, q, s0), NodeInv',
           NEW i \in 1..Len(juggleQueue'[n]), juggleQueue'[n][i].type = "PARTIAL_COMMIT"
    PROVE  Last' = Last /\ Last \in Nat
  <1>1. NodeInv /\ m \in Net
    BY DEF Takes, Taking
  <1>2. juggleQueue'[n][i].seq = Last'
    BY PartialCommitsWere DEF PartialCommitsNow
  <1>3. juggleQueue'[n][i].seq = Last
    <2>1. CASE OldJuggled(n, Moved(n, s0), i)
      <3>1. PICK k \in 1..Len(juggleQueue[n]) : juggleQueue'[n][i] = juggleQueue[n][k]
        BY <2>1 DEF OldJuggled
      <3> QED
        BY <1>1, <3>1, PartialCommitsAre DEF PartialCommitsNow
    <2>2. CASE juggleQueue'[n][i] = m
      BY <1>1, <2>2, InFlightFacts
    <2> QED
      BY <2>1, <2>2, QueueMoves
  <1>4. Last \in Nat
    BY <1>1, NodeFacts DEF NodeTypes
  <1> QED
    BY <1>2, <1>3, <1>4

(* Its sender is another SL, and it is tried again or the SL's own is coming. *)
LEMMA TakerTriesAgain ==
    ASSUME NEW n \in SL, NEW m, NEW c, NEW q, NEW s0, Takes(n, m, c, q, s0), NodeInv', JuggleOK(n),
           NEW i \in 1..Len(juggleQueue'[n]), juggleQueue'[n][i].type = "PARTIAL_COMMIT"
    PROVE  /\ juggleQueue'[n][i].sender # n
           /\ Votes(n)' = Last' => i <= pass'[n] \/ chan'[n][n] # <<>>
  <1>1. juggleQueue'[n] \in Seq(Message) /\ pass \in [SL -> Nat] /\ NodeInv /\ m \in Net /\ m.to = n
    BY DEF Takes, Taking, NodeInv, QueuesOK, PassOK
  <1>2. i \in Nat /\ i <= Len(juggleQueue'[n]) /\ pass[n] \in Nat
    BY <1>1
  <1>3. Last' = Last /\ Last \in Nat /\ Votes(n) \in Nat
    BY <1>1, TakerLast, NodeFacts DEF NodeTypes
  <1>4. CASE OldJuggled(n, Moved(n, s0), i)
    <2>1. PICK k \in 1..Len(juggleQueue[n]) :
              k = i + Moved(n, s0) /\ juggleQueue'[n][i] = juggleQueue[n][k]
      BY <1>4 DEF OldJuggled
    <2>2. JuggledPartialCommit(n, k, juggleQueue[n][k])
      BY <2>1 DEF JuggleOK
    <2>3. juggleQueue'[n][i].sender # n
      BY <2>1, <2>2 DEF JuggledPartialCommit
    <2>4. ASSUME Votes(n)' = Last' PROVE i <= pass'[n] \/ chan'[n][n] # <<>>
      <3>1. CASE s0 # N
        BY <1>2, <3>1, ReceivedPass
      <3>2. CASE s0 = N
        <4>1. m = juggleQueue[n][1] /\ 1 \in 1..Len(juggleQueue[n]) /\ pass'[n] = pass[n] - 1
          BY <3>2, RetriedFirst
        <4>2. m.type # "FULL_COMMIT"
          BY <4>1 DEF JuggleOK
        <4>3. ~Applying(n, m, c, q)
          BY <4>2 DEF Applying, FullCommit
        <4>4. CASE Voting(n, m, c, q)
          <5>1. juggleQueue[n][k] \in Net /\ juggleQueue[n][k].to = n
            BY <1>1, InQueues
          <5>2. Collector(Last) = n
            BY <1>1, <2>1, <5>1, InFlightFacts DEF Collector
          <5> QED
            BY <4>3, <4>4, <5>2, TakesFlow DEF Voting, Juggles, Counting, CountingLast
        <4>5. CASE ~Voting(n, m, c, q)
          <5>1. VotesOf(n) /\ Flow(n, s0, FALSE)
            BY <4>3, <4>5, TakesVotes, TakesFlow
          <5>2. Votes(n) = Last
            BY <1>3, <2>4, <5>1 DEF VotesOf
          <5>3. k <= pass[n] \/ chan[n][n] # <<>>
            BY <2>2, <5>2 DEF JuggledPartialCommit
          <5>4. Shift(n, n, n, s0) = 0
            BY <3>2, Places DEF Shift
          <5>5. chan[n][n] # <<>> => chan'[n][n] # <<>>
            BY <1>1, <5>1, <5>4, OwnChannelStays
          <5>6. k = i + 1
            BY <2>1, <3>2 DEF Moved
          <5> QED
            BY <1>2, <4>1, <5>3, <5>5, <5>6
        <4> QED
          BY <4>4, <4>5
      <3> QED
        BY <3>1, <3>2
    <2> QED
      BY <2>3, <2>4
  <1>5. CASE juggleQueue'[n][i] = m /\ Juggles(n, m, c, q)
    <2>1. Votes(n) < Last /\ Votes(n)' = Votes(n)
      BY <1>5, TakesVotes DEF Juggles, VotesOf
    <2>2. Votes(m.sender) = Last
      BY <1>1, <1>5, InFlightFacts
    <2>3. m.sender # n
      BY <1>3, <2>1, <2>2
    <2> QED
      BY <1>3, <1>5, <2>1, <2>3
  <1> QED
    BY <1>4, <1>5, QueueMoves

(* If it is of the last collector, the entry before the last is applied.      *)
LEMMA TakerCollector ==
    ASSUME NEW n \in SL, NEW m, NEW c, NEW q, NEW s0, Takes(n, m, c, q, s0), NodeInv', JuggleOK(n),
           Senders, FullCommitFirst,
           NEW i \in 1..Len(juggleQueue'[n]), juggleQueue'[n][i].type = "PARTIAL_COMMIT",
           Last > 1, juggleQueue'[n][i].sender = Collector(Last - 1)
    PROVE  Applied(n)' >= Last - 1 /\ NoPreprepare(juggleQueue'[n])
  <1>1. pass \in [SL -> Nat] /\ NodeInv /\ m \in Net /\ m.to = n
    BY DEF Takes, Taking, NodeInv, PassOK
  <1>2. /\ Last \in Nat /\ Applied(n) \in Nat /\ Applied(n)' \in Nat /\ Applied(n)' >= Applied(n)
        /\ Votes(n) <= Last
    BY <1>1, TakesVotes, NodeFacts DEF NodeTypes, Positions
  <1>3. Applied(n) >= Last - 1 /\ NoPreprepare(juggleQueue[n])
    <2>1. CASE \E k \in 1..Len(juggleQueue[n]) : juggleQueue'[n][i] = juggleQueue[n][k]
      <3>1. PICK k \in 1..Len(juggleQueue[n]) : juggleQueue'[n][i] = juggleQueue[n][k]
        BY <2>1
      <3>2. JuggledPartialCommit(n, k, juggleQueue[n][k])
        BY <3>1 DEF JuggleOK
      <3> QED
        BY <3>1, <3>2 DEF JuggledPartialCommit
    <2>2. CASE juggleQueue'[n][i] = m /\ Juggles(n, m, c, q) /\ s0 # N
      <3>1. pass[n] = 0 /\ s0 \in SL /\ chan[s0][n] # <<>> /\ m = Head(chan[s0][n])
        BY <2>2, ReceivedPass
      <3>2. chan[s0][n] \in Seq(Message)
        BY <1>1, <3>1 DEF NodeInv, QueuesOK
      <3>3. 1 \in 1..Len(chan[s0][n]) /\ m = chan[s0][n][1]
        BY <3>1, <3>2
      <3>4. s0 = Collector(Last - 1)
        BY <2>2, <3>1, <3>3 DEF Senders
      <3>5. ~ \E l \in 1..(1 - 1) : TRUE
        OBVIOUS
      <3>6. ~(Applied(n) < Last - 1)
        BY <2>2, <3>1, <3>3, <3>4, <3>5 DEF FullCommitFirst
      <3>7. Votes(n) < Last
        BY <2>2 DEF Juggles
      <3>8. state[n] \in Idle
        BY <1>2, <3>6, <3>7 DEF Votes
      <3>9. ASSUME NEW k \in 1..Len(juggleQueue[n]), juggleQueue[n][k].type = "PREPREPARE"
            PROVE  FALSE
        <4>1. k <= pass[n]
          BY <3>8, <3>9 DEF JuggleOK, JuggledPreprepare
        <4> QED
          BY <3>1, <4>1
      <3> QED
        BY <1>2, <3>6, <3>9 DEF NoPreprepare
    <2>3. CASE juggleQueue'[n][i] = m /\ s0 = N
      BY <2>1, <2>3, RetriedFirst
    <2> QED
      BY <2>1, <2>2, <2>3, QueueMoves DEF OldJuggled
  <1>4. ASSUME NEW l \in 1..Len(juggleQueue'[n]), juggleQueue'[n][l].type = "PREPREPARE" PROVE FALSE
    <2>1. juggleQueue'[n][l] = m /\ Juggles(n, m, c, q)
      BY <1>3, <1>4, QueueMoves DEF OldJuggled, NoPreprepare
    <2>2. state[n] \notin Idle /\ m.type = "PREPREPARE"
      BY <1>4, <2>1 DEF Juggles
    <2>3. Votes(n) = Applied(n) + 1
      BY <2>2 DEF Votes
    <2>4. Votes(n) + 1 = Last
      BY <1>1, <2>2, InFlightFacts
    <2> QED
      BY <1>2, <1>3, <2>3, <2>4
  <1> QED
    BY <1>2, <1>3, <1>4 DEF NoPreprepare

(* The juggle queue of the taker stays in order.                              *)
LEMMA JuggleTaker ==
    ASSUME NEW n \in SL, NEW m, NEW c, NEW q, NEW s0, Takes(n, m, c, q, s0), LogLater, NodeInv',
           JuggleOK(n), Senders, FullCommitFirst
    PROVE  JuggleOK(n)'
  <1>1. ASSUME NEW i \in 1..Len(juggleQueue'[n]), juggleQueue'[n][i].type = "PARTIAL_COMMIT"
        PROVE  JuggledPartialCommit(n, i, juggleQueue[n][i])'
    <2>1. Last' = Last /\ Last \in Nat
      BY <1>1, TakerLast
    <2>2. Last > 1 => Collector(Last - 1)' = Collector(Last - 1)
      BY <2>1, CollectorBefore
    <2>3. /\ juggleQueue'[n][i].sender # n
          /\ Votes(n)' = Last' => i <= pass'[n] \/ chan'[n][n] # <<>>
      BY <1>1, TakerTriesAgain
    <2>4. ASSUME Last' > 1, juggleQueue'[n][i].sender = Collector(Last - 1)'
          PROVE  Applied(n)' >= Last' - 1 /\ NoPreprepare(juggleQueue[n])'
      <3>1. Applied(n)' >= Last - 1 /\ NoPreprepare(juggleQueue'[n])
        BY <1>1, <2>1, <2>2, <2>4, TakerCollector
      <3> QED
        BY <2>1, <3>1 DEF NoPreprepare
    <2> QED
      BY <2>3, <2>4 DEF JuggledPartialCommit
  <1> QED
    BY <1>1, TakerPreprepare DEF JuggleOK

-----------------------------------------------------------------------------
(* At first all queues are empty.                                             *)
LEMMA InitOrder == FirstSeq = 1 /\ Init => OrderInv
  <1> SUFFICES ASSUME FirstSeq = 1, Init PROVE OrderInv
    OBVIOUS
  <1>1. /\ \A s, d \in SL : chan[s][d] = <<>> /\ 1..Len(chan[s][d]) = {}
        /\ \A n \in SL : juggleQueue[n] = <<>> /\ 1..Len(juggleQueue[n]) = {} /\ state[n] \in Idle
        /\ Last = 0
    BY DEF Init, Idle, Last
  <1>2. Senders /\ FullCommitFirst
    BY <1>1 DEF Senders, FullCommitFirst
  <1>3. Rotates /\ FullCommitComing
    BY <1>1 DEF Rotates, FullCommitComing
  <1>4. \A n \in SL : JuggleOK(n)
    BY <1>1 DEF JuggleOK
  <1> QED
    BY <1>2, <1>3, <1>4 DEF OrderInv

(* The juggle queue of every SL stays in order, whatever the step.            *)
LEMMA JuggleNext ==
    ASSUME NodeInv, NodeInv', OrderInv, LogLater, Others \/ \E n \in SL : Dispatched(n), NEW e \in SL
    PROVE  JuggleOK(e)'
  <1>1. JuggleOK(e) /\ Senders /\ FullCommitFirst
    BY DEF OrderInv
  <1>2. CASE Others
    <2>1. Flow(Leader, N, FALSE) /\ Leader \in SL /\ Shift(e, e, Leader, N) = 0
      BY <1>2, OthersFlow, LeaderInSL, Places DEF Shift
    <2>2. delivered'[e] = delivered[e] /\ (state'[e] \in Idle <=> state[e] \in Idle)
      BY <1>2 DEF Others, SameVotes
    <2>3. VotesOf(e)
      BY <2>2, VotesStay
    <2>4. /\ juggleQueue'[e] = juggleQueue[e]
          /\ pass'[e] = pass[e] \/ pass'[e] = Len(juggleQueue[e])
      BY <1>2 DEF Others, Passes
    <2> QED
      BY <1>1, <2>1, <2>2, <2>3, <2>4, JuggleOther
  <1>3. CASE \E n \in SL : Dispatched(n)
    <2>1. PICK n \in SL : Dispatched(n)
      BY <1>3
    <2>2. PICK m, c, q, s0 : Takes(n, m, c, q, s0)
      BY <2>1, DispatchedTakes
    <2>3. CASE e = n
      BY <1>1, <2>2, <2>3, JuggleTaker
    <2>4. CASE e # n
      <3>1. PICK voter : Flow(n, s0, voter)
        BY <2>2, TakesFlow
      <3>2. Shift(e, e, n, s0) = 0
        BY <2>4 DEF Shift
      <3>3. VotesOf(e) /\ (state'[e] \in Idle <=> state[e] \in Idle)
        BY <2>2, <2>4, TakesVotes
      <3>4. juggleQueue'[e] = juggleQueue[e] /\ pass'[e] = pass[e]
        BY <2>2, <2>4 DEF Takes
      <3> QED
        BY <1>1, <3>1, <3>2, <3>3, <3>4, JuggleOther
    <2> QED
      BY <2>3, <2>4
  <1> QED
    BY <1>2, <1>3

(* Every step keeps the order.                                                *)
LEMMA NextOrder == NodeInv /\ NodeInv' /\ OrderInv /\ [Next]_vars /\ BelowWrap' => OrderInv'
  <1> SUFFICES ASSUME NodeInv, NodeInv', OrderInv, [Next]_vars, BelowWrap' PROVE OrderInv'
    OBVIOUS
  <1>1. Others \/ \E n \in SL : Dispatched(n)
    BY NextShape
  <1>2. LogLater
    BY <1>1, NextLogLater
  <1>3. Senders /\ Rotates /\ FullCommitComing /\ FullCommitFirst
    BY DEF OrderInv
  <1>4. Senders'
    <2>1. \E n, s0, voter : Flow(n, s0, voter)
      <3>1. CASE Others
        BY <3>1, OthersFlow
      <3>2. CASE \E n \in SL : Dispatched(n)
        <4>1. PICK n \in SL : Dispatched(n)
          BY <3>2
        <4>2. PICK m, c, q, s0 : Takes(n, m, c, q, s0)
          BY <4>1, DispatchedTakes
        <4> QED
          BY <4>2, TakesFlow
      <3> QED
        BY <1>1, <3>1, <3>2
    <2> QED
      BY <1>3, <2>1, FlowSenders
  <1>5. Rotates'
    BY <1>2, <1>3, RotatesKept
  <1>6. FullCommitComing'
    BY <1>1, <1>2, <1>3, ComingNext
  <1>7. FullCommitFirst'
    BY <1>1, <1>2, <1>3, FirstNext
  <1>8. ASSUME NEW e \in SL PROVE JuggleOK(e)'
    BY <1>1, <1>2, JuggleNext
  <1> QED
    BY <1>4, <1>5, <1>6, <1>7, <1>8 DEF OrderInv

(* The invariant of the queues, for every step below the wrap.                *)
LEMMA QueueInvariant == FirstSeq = 1 => (Spec /\ []BelowWrap => [](NodeInv /\ OrderInv))
  <1>1. ASSUME FirstSeq = 1 PROVE Spec /\ []BelowWrap => [](NodeInv /\ OrderInv)
    <2>1. Init => NodeInv /\ OrderInv
      BY <1>1, InitSimulates, InitOrder
    <2>2. NodeInv /\ OrderInv /\ [Next]_vars /\ BelowWrap' => (NodeInv /\ OrderInv)'
      BY NextNodeInv, NextOrder
    <2> QED
      BY <2>1, <2>2, PTL DEF Spec
  <1> QED
    BY <1>1

(* A message that its handler would now take is not left behind: below the    *)
(* wrap, another message is on its way to the SL that juggled it.             *)
NotStranded(n) == \A i \in 1..Len(juggleQueue[n]) :
    pass[n] = 0 /\ Acceptable(n, juggleQueue[n][i]) => \E s \in SL : chan[s][n] # <<>>

LEMMA OrderMeansNotStranded == NodeInv /\ OrderInv => \A n \in SL : NotStranded(n)
  <1> SUFFICES ASSUME NodeInv, OrderInv, NEW n \in SL, NEW i \in 1..Len(juggleQueue[n]),
                      pass[n] = 0, Acceptable(n, juggleQueue[n][i])
               PROVE  \E s \in SL : chan[s][n] # <<>>
    BY DEF NotStranded
  <1>1. juggleQueue[n][i] \in Net /\ juggleQueue[n][i].to = n
    BY InQueues
  <1>2. juggleQueue[n] \in Seq(Message)
    BY DEF NodeInv, QueuesOK
  <1>3. ~(i <= pass[n])
    BY <1>2
  <1>4. CASE juggleQueue[n][i].type = "PREPREPARE"
    <2>1. state[n] \in Idle
      BY <1>4 DEF Acceptable
    <2>2. JuggledPreprepare(n, i)
      BY <1>4 DEF OrderInv, JuggleOK
    <2> QED
      BY <1>3, <2>1, <2>2 DEF JuggledPreprepare
  <1>5. CASE juggleQueue[n][i].type = "PARTIAL_COMMIT"
    <2>1. state[n] \notin Idle /\ juggleQueue[n][i].seq <= round2_sequence[n]
      BY <1>5 DEF Acceptable
    <2>2. juggleQueue[n][i].seq = Last
      BY <1>1, <1>5, InFlightFacts
    <2>3. round2_sequence[n] = Votes(n) /\ Votes(n) <= Last /\ Votes(n) \in Nat /\ Last \in Nat
      BY <2>1, NodeFacts DEF Positions, NodeTypes
    <2>4. Votes(n) = Last
      BY <2>1, <2>2, <2>3
    <2>5. JuggledPartialCommit(n, i, juggleQueue[n][i])
      BY <1>5 DEF OrderInv, JuggleOK
    <2> QED
      BY <1>3, <2>4, <2>5 DEF JuggledPartialCommit
  <1> QED
    BY <1>4, <1>5 DEF Acceptable

-----------------------------------------------------------------------------
(* Whom an SL owes a place of its juggle queue to: the PartialCommit to its   *)
(* sender, the Preprepare to the collector of the instance before it, none    *)
(* of whose PartialCommits is there.                                          *)
OwedTo(n, m) ==
    IF m.type = "PARTIAL_COMMIT" THEN m.sender
    ELSE IF Collector(Last - 1) = n THEN Leader ELSE Collector(Last - 1)

(* A juggle queue holds no message twice.                                     *)
LEMMA OnceInJuggleQueue ==
    ASSUME NodeInv, NEW n \in SL, NEW i \in 1..Len(juggleQueue[n]), NEW k \in 1..Len(juggleQueue[n]),
           juggleQueue[n][i] = juggleQueue[n][k]
    PROVE  i = k
  <1>1. <<N, n>> \in Place /\ Queues[<<N, n>>] = juggleQueue[n]
    BY Places, QueuesAt DEF QueuesAre
  <1> QED
    BY <1>1 DEF NodeInv, QueuesOK, OnceIn

(* There is one Preprepare to an SL at a time.                                *)
LEMMA SamePreprepare ==
    ASSUME NodeInv, NEW a \in Net, NEW b \in Net, a.type = "PREPREPARE", b.type = "PREPREPARE",
           a.to = b.to
    PROVE  a = b
  <1>1. a.seq = Last /\ b.seq = Last /\ a.body = log[Last] /\ b.body = log[Last]
    BY InFlightFacts
  <1>2. a \in R2!Message /\ b \in R2!Message
    BY DEF NodeInv, R2!IInv, R2!TypeOK, Net
  <1>3. a \in R2!PreprepareMessage /\ b \in R2!PreprepareMessage
    BY <1>2 DEF R2!Message, R2!PartialCommitMessage, R2!FullCommitMessage
  <1> QED
    BY <1>1, <1>3 DEF R2!PreprepareMessage

(* In a group of two or more, collectors differ from one instance to the next. *)
LEMMA CollectorsDiffer ==
    ASSUME NodeInv, Rotates, Last > 1, NEW n \in SL, n # Leader
    PROVE  Collector(Last - 1) \in SL /\ (Collector(Last - 1) = n => Collector(Last) # n)
  <1>1. log \in Seq(R2!Preprepare) /\ Last \in Nat
    BY NodeFacts DEF NodeTypes
  <1>2. PICK k \in 1..Len(log) : k = Last - 1
    <2>1. Last - 1 \in 1..Last
      BY <1>1
    <2> QED
      BY <2>1 DEF Last
  <1>3. Collector(k) \in SL
    <2>1. log[k] \in R2!Preprepare
      BY <1>1, <1>2
    <2> QED
      BY <2>1 DEF Collector, R2!Preprepare, R2!SL, SL
  <1>4. n \in Int /\ NextOf(n) # n
    <2>1. N \in Nat /\ n \in 0..(N - 1) /\ n # 0
      BY NAssumption DEF SL, Leader
    <2> QED
      BY <2>1 DEF NextOf
  <1> QED
    BY <1>2, <1>3, <1>4 DEF Rotates

(* Two messages of a juggle queue are owed to different SLs.                  *)
LEMMA OwedOnce ==
    ASSUME NodeInv, OrderInv, NEW n \in SL, NEW i \in 1..Len(juggleQueue[n])
    PROVE  /\ OwedTo(n, juggleQueue[n][i]) \in SL \ {n}
           /\ \A k \in 1..Len(juggleQueue[n]) :
                 OwedTo(n, juggleQueue[n][i]) = OwedTo(n, juggleQueue[n][k]) => i = k
  <1> DEFINE j == juggleQueue[n]
  <1>1. \A k \in 1..Len(j) :
            /\ j[k] \in Net /\ j[k].to = n
            /\ j[k].type \in {"PREPREPARE", "PARTIAL_COMMIT"}
            /\ j[k].type = "PREPREPARE" => JuggledPreprepare(n, k)
            /\ j[k].type = "PARTIAL_COMMIT" => JuggledPartialCommit(n, k, j[k])
    BY InQueues, MessageTypes DEF OrderInv, JuggleOK
  <1>2. Rotates
    BY DEF OrderInv
  <1>3. ASSUME NEW k \in 1..Len(j), j[k].type = "PARTIAL_COMMIT"
        PROVE  /\ OwedTo(n, j[k]) = j[k].sender /\ j[k].sender \in SL \ {n}
               /\ Collector(Last) = n /\ j[k] = PartialCommit(Last, j[k].sender, n)
    <2>1. j[k].sender # n
      BY <1>1, <1>3 DEF JuggledPartialCommit
    <2>2. j[k].sender \in SL /\ j[k] = PartialCommit(j[k].seq, j[k].sender, j[k].to)
      BY <1>1, <1>3, MessageTypes
    <2>3. j[k].seq = Last /\ Collector(Last) = n
      BY <1>1, <1>3, InFlightFacts DEF Collector
    <2> QED
      BY <1>1, <1>3, <2>1, <2>2, <2>3 DEF OwedTo
  <1>4. ASSUME NEW k \in 1..Len(j), j[k].type = "PREPREPARE"
        PROVE  /\ n # Leader /\ Last > 1 /\ OwedTo(n, j[k]) \in SL \ {n}
               /\ OwedTo(n, j[k]) = Collector(Last - 1) \/ Collector(Last) # n
    <2>1. n # Leader /\ Last > 1
      BY <1>1, <1>4 DEF JuggledPreprepare
    <2>2. Collector(Last - 1) \in SL /\ (Collector(Last - 1) = n => Collector(Last) # n)
      BY <1>2, <2>1, CollectorsDiffer
    <2> QED
      BY <1>4, <2>1, <2>2, LeaderInSL DEF OwedTo
  <1>5. ASSUME NEW k \in 1..Len(j), NEW l \in 1..Len(j), j[k].type = "PREPREPARE",
               j[l].type = "PARTIAL_COMMIT", OwedTo(n, j[k]) = OwedTo(n, j[l])
        PROVE  FALSE
    <2>1. Collector(Last) = n /\ OwedTo(n, j[l]) = j[l].sender
      BY <1>3, <1>5
    <2>2. j[l].sender = Collector(Last - 1) /\ Last > 1
      BY <1>4, <1>5, <2>1
    <2>3. NoPreprepare(juggleQueue[n])
      BY <1>1, <1>5, <2>2 DEF JuggledPartialCommit
    <2> QED
      BY <1>5, <2>3 DEF NoPreprepare
  <1>6. OwedTo(n, j[i]) \in SL \ {n}
    BY <1>1, <1>3, <1>4
  <1>7. ASSUME NEW k \in 1..Len(j), OwedTo(n, j[i]) = OwedTo(n, j[k]) PROVE i = k
    <2>1. CASE j[i].type = "PARTIAL_COMMIT" /\ j[k].type = "PARTIAL_COMMIT"
      <3>1. j[i] = j[k]
        BY <1>3, <1>7, <2>1
      <3> QED
        BY <3>1, OnceInJuggleQueue
    <2>2. CASE j[i].type = "PREPREPARE" /\ j[k].type = "PREPREPARE"
      <3>1. j[i] = j[k]
        BY <1>1, <2>2, SamePreprepare
      <3> QED
        BY <3>1, OnceInJuggleQueue
    <2> QED
      BY <1>1, <1>5, <1>7, <2>1, <2>2
  <1> QED
    BY <1>6, <1>7

(* At most one place is owed to every other SL.                               *)
LEMMA OrderMeansBounded == NodeInv /\ OrderInv => \A n \in SL : Len(juggleQueue[n]) <= N - 1
  <1> SUFFICES ASSUME NodeInv, OrderInv, NEW n \in SL PROVE Len(juggleQueue[n]) <= N - 1
    OBVIOUS
  <1> DEFINE l == Len(juggleQueue[n])
             f == [i \in 1..l |-> OwedTo(n, juggleQueue[n][i])]
  <1>1. l \in Nat
    BY DEF NodeInv, QueuesOK
  <1>2. f \in Injection(1..l, SL \ {n})
    <2>1. \A i \in 1..l : OwedTo(n, juggleQueue[n][i]) \in SL \ {n}
      BY OwedOnce
    <2>2. f \in [1..l -> SL \ {n}]
      BY <2>1
    <2>3. \A i, k \in 1..l : f[i] = f[k] => i = k
      BY OwedOnce
    <2> QED
      BY <2>2, <2>3 DEF Injection, IsInjective
  <1>3. IsFiniteSet(SL) /\ Cardinality(SL) = N
    <2>1. N \in Nat \ {0} /\ 0 \in Int /\ N - 1 \in Int /\ ~(0 > N - 1) /\ (N - 1) - 0 + 1 = N
      BY NAssumption
    <2> QED
      BY <2>1, FS_Interval DEF SL
  <1>4. IsFiniteSet(SL \ {n}) /\ Cardinality(SL \ {n}) = N - 1
    BY <1>3, FS_RemoveElement
  <1>5. Cardinality(1..l) = l
    BY <1>1, FS_Interval
  <1> HIDE DEF f, l
  <1>6. Cardinality(1..l) <= Cardinality(SL \ {n})
    BY <1>2, <1>4, FS_Injection
  <1> QED
    BY <1>4, <1>5, <1>6 DEF l

(* Below the wrap, no assertion of the dispatcher trips, whatever is received *)
(* or tried again.                                                            *)
THEOREM NodeAssertions == FirstSeq = 1 => (Spec /\ []BelowWrap => []MessageSet!AssertionsHold)
  <1>1. ASSUME FirstSeq = 1 PROVE Spec /\ []BelowWrap => []MessageSet!AssertionsHold
    <2>1. Spec /\ []BelowWrap => [](NodeInv /\ OrderInv)
      BY <1>1, QueueInvariant
    <2>2. NodeInv => R2!AssertionsHold
      BY R2Assumptions, R2!IInvAssertions, R2!NAssumption, R2!MaxSeqAssumption DEF NodeInv
    <2>3. R2!AssertionsHold => MessageSet!AssertionsHold
      BY DEF R2!AssertionsHold, MessageSet!AssertionsHold, R2!Accepts, MessageSet!Accepts,
             R2!Counts, MessageSet!Counts, R2!Idle, MessageSet!Idle, R2!Leader, MessageSet!Leader
    <2> QED
      BY <2>1, <2>2, <2>3, PTL
  <1> QED
    BY <1>1

-----------------------------------------------------------------------------
(* The stages of a cycle.  Whatever is pushed finds every earlier stage of    *)
(* its cycle in the log.                                                      *)
Batch(c) == Work(FROM_CLIENT, c, 0)
Fetch(c, b) == Work(FETCHED_RESULT, c, b)
Connectivity(c) == Work(LOCAL_CONNECTIVITY, c, 0)

Proper == {Batch(c) : c \in Cycle} \cup {Fetch(c, b) : c \in Cycle, b \in Remote}
          \cup {Work(t, c, 0) : t \in {LOCAL_CONNECTIVITY, LOCAL_MEMBERSHIP, FULL_MEMBERSHIP},
                                c \in Cycle}

Logged(l, r) == \E i \in 1..Len(l) : l[i].request = r

Before(a, b) == a.cycle = b.cycle /\ a.requestType < b.requestType

Ready(l, r) == \A a \in Proper : Before(a, r) => Logged(l, a)

(* What is pushed, waits, and is in the log.                                  *)
PushedOK(P, W, l) ==
    /\ W \subseteq P
    /\ \A r \in P : r \in Proper /\ r.requestType # FROM_CLIENT /\ Ready(l, r)
    /\ \A r \in W : ~Logged(l, r)

LogOK(P, l, x) ==
    /\ l \in Seq(R2!Preprepare)
    /\ x \in Nat
    /\ \A i \in 1..Len(l) :
          \/ l[i].request \in P
          \/ \E c \in Cycle : l[i].request = Batch(c) /\ c < x
    /\ \A i, j \in 1..Len(l) : l[i].request = l[j].request => i = j
    /\ \A i, j \in 1..Len(l) : Before(l[i].request, l[j].request) => i < j

(* The groups whose results of cycle c the leader has committed, and their    *)
(* count.                                                                     *)
Arrived(l, k, c) == {b \in Remote : \E i \in 1..k : l[i].request = Fetch(c, b)}

FetchedOK(P, l, F, k) ==
    /\ k \in 0..Len(l)
    /\ F \in [Cycle -> Nat]
    /\ \A c \in Cycle : F[c] = Cardinality(Arrived(l, k, c))
    /\ \A c \in Cycle : Connectivity(c) \in P => F[c] >= NumRemote

StageOn(P, W, l, x, F, k) == PushedOK(P, W, l) /\ LogOK(P, l, x) /\ FetchedOK(P, l, F, k)

StageInv == StageOn(pushed, pending, log, leader_round2_next_rcanopus_cycle, fetched, Applied(Leader))

(* The requests, by their type.                                               *)
LEMMA ProperShape ==
    ASSUME NEW a \in Proper
    PROVE  /\ a.cycle \in Cycle /\ a.requestType \in {0, 1, 2, 4, 5}
           /\ a.requestType = 0 => a = Batch(a.cycle)
           /\ a.requestType = 1 => \E b \in Remote : a = Fetch(a.cycle, b)
           /\ a.requestType \in {2, 4, 5} => a = Work(a.requestType, a.cycle, 0)
  BY DEF Proper, Batch, Fetch, Work, FROM_CLIENT, FETCHED_RESULT, LOCAL_CONNECTIVITY,
         LOCAL_MEMBERSHIP, FULL_MEMBERSHIP

(* A batch.                                                                   *)
LEMMA BatchProper ==
    ASSUME NEW c \in Cycle
    PROVE  Batch(c) \in Proper /\ Batch(c).cycle = c /\ Batch(c).requestType = 0
  BY DEF Proper, Batch, Work, FROM_CLIENT

(* The result of a remote group.                                              *)
LEMMA FetchProper ==
    ASSUME NEW c \in Cycle, NEW b \in Remote
    PROVE  /\ Fetch(c, b) \in Proper /\ Fetch(c, b).cycle = c /\ Fetch(c, b).requestType = 1
           /\ \A e : Fetch(c, b) = Fetch(c, e) => b = e
  BY DEF Proper, Fetch, Work, FETCHED_RESULT

(* The other stages.                                                          *)
LEMMA WorkProper ==
    ASSUME NEW c \in Cycle, NEW t \in {2, 4, 5}
    PROVE  Work(t, c, 0) \in Proper /\ Work(t, c, 0).cycle = c /\ Work(t, c, 0).requestType = t
  BY DEF Proper, Work, LOCAL_CONNECTIVITY, LOCAL_MEMBERSHIP, FULL_MEMBERSHIP

(* A batch is the first stage of its cycle.                                   *)
LEMMA BatchReady ==
    ASSUME NEW l, NEW c \in Cycle
    PROVE  Ready(l, Batch(c))
  BY ProperShape, BatchProper DEF Ready, Before

(* Requests in the log are proper.                                            *)
LEMMA LoggedProper ==
    ASSUME NEW P, NEW W, NEW l, NEW x, PushedOK(P, W, l), LogOK(P, l, x), NEW i \in 1..Len(l)
    PROVE  /\ l[i].request \in Proper /\ Ready(l, l[i].request)
           /\ l[i].request.requestType # FROM_CLIENT => l[i].request \in P
  <1>1. CASE l[i].request \in P
    BY <1>1 DEF PushedOK
  <1>2. CASE \E c \in Cycle : l[i].request = Batch(c)
    BY <1>2, BatchReady, BatchProper DEF FROM_CLIENT
  <1> QED
    BY <1>1, <1>2 DEF LogOK

(* The log grows by a request that is not in it and has been pushed, or is    *)
(* the next batch.                                                            *)
LEMMA AppendFacts ==
    ASSUME NEW l \in Seq(R2!Preprepare), NEW p \in R2!Preprepare
    PROVE  /\ Append(l, p) \in Seq(R2!Preprepare) /\ Len(l) \in Nat
           /\ Len(Append(l, p)) = Len(l) + 1
           /\ \A i \in 1..Len(l) : i \in 1..Len(Append(l, p)) /\ Append(l, p)[i] = l[i]
           /\ Append(l, p)[Len(l) + 1] = p
           /\ \A i \in 1..Len(Append(l, p)) : i \in 1..Len(l) \/ i = Len(l) + 1
  OBVIOUS

(* What is in the log stays there.                                            *)
LEMMA LoggedAppend ==
    ASSUME NEW l \in Seq(R2!Preprepare), NEW p \in R2!Preprepare, NEW r
    PROVE  /\ Logged(Append(l, p), r) <=> Logged(l, r) \/ r = p.request
           /\ Ready(l, r) => Ready(Append(l, p), r)
  <1>1. \A a : Logged(Append(l, p), a) <=> Logged(l, a) \/ a = p.request
    <2> TAKE a
    <2>1. ASSUME Logged(Append(l, p), a) PROVE Logged(l, a) \/ a = p.request
      <3>1. PICK i \in 1..Len(Append(l, p)) : Append(l, p)[i].request = a
        BY <2>1 DEF Logged
      <3>2. i \in 1..Len(l) \/ i = Len(l) + 1
        BY AppendFacts
      <3> QED
        BY <3>1, <3>2, AppendFacts DEF Logged
    <2>2. ASSUME Logged(l, a) PROVE Logged(Append(l, p), a)
      BY <2>2, AppendFacts DEF Logged
    <2>3. ASSUME a = p.request PROVE Logged(Append(l, p), a)
      <3>1. Len(l) + 1 \in 1..Len(Append(l, p))
        BY AppendFacts
      <3> QED
        BY <2>3, <3>1, AppendFacts DEF Logged
    <2> QED
      BY <2>1, <2>2, <2>3
  <1> QED
    BY <1>1 DEF Ready

(* The stages stay in order when the log grows.                               *)
LEMMA StageAppend ==
    ASSUME NEW P, NEW W, NEW l, NEW x, NEW F, NEW k, StageOn(P, W, l, x, F, k),
           NEW p \in R2!Preprepare, NEW y \in Nat, y >= x,
           ~Logged(l, p.request),
           p.request \in P \/ (\E c \in Cycle : p.request = Batch(c) /\ c < y)
    PROVE  StageOn(P, W \ {p.request}, Append(l, p), y, F, k)
  <1> DEFINE r == p.request
             g == Append(l, p)
  <1>1. PushedOK(P, W, l) /\ LogOK(P, l, x) /\ FetchedOK(P, l, F, k)
    BY DEF StageOn
  <1>2. l \in Seq(R2!Preprepare)
    BY <1>1 DEF LogOK
  <1>3. PushedOK(P, W \ {r}, g)
    BY <1>1, <1>2, LoggedAppend DEF PushedOK
  <1>4. r \in Proper
    BY <1>1, BatchProper DEF PushedOK
  <1>5. LogOK(P, g, y)
    <2>1. g \in Seq(R2!Preprepare)
      BY <1>2, AppendFacts
    <2>2. \A i \in 1..Len(g) : (i \in 1..Len(l) /\ g[i] = l[i]) \/ (i = Len(l) + 1 /\ g[i] = p)
      <3>1. \A i \in 1..Len(g) : i \in 1..Len(l) \/ i = Len(l) + 1
        BY <1>2, AppendFacts
      <3>2. g[Len(l) + 1] = p /\ \A i \in 1..Len(l) : g[i] = l[i]
        BY <1>2, AppendFacts
      <3> HIDE DEF g
      <3>3. ASSUME NEW i \in 1..Len(g)
            PROVE  (i \in 1..Len(l) /\ g[i] = l[i]) \/ (i = Len(l) + 1 /\ g[i] = p)
        <4>1. CASE i \in 1..Len(l)
          BY <3>2, <4>1
        <4>2. CASE i = Len(l) + 1
          BY <3>2, <4>2
        <4> QED
          BY <3>1, <4>1, <4>2
      <3> QED
        BY <3>3
    <2> HIDE DEF g
    <2>3. ASSUME NEW i \in 1..Len(g)
          PROVE  g[i].request \in P \/ \E c \in Cycle : g[i].request = Batch(c) /\ c < y
      <3>1. CASE i \in 1..Len(l) /\ g[i] = l[i]
        <4>1. CASE l[i].request \in P
          BY <3>1, <4>1
        <4>2. CASE \E c \in Cycle : l[i].request = Batch(c) /\ c < x
          <5>1. PICK c \in Cycle : l[i].request = Batch(c) /\ c < x
            BY <4>2
          <5>2. c < y
            BY <1>1, <5>1 DEF LogOK, Cycle
          <5> QED
            BY <3>1, <5>1, <5>2
        <4> QED
          BY <1>1, <3>1, <4>1, <4>2 DEF LogOK
      <3>2. CASE g[i] = p
        BY <3>2
      <3> QED
        BY <2>2, <3>1, <3>2
    <2>4. ASSUME NEW i \in 1..Len(l) PROVE l[i].request # r
      BY DEF Logged
    <2>5. ASSUME NEW i \in 1..Len(g), NEW j \in 1..Len(g), g[i].request = g[j].request PROVE i = j
      BY <1>1, <2>2, <2>4, <2>5 DEF LogOK
    <2>6. ASSUME NEW i \in 1..Len(g), NEW j \in 1..Len(g), Before(g[i].request, g[j].request)
          PROVE  i < j
      <3>1. CASE i \in 1..Len(l) /\ g[i] = l[i] /\ j \in 1..Len(l) /\ g[j] = l[j]
        BY <1>1, <2>6, <3>1 DEF LogOK
      <3>2. CASE i \in 1..Len(l) /\ j = Len(l) + 1
        BY <1>2, <3>2
      <3>3. CASE g[i] = p /\ j \in 1..Len(l) /\ g[j] = l[j]
        <4>1. Ready(l, l[j].request)
          BY <1>1, <3>3, LoggedProper
        <4> QED
          BY <1>4, <2>6, <3>3, <4>1 DEF Ready
      <3>4. CASE g[i] = p /\ g[j] = p
        <4>1. r.requestType \in Int
          BY <1>4, ProperShape
        <4> QED
          BY <2>6, <3>4, <4>1 DEF Before
      <3> QED
        BY <2>2, <3>1, <3>2, <3>3, <3>4
    <2> QED
      BY <2>1, <2>3, <2>5, <2>6 DEF LogOK
  <1>6. FetchedOK(P, g, F, k)
    <2>1. k \in 0..Len(g) /\ \A i \in 1..k : g[i] = l[i]
      <3>1. k \in 0..Len(l) /\ Len(l) \in Nat /\ Len(g) = Len(l) + 1
        BY <1>1, <1>2, AppendFacts DEF FetchedOK
      <3>2. k \in 0..Len(g) /\ \A i \in 1..k : i \in 1..Len(l)
        BY <3>1
      <3> QED
        BY <1>2, <3>2, AppendFacts
    <2>2. \A c : Arrived(g, k, c) = Arrived(l, k, c)
      BY <2>1 DEF Arrived
    <2> QED
      BY <1>1, <2>1, <2>2 DEF FetchedOK
  <1> QED
    BY <1>3, <1>5, <1>6 DEF StageOn

(* The leader applies the next entry.                                         *)
Counted(F, r) == IF r.requestType = FETCHED_RESULT THEN [F EXCEPT ![r.cycle] = @ + 1] ELSE F

(* There are NumRemote remote groups.                                         *)
LEMMA RemoteFinite == IsFiniteSet(Remote) /\ Cardinality(Remote) = NumRemote
  <1>1. NumRemote \in Nat
    BY BoundsAssumption
  <1>2. NumRemote \in Int /\ 1 \in Int /\ (1 > NumRemote => NumRemote = 0) /\ NumRemote - 1 + 1 = NumRemote
    BY <1>1
  <1> QED
    BY <1>2, FS_Interval DEF Remote

(* When the count is complete, all of them have answered.                     *)
LEMMA ArrivedFinite ==
    ASSUME NEW l, NEW k, NEW c
    PROVE  /\ Arrived(l, k, c) \subseteq Remote /\ IsFiniteSet(Arrived(l, k, c))
           /\ Cardinality(Arrived(l, k, c)) <= NumRemote
           /\ Cardinality(Arrived(l, k, c)) = NumRemote => Arrived(l, k, c) = Remote
  <1>1. Arrived(l, k, c) \in SUBSET Remote
    BY DEF Arrived
  <1> QED
    BY <1>1, RemoteFinite, FS_Subset

(* The count follows the log.                                                 *)
LEMMA StageDeliver ==
    ASSUME NEW P, NEW W, NEW l, NEW x, NEW F, NEW k, StageOn(P, W, l, x, F, k),
           k + 1 \in 1..Len(l)
    PROVE  StageOn(P, W, l, x, Counted(F, l[k + 1].request), k + 1)
  <1> DEFINE r == l[k + 1].request
             G == Counted(F, r)
  <1>1. PushedOK(P, W, l) /\ LogOK(P, l, x) /\ FetchedOK(P, l, F, k)
    BY DEF StageOn
  <1>2. r \in Proper /\ F \in [Cycle -> Nat] /\ k \in Nat /\ k + 1 \in 0..Len(l)
    BY <1>1, LoggedProper DEF FetchedOK
  <1>3. r.cycle \in Cycle
    BY <1>2, ProperShape
  <1>4. \A i \in 1..(k + 1) : i \in 1..Len(l) /\ (i \in 1..k \/ i = k + 1)
    BY <1>2
  <1>5. \A i \in 1..k : i \in 1..(k + 1) /\ i # k + 1
    BY <1>2
  <1>6. k + 1 \in 1..(k + 1)
    BY <1>2
  <1>7. ASSUME NEW c \in Cycle
        PROVE  G[c] = Cardinality(Arrived(l, k + 1, c)) /\ G[c] \in Nat /\ G[c] >= F[c]
    <2>0. F[c] \in Nat /\ F[c] = Cardinality(Arrived(l, k, c))
      BY <1>1, <1>2 DEF FetchedOK
    <2>1. CASE r.requestType = FETCHED_RESULT /\ c = r.cycle
      <3>1. PICK b \in Remote : r = Fetch(c, b)
        BY <1>2, <2>1, ProperShape DEF FETCHED_RESULT
      <3>2. b \notin Arrived(l, k, c)
        <4>1. ASSUME NEW i \in 1..k, l[i].request = Fetch(c, b) PROVE FALSE
          <5>1. i \in 1..Len(l) /\ i # k + 1
            BY <1>4, <1>5
          <5> QED
            BY <1>1, <3>1, <4>1, <5>1 DEF LogOK
        <4> QED
          BY <4>1 DEF Arrived
      <3>3. Arrived(l, k + 1, c) = Arrived(l, k, c) \cup {b}
        <4>1. ASSUME NEW e \in Remote, NEW i \in 1..(k + 1), l[i].request = Fetch(c, e)
              PROVE  e \in Arrived(l, k, c) \cup {b}
          <5>1. CASE i \in 1..k
            BY <4>1, <5>1 DEF Arrived
          <5>2. CASE i = k + 1
            BY <3>1, <4>1, <5>2, FetchProper
          <5> QED
            BY <1>4, <5>1, <5>2
        <4>2. b \in Arrived(l, k + 1, c)
          BY <1>6, <3>1 DEF Arrived
        <4>3. Arrived(l, k, c) \subseteq Arrived(l, k + 1, c)
          BY <1>5 DEF Arrived
        <4>4. Arrived(l, k + 1, c) \subseteq Arrived(l, k, c) \cup {b}
          BY <4>1 DEF Arrived
        <4> QED
          BY <4>2, <4>3, <4>4
      <3>4. Cardinality(Arrived(l, k + 1, c)) = Cardinality(Arrived(l, k, c)) + 1
        BY <3>2, <3>3, ArrivedFinite, FS_AddElement
      <3>5. G[c] = F[c] + 1
        BY <1>2, <1>3, <2>1 DEF Counted
      <3> QED
        BY <2>0, <3>4, <3>5
    <2>2. CASE ~(r.requestType = FETCHED_RESULT /\ c = r.cycle)
      <3>1. G[c] = F[c]
        BY <1>2, <1>3, <2>2 DEF Counted
      <3>2. Arrived(l, k + 1, c) = Arrived(l, k, c)
        <4>1. ASSUME NEW e \in Remote, l[k + 1].request = Fetch(c, e) PROVE FALSE
          BY <2>2, <4>1, FetchProper DEF FETCHED_RESULT
        <4>2. \A e \in Remote : (\E i \in 1..(k + 1) : l[i].request = Fetch(c, e))
                                    <=> \E i \in 1..k : l[i].request = Fetch(c, e)
          BY <1>4, <1>5, <4>1
        <4> QED
          BY <4>2 DEF Arrived
      <3> QED
        BY <2>0, <3>1, <3>2
    <2> QED
      BY <2>1, <2>2
  <1>8. G \in [Cycle -> Nat]
    BY <1>2, <1>3 DEF Counted
  <1> HIDE DEF G
  <1>9. \A c \in Cycle : Connectivity(c) \in P => G[c] >= NumRemote
    <2> SUFFICES ASSUME NEW c \in Cycle, Connectivity(c) \in P PROVE G[c] >= NumRemote
      OBVIOUS
    <2>1. F[c] >= NumRemote /\ F[c] \in Nat /\ NumRemote \in Nat
      BY <1>1, <1>2, BoundsAssumption DEF FetchedOK
    <2> QED
      BY <1>7, <2>1
  <1>10. FetchedOK(P, l, G, k + 1)
    BY <1>2, <1>7, <1>8, <1>9 DEF FetchedOK
  <1> QED
    BY <1>1, <1>10 DEF StageOn, G

(* Work is pushed.                                                            *)
LEMMA StagePush ==
    ASSUME NEW P, NEW W, NEW l, NEW x, NEW F, NEW k, StageOn(P, W, l, x, F, k),
           NEW r \in Proper, r.requestType # FROM_CLIENT, r \notin P, Ready(l, r),
           \A c \in Cycle : r = Connectivity(c) => F[c] >= NumRemote
    PROVE  StageOn(P \cup {r}, W \cup {r}, l, x, F, k)
  <1>1. PushedOK(P, W, l) /\ LogOK(P, l, x) /\ FetchedOK(P, l, F, k)
    BY DEF StageOn
  <1>2. ~Logged(l, r)
    BY <1>1, LoggedProper DEF Logged
  <1>3. PushedOK(P \cup {r}, W \cup {r}, l)
    BY <1>1, <1>2 DEF PushedOK
  <1>4. LogOK(P \cup {r}, l, x)
    BY <1>1 DEF LogOK
  <1>5. FetchedOK(P \cup {r}, l, F, k)
    BY <1>1 DEF FetchedOK
  <1> QED
    BY <1>3, <1>4, <1>5 DEF StageOn

(* The connectivity, when the results of all groups have been applied.        *)
LEMMA ConnectivityPush ==
    ASSUME NEW P, NEW W, NEW l, NEW x, NEW F, NEW k, StageOn(P, W, l, x, F, k), NEW c \in Cycle,
           F[c] >= NumRemote, Connectivity(c) \notin P, Logged(l, Batch(c))
    PROVE  StageOn(P \cup {Connectivity(c)}, W \cup {Connectivity(c)}, l, x, F, k)
  <1>1. PushedOK(P, W, l) /\ LogOK(P, l, x) /\ FetchedOK(P, l, F, k)
    BY DEF StageOn
  <1>2. Arrived(l, k, c) = Remote
    <2>1. F[c] = Cardinality(Arrived(l, k, c)) /\ F[c] \in Nat /\ NumRemote \in Nat
      BY <1>1, BoundsAssumption DEF FetchedOK
    <2> QED
      BY <2>1, ArrivedFinite
  <1>3. \A b \in Remote : Logged(l, Fetch(c, b))
    <2>1. \A i \in 1..k : i \in 1..Len(l)
      BY <1>1 DEF FetchedOK, LogOK
    <2> QED
      BY <1>2, <2>1 DEF Arrived, Logged
  <1>4. /\ Connectivity(c) \in Proper /\ Connectivity(c).cycle = c
        /\ Connectivity(c).requestType = 2 /\ \A d : Connectivity(c) = Connectivity(d) => c = d
    BY WorkProper DEF Connectivity, LOCAL_CONNECTIVITY, Work
  <1>5. Ready(l, Connectivity(c))
    <2> SUFFICES ASSUME NEW a \in Proper, a.cycle = c, a.requestType < 2 PROVE Logged(l, a)
      BY <1>4 DEF Ready, Before
    <2>1. a.requestType = 0 \/ a.requestType = 1
      BY ProperShape
    <2> QED
      BY <1>3, <2>1, ProperShape
  <1> QED
    BY <1>4, <1>5, StagePush DEF FROM_CLIENT

(* The log is what the SLs deliver.                                           *)
LEMMA DeliveredIsLog ==
    ASSUME NodeInv, NEW n \in SL
    PROVE  /\ Applied(n) <= Len(log)
           /\ \A i \in 1..Applied(n) : i \in 1..Len(log) /\ delivered[n][i] = log[i]
  <1>1. R2!Agreement /\ R2!SL = SL
    BY DEF NodeInv, R2!IInv, R2!SL, SL
  <1>2. Applied(n) \in Nat /\ Len(log) \in Nat
    BY NodeFacts DEF NodeTypes, Last
  <1>3. Applied(n) <= Len(log) /\ \A i \in 1..Applied(n) : delivered[n][i] = log[i]
    BY <1>1 DEF R2!Agreement, Applied
  <1> QED
    BY <1>2, <1>3

(* What an SL has committed is in the log, after its earlier stages.          *)
LEMMA HasIsLogged ==
    ASSUME NodeInv, StageInv, NEW n \in SL, NEW t, NEW c, Has(n, t, c)
    PROVE  \E r \in Proper : /\ r.requestType = t /\ r.cycle = c /\ Logged(log, r) /\ Ready(log, r)
                             /\ t # FROM_CLIENT => r \in pushed
  <1>1. PICK i \in 1..Len(delivered[n]) :
            delivered[n][i].request.requestType = t /\ delivered[n][i].request.cycle = c
    BY DEF Has
  <1>2. i \in 1..Len(log) /\ delivered[n][i] = log[i]
    BY DeliveredIsLog DEF Applied
  <1>3. PushedOK(pushed, pending, log) /\ LogOK(pushed, log, leader_round2_next_rcanopus_cycle)
    BY DEF StageInv, StageOn
  <1>4. /\ log[i].request \in Proper /\ Ready(log, log[i].request)
        /\ log[i].request.requestType # FROM_CLIENT => log[i].request \in pushed
    BY <1>2, <1>3, LoggedProper
  <1> QED
    BY <1>1, <1>2, <1>4 DEF Logged

(* What can be in the log or wait is a request.                               *)
LEMMA ProperRequest == Proper \subseteq Request
  BY BoundsAssumption DEF Proper, Batch, Fetch, Work, Request, RequestType, Remote, FROM_CLIENT,
     FETCHED_RESULT, LOCAL_CONNECTIVITY, LOCAL_MEMBERSHIP, FULL_MEMBERSHIP

(* A Preprepare of it can be logged.                                          *)
LEMMA PreprepareOf ==
    ASSUME NEW r \in Request, NEW c \in SL
    PROVE  [request |-> r, collector_SLid |-> c] \in R2!Preprepare
  BY DEF R2!Preprepare, R2!SL, SL

(* The scheduler's step keeps the order of the stages.                        *)
LEMMA StageSpawn ==
    ASSUME NodeInv, NEW st, NEW from \in [SL -> 0..MaxCycle], NEW pend, NEW c,
           NEW P, NEW F, NEW k,
           StageOn(P, pend, log, leader_round2_next_rcanopus_cycle, F, k),
           SpawnRound2(st, from, pend, c)
    PROVE  StageOn(P, pending', log', leader_round2_next_rcanopus_cycle', F, k)
  <1> DEFINE x == leader_round2_next_rcanopus_cycle
  <1>1. PushedOK(P, pend, log) /\ LogOK(P, log, x)
    BY DEF StageOn
  <1>2. CASE canStartRound2(st, from, pend) /\ leader_round2_sendPreprepare(st, pend, c)
    <2>1. PICK r \in IF pend # {} THEN Top(pend) ELSE {NextBatch} :
            LET p == [request |-> r, collector_SLid |-> leader_collector_rr]
            IN  /\ pending' = pend \ {r}
                /\ x' = x + (IF pend # {} THEN 0 ELSE 1)
                /\ log' = Append(log, p)
      BY <1>2 DEF leader_round2_sendPreprepare
    <2> DEFINE p == [request |-> r, collector_SLid |-> leader_collector_rr]
    <2>2. p.request = r /\ log' = Append(log, p) /\ pending' = pend \ {p.request}
      BY <2>1
    <2> HIDE DEF p
    <2>3. ASSUME r \in Proper PROVE p \in R2!Preprepare
      <3>1. leader_collector_rr \in SL /\ r \in Request
        BY <2>3, NodeFacts, ProperRequest DEF NodeTypes
      <3> QED
        BY <3>1, PreprepareOf DEF p
    <2>4. CASE pend # {}
      <3>1. r \in pend /\ x' = x
        BY <1>1, <2>1, <2>4 DEF Top, LogOK
      <3>2. r \in P /\ r \in Proper /\ ~Logged(log, r) /\ x \in Nat /\ x >= x
        BY <1>1, <3>1 DEF PushedOK, LogOK
      <3>3. p \in R2!Preprepare
        BY <2>3, <3>2
      <3> QED
        BY <2>2, <3>1, <3>2, <3>3, StageAppend
    <2>5. CASE pend = {}
      <3>1. r = Batch(x) /\ x' = x + 1
        BY <2>1, <2>5 DEF NextBatch, Batch, Work
      <3>2. x \in Cycle
        <4>1. x = leader_batch_processed + 1 /\ leader_batch_processed \in 0..MaxCycle
          BY DEF NodeInv, SchedulerOK
        <4>2. from[Leader] > leader_batch_processed /\ from[Leader] \in 0..MaxCycle
          BY <1>2, <2>5, LeaderInSL DEF canStartRound2
        <4>3. MaxCycle \in Nat
          BY BoundsAssumption
        <4> QED
          BY <4>1, <4>2, <4>3 DEF Cycle
      <3>3. ~Logged(log, r)
        <4>1. ASSUME NEW i \in 1..Len(log), log[i].request = Batch(x) PROVE FALSE
          <5>1. Batch(x).requestType = FROM_CLIENT /\ Batch(x) \notin P
            BY <1>1, <3>2, BatchProper DEF PushedOK, FROM_CLIENT
          <5>2. PICK d \in Cycle : Batch(x) = Batch(d) /\ d < x
            BY <1>1, <4>1, <5>1 DEF LogOK
          <5>3. d = x
            BY <3>2, <5>2, BatchProper
          <5> QED
            BY <5>2, <5>3 DEF Cycle
        <4> QED
          BY <3>1, <4>1 DEF Logged
      <3>4. x \in Nat /\ x + 1 \in Nat /\ x + 1 >= x /\ x < x + 1
        BY <1>1 DEF LogOK
      <3>7. p \in R2!Preprepare
        BY <2>3, <3>1, <3>2, BatchProper
      <3> HIDE DEF x
      <3>5. \E d \in Cycle : r = Batch(d) /\ d < x + 1
        BY <3>1, <3>2, <3>4
      <3>6. StageOn(P, pend \ {p.request}, Append(log, p), x + 1, F, k)
        BY <2>2, <3>3, <3>4, <3>5, <3>7, StageAppend DEF x
      <3> QED
        BY <2>2, <3>1, <3>6 DEF x
    <2> QED
      BY <2>4, <2>5
  <1>3. CASE ~canStartRound2(st, from, pend)
    BY <1>3 DEF SpawnRound2, leader
  <1> QED
    BY <1>2, <1>3 DEF SpawnRound2

(* What the leader receives keeps the order, once its work does.              *)
LEMMA StageReceive ==
    ASSUME NodeInv, NEW from \in [SL -> 0..MaxCycle], NEW work, LeaderNotes(from, work),
           StageOn(pushed \cup work, pending \cup work, log, leader_round2_next_rcanopus_cycle,
                   fetched, Applied(Leader))
    PROVE  StageInv'
  <1>1. /\ SpawnRound2(state, from, pending \cup work, chan) /\ pushed' = pushed \cup work
        /\ fetched' = fetched /\ delivered' = delivered /\ rgLeader_batch_received_from' = from
    BY DEF LeaderNotes
  <1>3. StageOn(pushed \cup work, pending', log', leader_round2_next_rcanopus_cycle', fetched,
                Applied(Leader))
    BY <1>1, StageSpawn
  <1>4. Applied(Leader)' = Applied(Leader)
    BY <1>1 DEF Applied, Leader
  <1> QED
    BY <1>1, <1>3, <1>4 DEF StageInv

(* What the answers of Round 3 push comes after what they answer.             *)
LEMMA StageWork ==
    ASSUME NodeInv, StageInv, NEW r \in Proper, r.requestType \notin {FROM_CLIENT, LOCAL_CONNECTIVITY},
           r \notin pushed, Ready(log, r)
    PROVE  StageOn(pushed \cup {r}, pending \cup {r}, log, leader_round2_next_rcanopus_cycle, fetched,
                   Applied(Leader))
  <1>1. \A c \in Cycle : r # Connectivity(c)
    BY WorkProper DEF Connectivity, LOCAL_CONNECTIVITY
  <1> QED
    BY <1>1, StagePush DEF StageInv

(* A stage that comes right after another one that is in the log is ready.    *)
LEMMA ReadyAfter ==
    ASSUME NEW r \in Proper, NEW a \in Proper, a.cycle = r.cycle, Logged(log, a), Ready(log, a),
           \A b \in Proper : Before(b, r) => b = a \/ Before(b, a)
    PROVE  Ready(log, r)
  BY DEF Ready

(* The result of a remote group, after the batch.                             *)
LEMMA FetchStage ==
    ASSUME NodeInv, StageInv, NEW c \in Cycle, NEW b \in Remote, ReceiveFetchResponse(c, b)
    PROVE  StageInv'
  <1>1. PICK n \in SL : Has(n, FROM_CLIENT, c)
    BY DEF ReceiveFetchResponse
  <1>2. PICK a \in Proper : a.requestType = FROM_CLIENT /\ a.cycle = c /\ Logged(log, a) /\ Ready(log, a)
    BY <1>1, HasIsLogged
  <1>3. Fetch(c, b) \in Proper /\ Fetch(c, b).cycle = c /\ Fetch(c, b).requestType = 1
    BY FetchProper
  <1>4. Ready(log, Fetch(c, b))
    <2>1. ASSUME NEW d \in Proper, Before(d, Fetch(c, b)) PROVE d = a
      <3>1. d.requestType = 0 /\ d.cycle = c
        BY <1>3, <2>1, ProperShape DEF Before
      <3> QED
        BY <1>2, <3>1, ProperShape DEF FROM_CLIENT
    <2> QED
      BY <1>2, <2>1 DEF Ready
  <1>5. LeaderNotes(rgLeader_batch_received_from, {Fetch(c, b)}) /\ Fetch(c, b) \notin pushed
    BY DEF ReceiveFetchResponse, LeaderReceive, Fetch
  <1>6. Fetch(c, b).requestType \notin {FROM_CLIENT, LOCAL_CONNECTIVITY}
    BY <1>3 DEF FROM_CLIENT, LOCAL_CONNECTIVITY
  <1> QED
    BY <1>3, <1>4, <1>5, <1>6, StageWork, StageReceive DEF NodeInv, SchedulerOK

(* The membership, after the connectivity; the full one, after it.            *)
LEMMA MembershipStage ==
    ASSUME NodeInv, StageInv, NEW c \in Cycle, NEW t, NEW u,
           <<t, u>> \in {<<LOCAL_CONNECTIVITY, LOCAL_MEMBERSHIP>>, <<LOCAL_MEMBERSHIP, FULL_MEMBERSHIP>>},
           Has(Leader, t, c), Work(u, c, 0) \notin pushed,
           Notes({Work(u, c, 0)})
    PROVE  StageInv'
  <1>1. (t = 2 /\ u = 4) \/ (t = 4 /\ u = 5)
    BY DEF LOCAL_CONNECTIVITY, LOCAL_MEMBERSHIP, FULL_MEMBERSHIP
  <1>2. PICK a \in Proper : a.requestType = t /\ a.cycle = c /\ Logged(log, a) /\ Ready(log, a)
    BY LeaderInSL, HasIsLogged
  <1> DEFINE r == Work(u, c, 0)
  <1>3. r \in Proper /\ r.cycle = c /\ r.requestType = u
    BY <1>1, WorkProper
  <1> HIDE DEF r
  <1>4. ASSUME NEW d \in Proper, Before(d, r) PROVE d = a \/ Before(d, a)
    <2>1. d.cycle = c /\ d.requestType < u /\ d.requestType \in {0, 1, 2, 4, 5}
      BY <1>3, <1>4, ProperShape DEF Before
    <2>2. d.requestType = t \/ d.requestType < t
      BY <1>1, <2>1
    <2>3. d.requestType = t => d = a
      BY <1>1, <1>2, <2>1, ProperShape
    <2> QED
      BY <1>2, <2>1, <2>2, <2>3 DEF Before
  <1>5. Ready(log, r)
    BY <1>2, <1>3, <1>4, ReadyAfter
  <1>6. r.requestType \notin {FROM_CLIENT, LOCAL_CONNECTIVITY}
    BY <1>1, <1>3 DEF FROM_CLIENT, LOCAL_CONNECTIVITY
  <1> QED
    BY <1>3, <1>5, <1>6, StageWork, StageReceive DEF r, Notes, NodeInv, SchedulerOK

(* A message that brings no work.                                             *)
LEMMA QuietStage ==
    ASSUME NodeInv, StageInv, NEW from \in [SL -> 0..MaxCycle], LeaderNotes(from, {})
    PROVE  StageInv'
  <1>1. pushed \cup {} = pushed /\ pending \cup {} = pending
    OBVIOUS
  <1> QED
    BY <1>1, StageReceive DEF StageInv

(* The leader's FullCommit.                                                   *)
LEMMA LeaderCommitStage ==
    ASSUME NodeInv, StageInv, NEW m, NEW c, NEW q, HandleFullCommit(Leader, m, c, q)
    PROVE  StageInv'
  <1> DEFINE k == Applied(Leader)
             x == leader_round2_next_rcanopus_cycle
  <1>1. PICK p \in stored[Leader] :
            /\ delivered' = [delivered EXCEPT ![Leader] = Append(@, p)]
            /\ fetched' = Counted(fetched, p.request)
            /\ pushed' = pushed \cup ConnectivityWork(Leader, p.request)
            /\ SpawnRound2([state EXCEPT ![Leader] = "NONE"], rgLeader_batch_received_from,
                           pending \cup ConnectivityWork(Leader, p.request), c)
    BY DEF HandleFullCommit, FetchedNow, Counted
  <1>2. k + 1 \in 1..Len(log) /\ p = log[k + 1]
    <2>1. state[Leader] \notin Idle /\ Leader \in SL
      BY LeaderInSL DEF HandleFullCommit, Idle
    <2>2. Votes(Leader) = k + 1 /\ Votes(Leader) <= Last /\ k \in Nat /\ Last \in Nat
      BY <2>1, NodeFacts DEF Votes, Positions, NodeTypes
    <2>3. stored[Leader] = {log[R2!Voted(Leader)]}
      BY <2>1 DEF NodeInv, R2!IInv, R2!OpenInstances, R2!SL, SL, R2!Idle, Idle
    <2>4. R2!Voted(Leader) = Votes(Leader)
      BY DEF Votes, Applied, R2!Voted, Idle, R2!Idle
    <2> QED
      BY <2>2, <2>3, <2>4 DEF Last
  <1>3. Applied(Leader)' = k + 1
    <2>1. /\ delivered \in [SL -> Seq(R2!Preprepare)] /\ log \in Seq(R2!Preprepare)
      BY NodeFacts DEF NodeTypes
    <2>2. p \in R2!Preprepare
      BY <1>2, <2>1
    <2>3. delivered'[Leader] = Append(delivered[Leader], p) /\ delivered[Leader] \in Seq(R2!Preprepare)
      BY <1>1, <2>1, LeaderInSL
    <2> QED
      BY <2>2, <2>3 DEF Applied, Leader
  <1>4. StageOn(pushed, pending, log, x, fetched', k + 1)
    BY <1>1, <1>2, StageDeliver DEF StageInv
  <1> DEFINE w == ConnectivityWork(Leader, p.request)
  <1>5. StageOn(pushed \cup w, pending \cup w, log, x, fetched', k + 1)
    <2>1. CASE w = {}
      <3>1. pushed \cup w = pushed /\ pending \cup w = pending
        BY <2>1
      <3> QED
        BY <1>4, <3>1
    <2>2. CASE p.request.requestType = FETCHED_RESULT /\ fetched[p.request.cycle] + 1 = NumRemote
      <3> DEFINE d == p.request.cycle
      <3>1. w = {Connectivity(d)}
        BY <2>2 DEF ConnectivityWork, Connectivity, Work
      <3>2. PushedOK(pushed, pending, log) /\ LogOK(pushed, log, x) /\ FetchedOK(pushed, log, fetched, k)
        BY DEF StageInv, StageOn
      <3>3. p.request \in Proper /\ Ready(log, p.request)
        BY <1>2, <3>2, LoggedProper
      <3>4. d \in Cycle
        BY <3>3, ProperShape
      <3>5. fetched[d] \in Nat /\ NumRemote \in Nat /\ fetched'[d] = fetched[d] + 1
        BY <1>1, <2>2, <3>2, <3>4, BoundsAssumption DEF FetchedOK, Counted
      <3>6. fetched'[d] >= NumRemote /\ Connectivity(d) \notin pushed
        BY <2>2, <3>2, <3>4, <3>5 DEF FetchedOK
      <3>7. Logged(log, Batch(d))
        BY <2>2, <3>3, <3>4, BatchProper DEF Ready, Before, FETCHED_RESULT
      <3> HIDE DEF d
      <3>8. StageOn(pushed \cup {Connectivity(d)}, pending \cup {Connectivity(d)}, log, x, fetched', k + 1)
        BY <1>4, <3>4, <3>6, <3>7, ConnectivityPush
      <3> QED
        BY <3>1, <3>8
    <2> QED
      BY <2>1, <2>2 DEF ConnectivityWork
  <1>6. rgLeader_batch_received_from \in [SL -> 0..MaxCycle]
    BY DEF NodeInv, SchedulerOK
  <1> HIDE DEF w
  <1>7. StageOn(pushed \cup w, pending', log', leader_round2_next_rcanopus_cycle', fetched', k + 1)
    BY <1>1, <1>5, <1>6, StageSpawn DEF w
  <1> QED
    BY <1>1, <1>3, <1>7 DEF StageInv, w

(* Every other handler leaves the stages alone.                               *)
LEMMA DispatchStage ==
    ASSUME NodeInv, StageInv, NEW n \in SL, NEW m, NEW c, NEW q, dispatcher_round2(n, m, c, q)
    PROVE  StageInv'
  <1>1. CASE UNCHANGED <<pushed, pending, log, leader, fetched>> /\ Applied(Leader)' = Applied(Leader)
    BY <1>1 DEF StageInv, leader
  <1>2. CASE UNCHANGED <<pushed, pending, log, leader, fetched, delivered>>
    <2>1. Applied(Leader)' = Applied(Leader)
      BY <1>2 DEF Applied, Leader
    <2> QED
      BY <1>1, <1>2, <2>1
  <1>3. CASE JugglePreprepare(n, m, c, q)
    BY <1>2, <1>3 DEF JugglePreprepare
  <1>4. CASE HandlePreprepare(n, m, c, q)
    BY <1>2, <1>4 DEF HandlePreprepare
  <1>5. CASE JuggleCommit(n, m, c, q)
    BY <1>2, <1>5 DEF JuggleCommit
  <1>6. CASE HandlePartialCommit(n, m, c, q)
    BY <1>2, <1>6 DEF HandlePartialCommit
  <1>7. CASE HandleFullCommit(n, m, c, q) /\ n = Leader
    BY <1>7, LeaderCommitStage
  <1>8. CASE HandleFullCommit(n, m, c, q) /\ n # Leader
    <2>1. PICK p : /\ delivered' = [delivered EXCEPT ![n] = Append(@, p)]
                   /\ fetched' = FetchedNow(n, p.request)
                   /\ pushed' = pushed \cup ConnectivityWork(n, p.request)
                   /\ UNCHANGED <<pending, leader, log>>
      BY <1>8 DEF HandleFullCommit
    <2>2. fetched' = fetched /\ pushed' = pushed
      BY <1>8, <2>1 DEF FetchedNow, ConnectivityWork
    <2>3. delivered'[Leader] = delivered[Leader]
      BY <1>8, <2>1, LeaderInSL, NodeFacts DEF NodeTypes
    <2>4. Applied(Leader)' = Applied(Leader)
      BY <2>3 DEF Applied, Leader
    <2> QED
      BY <1>1, <2>1, <2>2, <2>4
  <1> QED
    BY <1>3, <1>4, <1>5, <1>6, <1>7, <1>8 DEF dispatcher_round2

(* What a step of Round 3 has taken: a message that came or waited.           *)
Waits(n, m) == m \notin arrived \/ m \in juggledRound3[n]

LEMMA TakenRound3 ==
    ASSUME NodeInv, NEW n \in SL, ReceiveRound3(n) \/ RetryRound3(n)
    PROVE  \E m \in Round3Message :
              /\ Waits(n, m) /\ dispatcher_round3(n, m)
              /\ arrived' \in {arrived, arrived \cup {m}} /\ m \in arrived'
  <1>1. CASE ReceiveRound3(n)
    BY <1>1 DEF ReceiveRound3, Waits
  <1>2. CASE RetryRound3(n)
    BY <1>2 DEF RetryRound3, Waits, NodeInv, Round3OK
  <1> QED
    BY <1>1, <1>2

(* The leader has pushed the work of a stage only when it had the answers of  *)
(* all groups.                                                                *)
AnswersOK == \A c \in Cycle :
    /\ Work(LOCAL_MEMBERSHIP, c, 0) \in pushed => Answered("CONNECTIVITY_RESPONSE", c) = Remote
    /\ Work(FULL_MEMBERSHIP, c, 0) \in pushed => Answered("MEMBERSHIP_RESPONSE", c) = Remote

(* Such an answer is not one of those the leader has.                         *)
LEMMA NotAnswered ==
    ASSUME NEW m \in Round3Message, Waits(Leader, m)
    PROVE  m.BGid \in Remote /\ m.BGid \notin Answered(m.type, m.cycle)
  <1>1. m.BGid \in Remote /\ m = [type |-> m.type, cycle |-> m.cycle, BGid |-> m.BGid]
    BY DEF Round3Message
  <1> QED
    BY <1>1 DEF Answered, Waits

(* An answer: its work comes after the stage it answers.                      *)
LEMMA AnswerStage ==
    ASSUME NodeInv, StageInv, AnswersOK, NEW n \in SL, NEW m \in Round3Message, Waits(n, m),
           dispatcher_round3(n, m)
    PROVE  StageInv'
  <1>1. m.cycle \in Cycle
    BY DEF Round3Message
  <1>2. CASE Quiet
    <2>1. Applied(Leader)' = Applied(Leader)
      BY <1>2 DEF Quiet, round2, Applied, Leader
    <2> QED
      BY <1>2, <2>1 DEF Quiet, round2, StageInv, leader
  <1>3. ASSUME NEW t, NEW u, n = Leader, Has(Leader, t, m.cycle), Notes({Work(u, m.cycle, 0)}),
               <<m.type, t, u>> \in {<<"CONNECTIVITY_RESPONSE", LOCAL_CONNECTIVITY, LOCAL_MEMBERSHIP>>,
                                     <<"MEMBERSHIP_RESPONSE", LOCAL_MEMBERSHIP, FULL_MEMBERSHIP>>}
        PROVE  StageInv'
    <2>1. Answered(m.type, m.cycle) # Remote
      BY <1>3, NotAnswered
    <2>2. Work(u, m.cycle, 0) \notin pushed
      BY <1>1, <1>3, <2>1 DEF AnswersOK
    <2>3. <<t, u>> \in {<<LOCAL_CONNECTIVITY, LOCAL_MEMBERSHIP>>, <<LOCAL_MEMBERSHIP, FULL_MEMBERSHIP>>}
      BY <1>3
    <2> QED
      BY <1>1, <1>3, <2>2, <2>3, MembershipStage
  <1>4. CASE HandleConnectivityResponse(n, m)
    <2>1. n = Leader /\ Has(n, LOCAL_CONNECTIVITY, m.cycle) /\ m.type = "CONNECTIVITY_RESPONSE"
      BY <1>4 DEF HandleConnectivityResponse, Accepts, Opens
    <2>2. Notes({Work(LOCAL_MEMBERSHIP, m.cycle, 0)}) \/ Notes({})
      BY <1>4 DEF HandleConnectivityResponse, Notes
    <2>3. CASE Notes({})
      BY <2>3, QuietStage DEF Notes, NodeInv, SchedulerOK
    <2> QED
      BY <1>3, <2>1, <2>2, <2>3
  <1>5. CASE HandleMembershipResponse(n, m)
    <2>1. n = Leader /\ Has(n, LOCAL_MEMBERSHIP, m.cycle) /\ m.type = "MEMBERSHIP_RESPONSE"
      BY <1>5 DEF HandleMembershipResponse, Accepts, Opens
    <2>2. Notes({Work(FULL_MEMBERSHIP, m.cycle, 0)}) \/ Quiet
      BY <1>5 DEF HandleMembershipResponse, Notes, Quiet
    <2> QED
      BY <1>2, <1>3, <2>1, <2>2
  <1>6. CASE JuggleRound3(n, m) \/ HandleConnectivityRequest(n, m)
    BY <1>2, <1>6 DEF JuggleRound3, HandleConnectivityRequest, Quiet
  <1> QED
    BY <1>4, <1>5, <1>6 DEF dispatcher_round3

(* Every step keeps the order of the stages.                                  *)
LEMMA NextStage == NodeInv /\ StageInv /\ AnswersOK /\ [Next]_vars => StageInv'
  <1> SUFFICES ASSUME NodeInv, StageInv, AnswersOK, [Next]_vars PROVE StageInv'
    OBVIOUS
  <1>1. ASSUME NEW n \in SL, Receive(n) PROVE StageInv'
    BY <1>1, DispatchStage DEF Receive
  <1>2. ASSUME NEW n \in SL, Retry(n) PROVE StageInv'
    BY <1>2, DispatchStage DEF Retry
  <1>3. CASE ReceiveEmpty \/ \E s \in SL : ReceiveRequest(s)
    <2>1. CASE ReceiveEmpty
      BY <2>1, QuietStage DEF ReceiveEmpty, LeaderReceive, NodeInv, SchedulerOK
    <2>2. ASSUME NEW s \in SL, ReceiveRequest(s) PROVE StageInv'
      <3> DEFINE from == [rgLeader_batch_received_from EXCEPT ![s] = @ + 1]
      <3>1. from \in [SL -> 0..MaxCycle]
        BY <2>2, BoundsAssumption DEF ReceiveRequest, NodeInv, SchedulerOK
      <3>2. LeaderNotes(from, {})
        BY <2>2 DEF ReceiveRequest, LeaderReceive
      <3> HIDE DEF from
      <3> QED
        BY <3>1, <3>2, QuietStage
    <2> QED
      BY <1>3, <2>1, <2>2
  <1>4. CASE \E c \in Cycle, b \in Remote : ReceiveFetchResponse(c, b)
    BY <1>4, FetchStage
  <1>5. CASE UNCHANGED <<pushed, pending, log, leader, fetched, delivered>>
    <2>1. Applied(Leader)' = Applied(Leader)
      BY <1>5 DEF Applied, Leader
    <2> QED
      BY <1>5, <2>1 DEF StageInv, leader
  <1>6. CASE \/ \E n \in SL : ReceiveOther(n)
             \/ mockClientOnLeader \/ (\E s \in SL : mockClient(s)) \/ ListenPipe \/ UNCHANGED vars
    BY <1>5, <1>6 DEF ReceiveOther, round2, mockClientOnLeader, mockClient, ListenPipe, rest, vars
  <1>7. ASSUME NEW n \in SL, ReceiveRound3(n) \/ RetryRound3(n) PROVE StageInv'
    BY <1>7, TakenRound3, AnswerStage
  <1> QED
    BY <1>1, <1>2, <1>3, <1>4, <1>6, <1>7 DEF Next

(* What the leader has it keeps; a message that is taken it has.              *)
LEMMA AnswersGrow ==
    ASSUME NodeInv, NEW n \in SL, NEW m, Waits(n, m), arrived' \in {arrived, arrived \cup {m}},
           NEW j \in {juggledRound3[n] \cup {m}, juggledRound3[n] \ {m}},
           juggledRound3' = [juggledRound3 EXCEPT ![n] = j], NEW t, NEW c
    PROVE  Answered(t, c) \subseteq Answered(t, c)'
  <1>1. juggledRound3 \in [SL -> SUBSET arrived] /\ Leader \in SL
    BY LeaderInSL DEF NodeInv, Round3OK
  <1>2. ASSUME NEW x \in arrived \ juggledRound3[Leader] PROVE x \in arrived' \ juggledRound3'[Leader]
    <2>1. CASE n = Leader
      BY <1>1, <1>2, <2>1 DEF Waits
    <2>2. CASE n # Leader
      BY <1>1, <1>2, <2>2
    <2> QED
      BY <2>1, <2>2
  <1> QED
    BY <1>2 DEF Answered, Leader

(* Work is pushed with the last answer, and no answer is lost after it.       *)
LEMMA AnswerTaken ==
    ASSUME NodeInv, AnswersOK, NEW n \in SL, NEW m \in Round3Message, Waits(n, m),
           dispatcher_round3(n, m), arrived' \in {arrived, arrived \cup {m}}, m \in arrived'
    PROVE  AnswersOK'
  <1>1. PICK j \in {juggledRound3[n] \cup {m}, juggledRound3[n] \ {m}} :
            juggledRound3' = [juggledRound3 EXCEPT ![n] = j]
    BY Round3Dispatched
  <1>2. ASSUME NEW t, NEW c PROVE Answered(t, c) \subseteq Answered(t, c)' /\ Answered(t, c)' \subseteq Remote
    <2>1. Answered(t, c) \subseteq Answered(t, c)'
      BY <1>1, AnswersGrow
    <2> QED
      BY <2>1 DEF Answered, Remote
  <1>3. CASE pushed' = pushed
    BY <1>2, <1>3 DEF AnswersOK, Remote, Work, LOCAL_MEMBERSHIP, FULL_MEMBERSHIP
  <1>4. ASSUME n = Leader, juggledRound3' = [juggledRound3 EXCEPT ![n] = @ \ {m}],
               Answered(m.type, m.cycle) \cup {m.BGid} = Remote
        PROVE  Answered(m.type, m.cycle)' = Remote
    <2>1. m = [type |-> m.type, cycle |-> m.cycle, BGid |-> m.BGid] /\ m.BGid \in Remote
      BY DEF Round3Message
    <2>2. m \notin juggledRound3'[Leader]
      BY <1>4, LeaderInSL DEF NodeInv, Round3OK
    <2>3. m.BGid \in Answered(m.type, m.cycle)'
      BY <2>1, <2>2 DEF Answered, Remote, Leader
    <2> QED
      BY <1>2, <1>4, <2>3
  <1>5. ASSUME NEW u, NEW c \in Cycle, pushed' = pushed \cup {Work(u, m.cycle, 0)}
        PROVE  /\ u = LOCAL_MEMBERSHIP \/ Work(LOCAL_MEMBERSHIP, c, 0) \notin pushed' \ pushed
               /\ u = FULL_MEMBERSHIP \/ Work(FULL_MEMBERSHIP, c, 0) \notin pushed' \ pushed
               /\ Work(u, c, 0) \in pushed' \ pushed => c = m.cycle
    BY <1>5 DEF Work
  <1>6. CASE HandleConnectivityResponse(n, m)
    <2>1. CASE Answered(m.type, m.cycle) \cup {m.BGid} = Remote
      <3>1. /\ n = Leader /\ juggledRound3' = [juggledRound3 EXCEPT ![n] = @ \ {m}]
            /\ pushed' = pushed \cup {Work(LOCAL_MEMBERSHIP, m.cycle, 0)} /\ m.type = "CONNECTIVITY_RESPONSE"
        BY <1>6, <2>1 DEF HandleConnectivityResponse, LeaderNotes
      <3>2. Answered("CONNECTIVITY_RESPONSE", m.cycle)' = Remote
        BY <1>4, <2>1, <3>1
      <3>3. \A c \in Cycle : /\ Work(LOCAL_MEMBERSHIP, c, 0) \in pushed' \ pushed => c = m.cycle
                             /\ Work(FULL_MEMBERSHIP, c, 0) \notin pushed' \ pushed
        BY <1>5, <3>1 DEF LOCAL_MEMBERSHIP, FULL_MEMBERSHIP
      <3> QED
        BY <1>2, <3>2, <3>3 DEF AnswersOK, Remote, Work, LOCAL_MEMBERSHIP, FULL_MEMBERSHIP
    <2>2. CASE Answered(m.type, m.cycle) \cup {m.BGid} # Remote
      BY <1>3, <1>6, <2>2 DEF HandleConnectivityResponse, LeaderNotes
    <2> QED
      BY <2>1, <2>2
  <1>7. CASE HandleMembershipResponse(n, m)
    <2>1. CASE pushed' = pushed \cup {Work(FULL_MEMBERSHIP, m.cycle, 0)}
               /\ Answered(m.type, m.cycle) \cup {m.BGid} = Remote
      <3>1. /\ n = Leader /\ juggledRound3' = [juggledRound3 EXCEPT ![n] = @ \ {m}]
            /\ m.type = "MEMBERSHIP_RESPONSE"
        BY <1>7 DEF HandleMembershipResponse
      <3>2. Answered("MEMBERSHIP_RESPONSE", m.cycle)' = Remote
        BY <1>4, <2>1, <3>1
      <3>3. \A c \in Cycle : /\ Work(FULL_MEMBERSHIP, c, 0) \in pushed' \ pushed => c = m.cycle
                             /\ Work(LOCAL_MEMBERSHIP, c, 0) \notin pushed' \ pushed
        BY <1>5, <2>1 DEF LOCAL_MEMBERSHIP, FULL_MEMBERSHIP
      <3> QED
        BY <1>2, <3>2, <3>3 DEF AnswersOK, Remote, Work, LOCAL_MEMBERSHIP, FULL_MEMBERSHIP
    <2>2. CASE pushed' = pushed
      BY <1>3, <2>2
    <2> QED
      BY <1>7, <2>1, <2>2 DEF HandleMembershipResponse, LeaderNotes, round2
  <1>8. CASE JuggleRound3(n, m) \/ HandleConnectivityRequest(n, m)
    BY <1>3, <1>8 DEF JuggleRound3, HandleConnectivityRequest, round2
  <1> QED
    BY <1>6, <1>7, <1>8 DEF dispatcher_round3

(* No other step pushes such work.                                            *)
LEMMA NextAnswers == NodeInv /\ AnswersOK /\ [Next]_vars => AnswersOK'
  <1> SUFFICES ASSUME NodeInv, AnswersOK, [Next]_vars PROVE AnswersOK'
    OBVIOUS
  <1>1. ASSUME NEW w, pushed' = pushed \cup w, Round3Stays,
               \A r \in w : r.requestType \in {FETCHED_RESULT, LOCAL_CONNECTIVITY}
        PROVE  AnswersOK'
    <2>1. \A t, c : Answered(t, c)' = Answered(t, c)
      BY <1>1 DEF Round3Stays, Answered, Remote, Leader
    <2>2. \A c \in Cycle : /\ Work(LOCAL_MEMBERSHIP, c, 0) \notin w
                           /\ Work(FULL_MEMBERSHIP, c, 0) \notin w
      BY <1>1 DEF Work, FETCHED_RESULT, LOCAL_CONNECTIVITY, LOCAL_MEMBERSHIP, FULL_MEMBERSHIP
    <2> QED
      BY <1>1, <2>1, <2>2 DEF AnswersOK
  <1>2. ASSUME pushed' = pushed, Round3Stays PROVE AnswersOK'
    <2>1. PICK w : w = {}
      OBVIOUS
    <2>2. /\ pushed' = pushed \cup w
          /\ \A r \in w : r.requestType \in {FETCHED_RESULT, LOCAL_CONNECTIVITY}
      BY <1>2, <2>1
    <2> QED
      BY <1>1, <1>2, <2>2
  <1>3. ASSUME NEW n \in SL, NEW m, NEW c, NEW q, dispatcher_round2(n, m, c, q), Round3Stays PROVE AnswersOK'
    <2>1. CASE HandleFullCommit(n, m, c, q)
      <3>1. PICK p : pushed' = pushed \cup ConnectivityWork(n, p.request)
        BY <2>1 DEF HandleFullCommit
      <3>2. \A r \in ConnectivityWork(n, p.request) : r.requestType = LOCAL_CONNECTIVITY
        BY DEF ConnectivityWork
      <3> QED
        BY <1>1, <1>3, <3>1, <3>2
    <2>2. CASE ~HandleFullCommit(n, m, c, q)
      BY <1>2, <1>3, <2>2 DEF dispatcher_round2, JugglePreprepare, HandlePreprepare, JuggleCommit,
                              HandlePartialCommit
    <2> QED
      BY <2>1, <2>2
  <1>4. ASSUME NEW n \in SL, Receive(n) \/ Retry(n) PROVE AnswersOK'
    BY <1>3, <1>4 DEF Receive, Retry, round3, Round3Stays
  <1>5. ASSUME NEW from, NEW work, LeaderReceive(from, work),
               \A r \in work : r.requestType \in {FETCHED_RESULT, LOCAL_CONNECTIVITY}
        PROVE  AnswersOK'
    BY <1>1, <1>5 DEF LeaderReceive, LeaderNotes, Round3Stays
  <1>6. CASE ReceiveEmpty \/ \E s \in SL : ReceiveRequest(s)
    <2>1. PICK from : LeaderReceive(from, {})
      BY <1>6 DEF ReceiveEmpty, ReceiveRequest
    <2> QED
      BY <1>5, <2>1
  <1>7. CASE \E c \in Cycle, b \in Remote : ReceiveFetchResponse(c, b)
    BY <1>5, <1>7 DEF ReceiveFetchResponse, Work
  <1>8. CASE \/ \E n \in SL : ReceiveOther(n)
             \/ mockClientOnLeader \/ (\E s \in SL : mockClient(s)) \/ ListenPipe \/ UNCHANGED vars
    BY <1>2, <1>8 DEF ReceiveOther, round2, mockClientOnLeader, mockClient, ListenPipe, rest, round3,
                      vars, Round3Stays
  <1>9. ASSUME NEW n \in SL, ReceiveRound3(n) \/ RetryRound3(n) PROVE AnswersOK'
    BY <1>9, TakenRound3, AnswerTaken
  <1> QED
    BY <1>4, <1>6, <1>7, <1>8, <1>9 DEF Next

(* The initial state.                                                         *)
LEMMA InitStage == FirstSeq = 1 /\ Init => StageInv /\ AnswersOK
  <1> SUFFICES ASSUME FirstSeq = 1, Init PROVE StageInv /\ AnswersOK
    OBVIOUS
  <1>1. /\ pushed = {} /\ pending = {} /\ log = <<>> /\ leader_round2_next_rcanopus_cycle = 1
        /\ fetched = [c \in Cycle |-> 0] /\ delivered[Leader] = <<>>
    BY LeaderInSL DEF Init
  <1>2. Applied(Leader) = 0 /\ Len(log) = 0 /\ 1..Len(log) = {} /\ log \in Seq(R2!Preprepare)
    BY <1>1 DEF Applied
  <1>3. PushedOK(pushed, pending, log) /\ LogOK(pushed, log, leader_round2_next_rcanopus_cycle)
    BY <1>1, <1>2 DEF PushedOK, LogOK
  <1>4. \A c \in Cycle : Cardinality(Arrived(log, 0, c)) = 0
    <2>1. \A c \in Cycle : Arrived(log, 0, c) = {}
      BY DEF Arrived
    <2> QED
      BY <2>1, FS_EmptySet
  <1>5. FetchedOK(pushed, log, fetched, 0)
    <2>1. fetched \in [Cycle -> Nat] /\ \A c \in Cycle : fetched[c] = 0
      BY <1>1
    <2> QED
      BY <1>1, <1>2, <1>4, <2>1 DEF FetchedOK
  <1>6. AnswersOK
    BY <1>1 DEF AnswersOK
  <1> QED
    BY <1>2, <1>3, <1>5, <1>6 DEF StageInv, StageOn

(* The invariant of a node, complete.                                         *)
LEMMA NodeInvariant == FirstSeq = 1 => (Spec /\ []BelowWrap => [](NodeInv /\ StageInv /\ AnswersOK))
  <1>1. ASSUME FirstSeq = 1 PROVE Spec /\ []BelowWrap => [](NodeInv /\ StageInv /\ AnswersOK)
    <2>1. Init => NodeInv /\ StageInv /\ AnswersOK
      BY <1>1, InitSimulates, InitStage
    <2>2. NodeInv /\ StageInv /\ AnswersOK /\ [Next]_vars /\ BelowWrap' => (NodeInv /\ StageInv /\ AnswersOK)'
      BY NextNodeInv, NextStage, NextAnswers
    <2> QED
      BY <2>1, <2>2, PTL DEF Spec
  <1> QED
    BY <1>1

(* The order of the log is that of every SL.                                  *)
LEMMA StagesAreInOrder == NodeInv /\ StageInv => StagesInOrder
  <1> SUFFICES ASSUME NodeInv, StageInv, NEW n \in SL,
                      NEW i \in 1..Len(delivered[n]), NEW j \in 1..Len(delivered[n]),
                      Before(delivered[n][i].request, delivered[n][j].request)
               PROVE  i < j
    BY DEF StagesInOrder, Before
  <1>1. /\ i \in 1..Len(log) /\ delivered[n][i] = log[i]
        /\ j \in 1..Len(log) /\ delivered[n][j] = log[j]
    BY DeliveredIsLog DEF Applied
  <1>2. LogOK(pushed, log, leader_round2_next_rcanopus_cycle)
    BY DEF StageInv, StageOn
  <1> QED
    BY <1>1, <1>2 DEF LogOK

(* The invariants give the types.                                             *)
LEMMA NodeTypesCorrect == NodeInv /\ StageInv => TypeOK
  <1> SUFFICES ASSUME NodeInv, StageInv PROVE TypeOK
    OBVIOUS
  <1>1. NodeTypes /\ Positions
    BY NodeFacts
  <1>2. round2_next_seq \in [SL -> 0..(2^16 - 1)]
    BY <1>1 DEF NodeTypes, R2!Seq16
  <1>3. \A n \in SL : pass[n] \in 0..Len(juggleQueue[n])
    <2>1. /\ \A n \in SL : pass[n] \in Nat /\ pass[n] <= Len(juggleQueue[n])
          /\ \A n \in SL : Len(juggleQueue[n]) \in Nat
      BY DEF NodeInv, PassOK, QueuesOK
    <2> QED
      BY <2>1
  <1>4. ASSUME NEW n \in SL PROVE Cardinality(stored[n]) <= 1
    <2>1. stored[n] = {} \/ stored[n] = {log[R2!Voted(n)]}
      BY DEF NodeInv, R2!IInv, R2!OpenInstances, R2!SL, SL
    <2>2. Cardinality({}) = 0
      BY FS_EmptySet
    <2>3. \A x : Cardinality({x}) = 1
      BY FS_Singleton
    <2>4. PICK k : k = Cardinality(stored[n]) /\ (k = 0 \/ k = 1)
      BY <2>1, <2>2, <2>3
    <2> QED
      BY <2>4
  <1>5. pending \subseteq Request /\ pending \subseteq pushed
    BY DEF NodeInv, SchedulerOK, StageInv, StageOn, PushedOK
  <1>6. fetched \in [Cycle -> 0..NumRemote]
    <2>1. /\ fetched \in [Cycle -> Nat]
          /\ \A c \in Cycle : fetched[c] = Cardinality(Arrived(log, Applied(Leader), c))
      BY DEF StageInv, StageOn, FetchedOK
    <2>2. \A c \in Cycle : fetched[c] \in Nat /\ fetched[c] <= NumRemote
      BY <2>1, ArrivedFinite
    <2> QED
      BY <2>1, <2>2, BoundsAssumption
  <1>7. \A m \in InFlight \cup Juggled : m.to \in SL
    BY MessageTypes DEF Net
  <1>8. /\ arrived \subseteq Round3Message
        /\ \A n \in SL : passRound3[n] \subseteq juggledRound3[n] /\ juggledRound3[n] \subseteq arrived
    BY DEF NodeInv, Round3OK
  <1> QED
    BY <1>1, <1>2, <1>3, <1>4, <1>5, <1>6, <1>7, <1>8 DEF TypeOK, NodeTypes, States

(* Below the wrap, the stages of a cycle commit at every SL in their order:   *)
(* the results of the other groups after the batch, the connectivity after    *)
(* all of them, the membership after that.                                    *)
THEOREM StagesCommitInOrder == FirstSeq = 1 => (Spec /\ []BelowWrap => []StagesInOrder)
  <1>1. ASSUME FirstSeq = 1 PROVE Spec /\ []BelowWrap => []StagesInOrder
    <2>1. Spec /\ []BelowWrap => [](NodeInv /\ StageInv /\ AnswersOK)
      BY <1>1, NodeInvariant
    <2> QED
      BY <2>1, StagesAreInOrder, PTL
  <1> QED
    BY <1>1

(* Below the wrap, the variables of an SL keep their types, the counters of   *)
(* fetched results and of the pass their bounds.                              *)
THEOREM TypeCorrect == FirstSeq = 1 => (Spec /\ []BelowWrap => []TypeOK)
  <1>1. ASSUME FirstSeq = 1 PROVE Spec /\ []BelowWrap => []TypeOK
    <2>1. Spec /\ []BelowWrap => [](NodeInv /\ StageInv /\ AnswersOK)
      BY <1>1, NodeInvariant
    <2> QED
      BY <2>1, NodeTypesCorrect, PTL
  <1> QED
    BY <1>1

-----------------------------------------------------------------------------
(* The Round 3 messages in the juggle queue of SL n wait for the next entry   *)
(* of its log; when they wait for the last one it has applied, the pass has   *)
(* still to try them.                                                         *)
Opener(m) == Work(Opens[m.type], m.cycle, 0)

EarlyAt(n, k) ==
    /\ k \in 1..Len(log)
    /\ \A m \in juggledRound3[n] : log[k].request = Opener(m)
    /\ k = Applied(n) => juggledRound3[n] \subseteq passRound3[n]

EarlyOK(n) == juggledRound3[n] # {} => \E k \in {Applied(n), Applied(n) + 1} : EarlyAt(n, k)

EarlyInv == \A n \in SL : EarlyOK(n)

(* The stage that opens a message, and the later one that closes it.          *)
LEMMA OpenerFacts ==
    ASSUME NEW m \in Round3Message
    PROVE  /\ Opener(m).requestType = Opens[m.type] /\ Opener(m).cycle = m.cycle /\ m.cycle \in Cycle
           /\ Opens[m.type] \in {0, 2, 4} /\ Closes[m.type] \in {4, 5} /\ Opens[m.type] < Closes[m.type]
           /\ \A a \in Proper : a.requestType = Opens[m.type] /\ a.cycle = m.cycle => a = Opener(m)
           /\ \A o \in Round3Message : Opener(m) = Opener(o) => m.type = o.type /\ m.cycle = o.cycle
  <1>1. /\ m.cycle \in Cycle
        /\ m.type \in {"CONNECTIVITY_REQUEST", "CONNECTIVITY_RESPONSE", "MEMBERSHIP_RESPONSE"}
    BY DEF Round3Message
  <1>2. /\ Opens[m.type] \in {0, 2, 4} /\ Closes[m.type] \in {4, 5} /\ Opens[m.type] < Closes[m.type]
    BY <1>1 DEF Opens, Closes, FROM_CLIENT, LOCAL_CONNECTIVITY, LOCAL_MEMBERSHIP, FULL_MEMBERSHIP
  <1>3. Opener(m).requestType = Opens[m.type] /\ Opener(m).cycle = m.cycle
    BY DEF Opener, Work
  <1>4. ASSUME NEW a \in Proper, a.requestType = Opens[m.type], a.cycle = m.cycle PROVE a = Opener(m)
    BY <1>2, <1>4, ProperShape DEF Opener, Batch, FROM_CLIENT
  <1>5. ASSUME NEW o \in Round3Message, Opener(m) = Opener(o) PROVE m.type = o.type /\ m.cycle = o.cycle
    <2>1. Opens[m.type] = Opens[o.type] /\ m.cycle = o.cycle
      BY <1>5 DEF Opener, Work
    <2>2. o.type \in {"CONNECTIVITY_REQUEST", "CONNECTIVITY_RESPONSE", "MEMBERSHIP_RESPONSE"}
      BY DEF Round3Message
    <2> QED
      BY <1>1, <2>1, <2>2 DEF Opens, FROM_CLIENT, LOCAL_CONNECTIVITY, LOCAL_MEMBERSHIP
  <1> QED
    BY <1>1, <1>2, <1>3, <1>4, <1>5

(* Where an SL has it.                                                        *)
LEMMA HasOpener ==
    ASSUME NodeInv, StageInv, NEW n \in SL, NEW m \in Round3Message
    PROVE  Has(n, Opens[m.type], m.cycle) <=> \E i \in 1..Applied(n) : log[i].request = Opener(m)
  <1>1. \A i \in 1..Applied(n) : i \in 1..Len(log) /\ delivered[n][i] = log[i]
    BY DeliveredIsLog
  <1>2. \A i \in 1..Len(log) : log[i].request \in Proper
    BY LoggedProper DEF StageInv, StageOn
  <1>3. \A i \in 1..Applied(n) : log[i].request = Opener(m)
             <=> /\ delivered[n][i].request.requestType = Opens[m.type]
                 /\ delivered[n][i].request.cycle = m.cycle
    BY <1>1, <1>2, OpenerFacts
  <1> QED
    BY <1>3 DEF Has, Applied

(* The SLs are at most one entry apart.                                       *)
LEMMA CommitTogether ==
    ASSUME NodeInv, NEW s \in SL, NEW n \in SL
    PROVE  Applied(s) <= Applied(n) + 1
  <1>1. /\ Votes(n) <= Last /\ Last <= Votes(n) + 1 /\ Last \in Nat
        /\ Votes(s) <= Last /\ Applied(s) \in Nat /\ Applied(n) \in Nat
    BY NodeFacts DEF Positions, NodeTypes
  <1>2. /\ Votes(n) \in {Applied(n), Applied(n) + 1}
        /\ Votes(s) \in {Applied(s), Applied(s) + 1}
    BY <1>1 DEF Votes
  <1>3. CASE Applied(s) = Last /\ Last > 0
    <2>1. Votes(n) = Last
      BY <1>3, DoneFacts
    <2> QED
      BY <1>1, <1>2, <1>3, <2>1
  <1>4. CASE ~(Applied(s) = Last /\ Last > 0)
    BY <1>1, <1>2, <1>4
  <1> QED
    BY <1>3, <1>4

(* A message whose stage is the last entry applied is taken.                  *)
LEMMA OpenerAccepts ==
    ASSUME NodeInv, StageInv, NEW n \in SL, NEW m \in Round3Message, Applied(n) \in 1..Len(log),
           log[Applied(n)].request = Opener(m)
    PROVE  Accepts(n, m)
  <1>1. Applied(n) \in 1..Applied(n)
    OBVIOUS
  <1>2. Has(n, Opens[m.type], m.cycle)
    BY <1>1, HasOpener
  <1>3. ASSUME NEW i \in 1..Applied(n), delivered[n][i].request.requestType = Closes[m.type],
               delivered[n][i].request.cycle = m.cycle
        PROVE  FALSE
    <2>1. i \in 1..Len(log) /\ delivered[n][i] = log[i]
      BY DeliveredIsLog
    <2>2. Before(log[Applied(n)].request, log[i].request)
      BY <1>3, <2>1, OpenerFacts DEF Before
    <2>3. Applied(n) < i
      BY <2>1, <2>2 DEF StageInv, StageOn, LogOK
    <2> QED
      BY <1>1, <2>3
  <1> QED
    BY <1>2, <1>3 DEF Accepts, Has, Applied

(* A message comes early only when its stage is the next entry.               *)
LEMMA EarlyArrives ==
    ASSUME NodeInv, StageInv, AnswersOK, NEW n \in SL, NEW m \in Round3Message \ arrived,
           IF m.type = "CONNECTIVITY_REQUEST" THEN ~Has(n, FROM_CLIENT, m.cycle) ELSE n = Leader,
           \E s \in SL : Has(s, Opens[m.type], m.cycle), ~Accepts(n, m)
    PROVE  Applied(n) + 1 \in 1..Len(log) /\ log[Applied(n) + 1].request = Opener(m)
  <1>1. PICK s \in SL : Has(s, Opens[m.type], m.cycle)
    OBVIOUS
  <1>2. PICK i \in 1..Applied(s) : log[i].request = Opener(m)
    BY <1>1, HasOpener
  <1>3. i \in 1..Len(log) /\ i <= Applied(n) + 1 /\ Applied(n) \in Nat
    <2>1. i \in 1..Len(log) /\ Applied(s) <= Applied(n) + 1
      BY <1>2, DeliveredIsLog, CommitTogether
    <2>2. Applied(n) \in Nat /\ Applied(s) \in Nat
      BY NodeFacts DEF NodeTypes
    <2> QED
      BY <1>2, <2>1, <2>2
  <1>4. CASE i \in 1..Applied(n)
    <2>1. Has(n, Opens[m.type], m.cycle)
      BY <1>2, <1>4, HasOpener
    <2>2. n = Leader /\ m.type \in {"CONNECTIVITY_RESPONSE", "MEMBERSHIP_RESPONSE"}
      BY <2>1 DEF Opens, Round3Message
    <2>3. Has(n, Closes[m.type], m.cycle)
      BY <2>1 DEF Accepts
    <2>4. PICK r \in Proper : r.requestType = Closes[m.type] /\ r.cycle = m.cycle /\ r \in pushed
      BY <2>3, OpenerFacts, HasIsLogged DEF FROM_CLIENT
    <2>5. r = Work(Closes[m.type], m.cycle, 0)
      BY <2>4, OpenerFacts, ProperShape
    <2>6. Answered(m.type, m.cycle) = Remote
      BY <2>2, <2>4, <2>5, OpenerFacts DEF AnswersOK, Closes
    <2> QED
      BY <2>6, NotAnswered DEF Waits
  <1>5. CASE i = Applied(n) + 1
    BY <1>2, <1>3, <1>5
  <1> QED
    BY <1>3, <1>4, <1>5

(* A handler of Round 2 applies an entry only on a FullCommit.                *)
LEMMA DispatchApplies ==
    ASSUME NodeInv, NEW n \in SL, NEW m, NEW c, NEW q, dispatcher_round2(n, m, c, q), NEW e \in SL
    PROVE  \/ delivered'[e] = delivered[e]
           \/ e = n /\ m.type = "FULL_COMMIT" /\ Applied(e)' = Applied(e) + 1
  <1>1. delivered \in [SL -> Seq(R2!Preprepare)] /\ stored \in [SL -> SUBSET R2!Preprepare]
    BY NodeFacts DEF NodeTypes
  <1>2. CASE HandleFullCommit(n, m, c, q)
    <2>1. PICK p \in stored[n] : delivered' = [delivered EXCEPT ![n] = Append(@, p)]
      BY <1>2 DEF HandleFullCommit
    <2>2. m.type = "FULL_COMMIT"
      BY <1>2 DEF HandleFullCommit
    <2>3. CASE e = n
      <3>1. delivered'[n] = Append(delivered[n], p) /\ p \in R2!Preprepare
        BY <1>1, <2>1
      <3> QED
        BY <1>1, <2>2, <2>3, <3>1 DEF Applied
    <2>4. CASE e # n
      BY <1>1, <2>1, <2>4
    <2> QED
      BY <2>3, <2>4
  <1>3. CASE ~HandleFullCommit(n, m, c, q)
    BY <1>3 DEF dispatcher_round2, JugglePreprepare, HandlePreprepare, JuggleCommit, HandlePartialCommit
  <1> QED
    BY <1>2, <1>3

(* The log keeps its entries.                                                 *)
LogKeeps == \A i \in 1..Len(log) : i \in 1..Len(log') /\ log'[i] = log[i]

LEMMA LogKept ==
    ASSUME NodeInv, Others \/ \E n \in SL : Dispatched(n)
    PROVE  LogKeeps
  <1>1. log' = log \/ \E p \in R2!Preprepare : log' = Append(log, p)
    <2>1. CASE Others
      BY <2>1 DEF Others, SameVotes, Proposes
    <2>2. ASSUME NEW n \in SL, Dispatched(n)
          PROVE  log' = log \/ \E p \in R2!Preprepare : log' = Append(log, p)
      <3>1. PICK m, c, q, s0 : Takes(n, m, c, q, s0)
        BY <2>2, DispatchedTakes
      <3>2. Handles(n, m, c, q)
        BY <3>1 DEF Takes
      <3> QED
        BY <3>2 DEF Handles, Juggles, Voting, Counting, CountingLast, Applying, SameVotes, Proposes
    <2> QED
      BY <2>1, <2>2
  <1>2. log \in Seq(R2!Preprepare)
    BY NodeFacts DEF NodeTypes
  <1>3. ASSUME NEW p \in R2!Preprepare, log' = Append(log, p) PROVE LogKeeps
    BY <1>2, <1>3, AppendFacts DEF LogKeeps
  <1>4. CASE log' = log
    BY <1>4 DEF LogKeeps
  <1> QED
    BY <1>1, <1>3, <1>4

(* An SL that applies nothing and juggles nothing more.                       *)
LEMMA EarlyStays ==
    ASSUME NEW n \in SL, EarlyOK(n), LogKeeps, delivered'[n] = delivered[n],
           juggledRound3'[n] \subseteq juggledRound3[n],
           juggledRound3'[n] \cap passRound3[n] \subseteq passRound3'[n]
    PROVE  EarlyOK(n)'
  <1> SUFFICES ASSUME juggledRound3'[n] # {}
               PROVE  \E k \in {Applied(n)', Applied(n)' + 1} : EarlyAt(n, k)'
    BY DEF EarlyOK
  <1>1. Applied(n)' = Applied(n)
    BY DEF Applied
  <1>2. PICK k \in {Applied(n), Applied(n) + 1} : EarlyAt(n, k)
    BY DEF EarlyOK
  <1>3. EarlyAt(n, k)'
    <2>1. k \in 1..Len(log') /\ log'[k] = log[k]
      BY <1>2 DEF EarlyAt, LogKeeps
    <2>2. \A m \in juggledRound3'[n] : log'[k].request = Opener(m)
      BY <1>2, <2>1 DEF EarlyAt
    <2>3. k = Applied(n)' => juggledRound3'[n] \subseteq passRound3'[n]
      BY <1>1, <1>2 DEF EarlyAt
    <2> QED
      BY <2>1, <2>2, <2>3 DEF EarlyAt, Opener, Work
  <1> QED
    BY <1>1, <1>2, <1>3

(* The entry that the messages of an SL wait for, once the pass is over.      *)
LEMMA EarlyBlocked ==
    ASSUME NEW n \in SL, EarlyOK(n), Blocked(n), juggledRound3[n] # {}
    PROVE  Applied(n) + 1 \in 1..Len(log) /\ \A m \in juggledRound3[n] :
              log[Applied(n) + 1].request = Opener(m)
  BY DEF EarlyOK, EarlyAt, Blocked

(* An SL whose pass was over applies that entry.                              *)
LEMMA EarlyApplies ==
    ASSUME NEW n \in SL, EarlyOK(n), LogKeeps, Blocked(n), Applied(n)' = Applied(n) + 1,
           juggledRound3'[n] = juggledRound3[n], passRound3'[n] = juggledRound3'[n]
    PROVE  EarlyOK(n)'
  <1> SUFFICES ASSUME juggledRound3'[n] # {}
               PROVE  \E k \in {Applied(n)', Applied(n)' + 1} : EarlyAt(n, k)'
    BY DEF EarlyOK
  <1>0. PICK k : k = Applied(n) + 1
    OBVIOUS
  <1>1. k \in 1..Len(log) /\ \A m \in juggledRound3[n] : log[k].request = Opener(m)
    BY <1>0, EarlyBlocked
  <1>2. k \in 1..Len(log') /\ log'[k] = log[k]
    BY <1>1 DEF LogKeeps
  <1>3. k = Applied(n)'
    BY <1>0
  <1>4. \A m \in juggledRound3'[n] : log'[k].request = Opener(m)
    BY <1>1, <1>2
  <1>5. EarlyAt(n, k)'
    BY <1>2, <1>4 DEF EarlyAt, Opener, Work
  <1> QED
    BY <1>3, <1>5

(* A Round 3 message is tried: it is taken, or juggled.                       *)
LEMMA EarlyTried ==
    ASSUME Round3OK, NEW n \in SL, NEW m, dispatcher_round3(n, m)
    PROVE  /\ \A e \in SL \ {n} : juggledRound3'[e] = juggledRound3[e]
           /\ \/ juggledRound3'[n] = juggledRound3[n] \ {m}
              \/ ~Accepts(n, m) /\ juggledRound3'[n] = juggledRound3[n] \cup {m}
  <1>1. \/ juggledRound3' = [juggledRound3 EXCEPT ![n] = @ \ {m}]
        \/ ~Accepts(n, m) /\ juggledRound3' = [juggledRound3 EXCEPT ![n] = @ \cup {m}]
    BY DEF dispatcher_round3, JuggleRound3, HandleConnectivityRequest, HandleConnectivityResponse,
           HandleMembershipResponse
  <1> QED
    BY <1>1 DEF Round3OK

(* Nothing of it is applied, at any SL.                                       *)
LEMMA Round3AppliesNothing ==
    ASSUME NEW n \in SL, ReceiveRound3(n) \/ RetryRound3(n)
    PROVE  delivered' = delivered
  BY Round3Steps DEF Quiet, Notes, round2, LeaderNotes

(* A Round 3 message comes.                                                   *)
LEMMA EarlyReceived ==
    ASSUME NodeInv, StageInv, AnswersOK, EarlyInv, LogKeeps, NEW n \in SL, ReceiveRound3(n)
    PROVE  EarlyInv'
  <1> USE DEF NodeInv
  <1>1. PICK m \in Round3Message \ arrived :
            /\ IF m.type = "CONNECTIVITY_REQUEST" THEN ~Has(n, FROM_CLIENT, m.cycle) ELSE n = Leader
            /\ \E s \in SL : Has(s, Opens[m.type], m.cycle)
            /\ dispatcher_round3(n, m)
    BY DEF ReceiveRound3
  <1>2. delivered' = delivered /\ Blocked(n) /\ StartPass(n)
    BY Round3AppliesNothing DEF ReceiveRound3
  <1>3. passRound3'[n] = juggledRound3'[n] /\ \A e \in SL \ {n} : passRound3'[e] = passRound3[e]
    BY <1>2 DEF StartPass, Round3OK
  <1>4. /\ \A e \in SL \ {n} : juggledRound3'[e] = juggledRound3[e]
        /\ \/ juggledRound3'[n] = juggledRound3[n] \ {m}
           \/ ~Accepts(n, m) /\ juggledRound3'[n] = juggledRound3[n] \cup {m}
    BY <1>1, EarlyTried
  <1>5. ASSUME NEW e \in SL \ {n} PROVE EarlyOK(e)'
    BY <1>2, <1>3, <1>4, EarlyStays DEF EarlyInv
  <1>6. CASE juggledRound3'[n] = juggledRound3[n] \ {m}
    <2>1. EarlyOK(n)'
      BY <1>2, <1>3, <1>6, EarlyStays DEF EarlyInv
    <2> QED
      BY <1>5, <2>1 DEF EarlyInv
  <1>7. CASE ~Accepts(n, m) /\ juggledRound3'[n] = juggledRound3[n] \cup {m}
    <2>0. PICK k : k = Applied(n) + 1
      OBVIOUS
    <2>1. k \in 1..Len(log) /\ log[k].request = Opener(m)
      BY <1>1, <1>7, <2>0, EarlyArrives
    <2>2. \A o \in juggledRound3[n] : log[k].request = Opener(o)
      BY <1>2, <2>0, EarlyBlocked DEF EarlyInv
    <2>3. k \in 1..Len(log') /\ log'[k] = log[k]
      BY <2>1 DEF LogKeeps
    <2>4. k = Applied(n)' + 1
      BY <1>2, <2>0 DEF Applied
    <2>5. \A o \in juggledRound3'[n] : log'[k].request = Opener(o)
      BY <1>7, <2>1, <2>2, <2>3
    <2>6. EarlyAt(n, k)'
      BY <1>3, <2>3, <2>5 DEF EarlyAt, Opener, Work
    <2>7. EarlyOK(n)'
      BY <2>4, <2>6 DEF EarlyOK
    <2> QED
      BY <1>5, <2>7 DEF EarlyInv
  <1> QED
    BY <1>4, <1>6, <1>7

(* A Round 3 message is tried again.                                          *)
LEMMA EarlyRetried ==
    ASSUME NodeInv, StageInv, EarlyInv, LogKeeps, NEW n \in SL, RetryRound3(n)
    PROVE  EarlyInv'
  <1> USE DEF NodeInv
  <1>1. PICK m \in passRound3[n] : /\ dispatcher_round3(n, m)
                                   /\ passRound3' = [passRound3 EXCEPT ![n] = @ \ {m}]
    BY DEF RetryRound3
  <1>2. delivered' = delivered
    BY Round3AppliesNothing
  <1>3. passRound3'[n] = passRound3[n] \ {m} /\ \A e \in SL \ {n} : passRound3'[e] = passRound3[e]
    BY <1>1 DEF Round3OK
  <1>4. /\ \A e \in SL \ {n} : juggledRound3'[e] = juggledRound3[e]
        /\ \/ juggledRound3'[n] = juggledRound3[n] \ {m}
           \/ ~Accepts(n, m) /\ juggledRound3'[n] = juggledRound3[n] \cup {m}
    BY <1>1, EarlyTried
  <1>5. ASSUME NEW e \in SL \ {n} PROVE EarlyOK(e)'
    BY <1>2, <1>3, <1>4, EarlyStays DEF EarlyInv
  <1>6. CASE juggledRound3'[n] = juggledRound3[n] \ {m}
    <2>1. EarlyOK(n)'
      BY <1>2, <1>3, <1>6, EarlyStays DEF EarlyInv
    <2> QED
      BY <1>5, <2>1 DEF EarlyInv
  <1>7. CASE ~Accepts(n, m) /\ juggledRound3'[n] = juggledRound3[n] \cup {m}
    <2>1. m \in juggledRound3[n] /\ m \in Round3Message /\ juggledRound3'[n] = juggledRound3[n]
      BY <1>1, <1>7 DEF Round3OK
    <2>2. PICK k \in {Applied(n), Applied(n) + 1} : EarlyAt(n, k)
      BY <2>1 DEF EarlyInv, EarlyOK
    <2>3. k # Applied(n)
      BY <1>7, <2>1, <2>2, OpenerAccepts DEF EarlyAt
    <2>4. k \in 1..Len(log') /\ log'[k] = log[k] /\ Applied(n)' = Applied(n)
      BY <1>2, <2>2 DEF EarlyAt, LogKeeps, Applied
    <2>5. \A o \in juggledRound3'[n] : log'[k].request = Opener(o)
      BY <2>1, <2>2, <2>4 DEF EarlyAt
    <2>6. EarlyAt(n, k)'
      BY <2>3, <2>4, <2>5 DEF EarlyAt, Opener, Work
    <2>7. EarlyOK(n)'
      BY <2>2, <2>4, <2>6 DEF EarlyOK
    <2> QED
      BY <1>5, <2>7 DEF EarlyInv
  <1> QED
    BY <1>4, <1>6, <1>7

(* Any step.                                                                  *)
LEMMA NextEarly ==
    ASSUME NodeInv, NodeInv', OrderInv, StageInv, AnswersOK, EarlyInv, [Next]_vars, BelowWrap'
    PROVE  EarlyInv'
  <1>0. LogKeeps /\ Round3OK
    BY NextShape, LogKept DEF NodeInv
  <1>1. ASSUME delivered' = delivered, juggledRound3' = juggledRound3,
               \A e \in SL : passRound3'[e] \in {passRound3[e], juggledRound3'[e]}
        PROVE  EarlyInv'
    BY <1>0, <1>1, EarlyStays DEF EarlyInv
  <1>2. ASSUME NEW n \in SL, StartPass(n), NEW e \in SL
        PROVE  passRound3'[e] \in {passRound3[e], juggledRound3'[e]}
    BY <1>0, <1>2 DEF StartPass, Round3OK
  <1>3. ASSUME NEW n \in SL, Receive(n) PROVE EarlyInv'
    <2>1. PICK m, c, q : dispatcher_round2(n, m, c, q)
      BY <1>3 DEF Receive
    <2>2. juggledRound3' = juggledRound3 /\ Blocked(n) /\ StartPass(n)
      BY <1>3 DEF Receive
    <2>3. ASSUME NEW e \in SL PROVE EarlyOK(e)'
      <3>1. passRound3'[e] \in {passRound3[e], juggledRound3'[e]}
        BY <1>2, <2>2
      <3>2. CASE delivered'[e] = delivered[e]
        BY <1>0, <2>2, <3>1, <3>2, EarlyStays DEF EarlyInv
      <3>3. CASE e = n /\ Applied(e)' = Applied(e) + 1
        <4>1. passRound3'[n] = juggledRound3'[n]
          BY <1>0, <2>2 DEF StartPass, Round3OK
        <4> QED
          BY <1>0, <2>2, <3>3, <4>1, EarlyApplies DEF EarlyInv
      <3> QED
        BY <2>1, <3>2, <3>3, DispatchApplies
    <2> QED
      BY <2>3 DEF EarlyInv
  <1>4. ASSUME NEW n \in SL, Retry(n) PROVE EarlyInv'
    <2>1. dispatcher_round2(n, Head(juggleQueue[n]), chan, Tail(juggleQueue[n])) /\ pass[n] > 0
      BY <1>4 DEF Retry
    <2>2. UNCHANGED <<juggledRound3, passRound3>>
      BY <1>4 DEF Retry, round3
    <2>3. Head(juggleQueue[n]).type # "FULL_COMMIT"
      <3>1. /\ juggleQueue[n] \in Seq(Message) /\ pass[n] \in Nat
            /\ pass[n] <= Len(juggleQueue[n])
        BY DEF NodeInv, PassOK, QueuesOK
      <3>2. 1 \in 1..Len(juggleQueue[n]) /\ Head(juggleQueue[n]) = juggleQueue[n][1]
        BY <2>1, <3>1
      <3> QED
        BY <3>2 DEF OrderInv, JuggleOK
    <2>4. \A e \in SL : delivered'[e] = delivered[e]
      BY <2>1, <2>3, DispatchApplies
    <2> QED
      BY <1>0, <2>2, <2>4, EarlyStays DEF EarlyInv
  <1>5. ASSUME NEW from, NEW work, LeaderReceive(from, work) PROVE EarlyInv'
    BY <1>1, <1>2, <1>5, LeaderInSL DEF LeaderReceive, LeaderNotes
  <1>6. CASE \/ ReceiveEmpty \/ (\E s \in SL : ReceiveRequest(s))
             \/ \E c \in Cycle, b \in Remote : ReceiveFetchResponse(c, b)
    BY <1>5, <1>6 DEF ReceiveEmpty, ReceiveRequest, ReceiveFetchResponse
  <1>7. ASSUME NEW n \in SL, ReceiveRound3(n) \/ RetryRound3(n) PROVE EarlyInv'
    BY <1>0, <1>7, EarlyReceived, EarlyRetried
  <1>8. ASSUME NEW n \in SL, ReceiveOther(n) PROVE EarlyInv'
    BY <1>1, <1>2, <1>8 DEF ReceiveOther, round2
  <1>9. CASE mockClientOnLeader \/ (\E s \in SL : mockClient(s)) \/ ListenPipe \/ UNCHANGED vars
    BY <1>1, <1>9 DEF mockClientOnLeader, mockClient, ListenPipe, rest, round3, vars
  <1> QED
    BY <1>3, <1>4, <1>6, <1>7, <1>8, <1>9 DEF Next

(* At the start, nothing has come.                                            *)
LEMMA InitEarly == Init => EarlyInv
  BY DEF Init, EarlyInv, EarlyOK

(* The invariant of a node and its queues, with the Round 3 messages.         *)
AllInv == NodeInv /\ OrderInv /\ StageInv /\ AnswersOK /\ EarlyInv

LEMMA EarlyInvariant == FirstSeq = 1 => (Spec /\ []BelowWrap => []AllInv)
  <1>1. ASSUME FirstSeq = 1 PROVE Spec /\ []BelowWrap => []AllInv
    <2>1. Init => AllInv
      BY <1>1, InitSimulates, InitOrder, InitStage, InitEarly DEF AllInv
    <2>2. AllInv /\ [Next]_vars /\ BelowWrap' => AllInv'
      <3> SUFFICES ASSUME AllInv, [Next]_vars, BelowWrap' PROVE AllInv'
        OBVIOUS
      <3>1. NodeInv' /\ StageInv' /\ AnswersOK'
        BY NextNodeInv, NextStage, NextAnswers DEF AllInv
      <3>2. OrderInv'
        BY <3>1, NextOrder DEF AllInv
      <3>3. EarlyInv'
        BY <3>1, NextEarly DEF AllInv
      <3> QED
        BY <3>1, <3>2, <3>3 DEF AllInv
    <2> QED
      BY <2>1, <2>2, PTL DEF Spec
  <1> QED
    BY <1>1

(* No Round 3 message is left behind by the pass that could take it.          *)
LEMMA EarlyNotStranded ==
    ASSUME AllInv, NEW n \in SL, NEW m \in juggledRound3[n], Accepts(n, m)
    PROVE  m \in passRound3[n]
  <1>1. m \in Round3Message
    BY DEF AllInv, NodeInv, Round3OK
  <1>2. PICK k \in {Applied(n), Applied(n) + 1} : EarlyAt(n, k)
    BY DEF AllInv, EarlyInv, EarlyOK
  <1>3. CASE k = Applied(n)
    BY <1>2, <1>3 DEF EarlyAt
  <1>4. CASE k = Applied(n) + 1
    <2>1. PICK i \in 1..Applied(n) : log[i].request = Opener(m)
      BY <1>1, HasOpener DEF Accepts, AllInv
    <2>2. i \in 1..Len(log)
      BY DeliveredIsLog DEF AllInv
    <2>3. k \in 1..Len(log) /\ log[k].request = Opener(m)
      BY <1>2 DEF EarlyAt
    <2>4. i = k
      BY <2>1, <2>2, <2>3 DEF AllInv, StageInv, StageOn, LogOK
    <2>5. Applied(n) \in Nat
      BY NodeFacts DEF AllInv, NodeTypes
    <2> QED
      BY <1>4, <2>1, <2>4, <2>5
  <1> QED
    BY <1>3, <1>4

(* Those of an SL come from different groups.                                 *)
LEMMA EarlyBounded ==
    ASSUME AllInv, NEW n \in SL
    PROVE  /\ Cardinality(juggledRound3[n]) \in Nat
           /\ Cardinality(juggledRound3[n]) <= NumRemote
  <1> DEFINE J == juggledRound3[n]
             f == [m \in J |-> m.BGid]
  <1>1. J \subseteq Round3Message
    BY DEF AllInv, NodeInv, Round3OK
  <1>2. \A m, o \in J : m.type = o.type /\ m.cycle = o.cycle
    <2>1. \A m, o \in J : Opener(m) = Opener(o)
      BY DEF AllInv, EarlyInv, EarlyOK, EarlyAt
    <2> QED
      BY <1>1, <2>1, OpenerFacts
  <1>3. ASSUME NEW m \in J, NEW o \in J, m.BGid = o.BGid PROVE m = o
    <2>1. m.type = o.type /\ m.cycle = o.cycle /\ m \in Round3Message /\ o \in Round3Message
      BY <1>1, <1>2
    <2> QED
      BY <1>3, <2>1 DEF Round3Message
  <1>4. \A m \in J : m.BGid \in Remote
    BY <1>1 DEF Round3Message
  <1> HIDE DEF J
  <1>5. f \in Injection(J, Remote)
    BY <1>3, <1>4 DEF Injection, IsInjective
  <1>6. IsFiniteSet(J) /\ Cardinality(J) <= NumRemote
    BY <1>5, RemoteFinite, FS_Injection
  <1> QED
    BY <1>6, FS_CardinalityType DEF J

(* Below the wrap, a pass leaves no message behind that its handler would now *)
(* take, unless another message is on its way to the SL: start() never blocks *)
(* for good on recvQueue with work in its juggle queue.                       *)
THEOREM MessagesNotStranded == FirstSeq = 1 => (Spec /\ []BelowWrap => []NoMessageStranded)
  <1>1. ASSUME FirstSeq = 1 PROVE Spec /\ []BelowWrap => []NoMessageStranded
    <2>1. Spec /\ []BelowWrap => []AllInv
      BY <1>1, EarlyInvariant
    <2>2. AllInv => NoMessageStranded
      <3> SUFFICES ASSUME AllInv PROVE NoMessageStranded
        OBVIOUS
      <3>1. \A n \in SL : NotStranded(n)
        BY OrderMeansNotStranded DEF AllInv
      <3> QED
        BY <3>1, EarlyNotStranded DEF NoMessageStranded, NotStranded
    <2> QED
      BY <2>1, <2>2, PTL
  <1> QED
    BY <1>1

(* Below the wrap, no juggle queue holds more than a Round 2 message of every *)
(* other SL and a Round 3 message of every remote group.                      *)
THEOREM JuggleQueuesBounded == FirstSeq = 1 => (Spec /\ []BelowWrap => []JuggleQueueBounded)
  <1>1. ASSUME FirstSeq = 1 PROVE Spec /\ []BelowWrap => []JuggleQueueBounded
    <2>1. Spec /\ []BelowWrap => []AllInv
      BY <1>1, EarlyInvariant
    <2>2. AllInv => JuggleQueueBounded
      <3> SUFFICES ASSUME AllInv, NEW n \in SL
                   PROVE  Len(juggleQueue[n]) + Cardinality(juggledRound3[n]) <= N - 1 + NumRemote
        BY DEF JuggleQueueBounded
      <3>1. Len(juggleQueue[n]) <= N - 1 /\ Len(juggleQueue[n]) \in Nat
        BY OrderMeansBounded DEF AllInv, NodeInv, QueuesOK
      <3>2. /\ Cardinality(juggledRound3[n]) \in Nat
            /\ Cardinality(juggledRound3[n]) <= NumRemote
        BY EarlyBounded
      <3> QED
        BY <3>1, <3>2, NAssumption, BoundsAssumption
    <2> QED
      BY <2>1, <2>2, PTL
  <1> QED
    BY <1>1

-----------------------------------------------------------------------------
(* How long the log can get: no request is in it twice.                       *)
Requests == MaxCycle * (NumRemote + 4)

(* The place of a request within its cycle.                                   *)
Slot(r) == IF r.requestType = FETCHED_RESULT THEN r.BGid
           ELSE IF r.requestType = FROM_CLIENT THEN 0
           ELSE IF r.requestType = LOCAL_CONNECTIVITY THEN NumRemote + 1
           ELSE IF r.requestType = LOCAL_MEMBERSHIP THEN NumRemote + 2
           ELSE NumRemote + 3

(* Cycle and place determine a request.                                       *)
LEMMA SlotsDiffer ==
    ASSUME NEW a \in Proper, NEW b \in Proper, a.cycle = b.cycle, Slot(a) = Slot(b)
    PROVE  a = b
  <1>1. NumRemote \in Nat
    BY BoundsAssumption
  <1> QED
    BY <1>1 DEF Proper, Slot, Batch, Fetch, Work, Remote, FROM_CLIENT, FETCHED_RESULT,
                LOCAL_CONNECTIVITY, LOCAL_MEMBERSHIP, FULL_MEMBERSHIP

(* There are NumRemote + 4 places.                                            *)
LEMMA SlotRange ==
    ASSUME NEW a \in Proper
    PROVE  a.cycle \in Cycle /\ Slot(a) \in 0..(NumRemote + 3)
  <1>1. NumRemote \in Nat
    BY BoundsAssumption
  <1> QED
    BY <1>1 DEF Proper, Slot, Batch, Fetch, Work, Remote, FROM_CLIENT, FETCHED_RESULT,
                LOCAL_CONNECTIVITY, LOCAL_MEMBERSHIP, FULL_MEMBERSHIP

(* The places of all cycles.                                                  *)
LEMMA PlacesFinite ==
    /\ IsFiniteSet(Cycle \X (0..(NumRemote + 3)))
    /\ Cardinality(Cycle \X (0..(NumRemote + 3))) = Requests
  <1>1. NumRemote \in Nat /\ MaxCycle \in Nat
    BY BoundsAssumption
  <1>2. IsFiniteSet(Cycle) /\ Cardinality(Cycle) = MaxCycle
    <2>1. MaxCycle \in Int /\ 1 \in Int /\ (1 > MaxCycle => MaxCycle = 0) /\ MaxCycle - 1 + 1 = MaxCycle
      BY <1>1
    <2> QED
      BY <2>1, FS_Interval DEF Cycle
  <1>3. IsFiniteSet(0..(NumRemote + 3)) /\ Cardinality(0..(NumRemote + 3)) = NumRemote + 4
    <2>1. NumRemote + 3 \in Int /\ 0 \in Int /\ ~(0 > NumRemote + 3) /\ (NumRemote + 3) - 0 + 1 = NumRemote + 4
      BY <1>1
    <2> QED
      BY <2>1, FS_Interval
  <1> QED
    BY <1>2, <1>3, FS_Product DEF Requests

(* The log is no longer than there are requests.                              *)
LEMMA LogBounded == StageInv => Len(log) <= Requests
  <1> SUFFICES ASSUME StageInv PROVE Len(log) <= Requests
    OBVIOUS
  <1>1. PushedOK(pushed, pending, log) /\ LogOK(pushed, log, leader_round2_next_rcanopus_cycle)
    BY DEF StageInv, StageOn
  <1> DEFINE T == Cycle \X (0..(NumRemote + 3))
             f == [i \in 1..Len(log) |-> <<log[i].request.cycle, Slot(log[i].request)>>]
  <1>2. \A i \in 1..Len(log) : log[i].request \in Proper
    BY <1>1, LoggedProper
  <1>3. f \in [1..Len(log) -> T]
    <2>1. \A i \in 1..Len(log) : <<log[i].request.cycle, Slot(log[i].request)>> \in T
      BY <1>2, SlotRange
    <2> QED
      BY <2>1
  <1>4. ASSUME NEW i \in 1..Len(log), NEW j \in 1..Len(log), f[i] = f[j] PROVE i = j
    <2>1. log[i].request.cycle = log[j].request.cycle /\ Slot(log[i].request) = Slot(log[j].request)
      BY <1>4
    <2>2. log[i].request = log[j].request
      BY <1>2, <2>1, SlotsDiffer
    <2> QED
      BY <1>1, <2>2 DEF LogOK
  <1> HIDE DEF f
  <1>5. f \in Injection(1..Len(log), T)
    BY <1>3, <1>4 DEF Injection, IsInjective
  <1>6. IsFiniteSet(T) /\ Cardinality(T) = Requests
    BY PlacesFinite
  <1> HIDE DEF T
  <1>7. Cardinality(1..Len(log)) <= Requests
    BY <1>5, <1>6, FS_Injection
  <1>8. Len(log) \in Nat
    BY <1>1 DEF LogOK
  <1>9. Cardinality(1..Len(log)) = Len(log)
    <2>1. Len(log) \in Int /\ 1 \in Int /\ (1 > Len(log) => Len(log) = 0) /\ Len(log) - 1 + 1 = Len(log)
      BY <1>8
    <2> QED
      BY <2>1, FS_Interval
  <1> QED
    BY <1>7, <1>9

(* As long as all requests of the run have a number of 16 bits, the sequence  *)
(* numbers do not wrap.                                                       *)
THEOREM NumbersSuffice == FirstSeq = 1 /\ Requests <= 2^16 - 2 => (Spec => []BelowWrap)
  <1>1. ASSUME FirstSeq = 1, Requests <= 2^16 - 2 PROVE Spec => []BelowWrap
    <2>1. Init => NodeInv /\ StageInv /\ AnswersOK
      BY <1>1, InitSimulates, InitStage
    <2>2. StageInv => BelowWrap
      <3> SUFFICES ASSUME StageInv PROVE BelowWrap
        OBVIOUS
      <3>1. Len(log) <= Requests /\ Requests \in Nat /\ Len(log) \in Nat /\ 2^16 - 2 \in Nat
        <4>1. NumRemote \in Nat /\ MaxCycle \in Nat
          BY BoundsAssumption
        <4>2. Requests \in Nat
          BY <4>1 DEF Requests
        <4>3. log \in Seq(R2!Preprepare)
          BY DEF StageInv, StageOn, LogOK
        <4>4. Len(log) \in Nat
          BY <4>3
        <4>5. 2^16 - 2 \in Nat
          BY R2Assumptions
        <4> QED
          BY <4>2, <4>4, <4>5, LogBounded
      <3> QED
        BY <1>1, <3>1 DEF BelowWrap
    <2>3. NodeInv /\ StageInv /\ AnswersOK /\ [Next]_vars => (NodeInv /\ StageInv /\ AnswersOK)'
      <3>1. NodeInv /\ StageInv /\ AnswersOK /\ [Next]_vars => StageInv' /\ AnswersOK'
        BY NextStage, NextAnswers
      <3>2. StageInv' => BelowWrap'
        BY <2>2, PTL
      <3> QED
        BY <3>1, <3>2, NextNodeInv
    <2> QED
      BY <2>1, <2>2, <2>3, PTL DEF Spec
  <1> QED
    BY <1>1

(* All of it together, for such runs and without a condition on their states. *)
THEOREM NodeCorrect ==
    FirstSeq = 1 /\ Requests <= 2^16 - 2 =>
        (Spec => /\ MessageSet!Spec
                 /\ [](/\ TypeOK /\ NoMessageStranded /\ WakeUpOnTheWay /\ JuggleQueueBounded
                       /\ StagesInOrder /\ MessageSet!AssertionsHold))
  <1>1. ASSUME FirstSeq = 1, Requests <= 2^16 - 2
        PROVE  Spec => /\ MessageSet!Spec
                       /\ [](/\ TypeOK /\ NoMessageStranded /\ WakeUpOnTheWay /\ JuggleQueueBounded
                             /\ StagesInOrder /\ MessageSet!AssertionsHold)
    <2>1. Spec => []BelowWrap
      BY <1>1, NumbersSuffice
    <2>2. Spec /\ []BelowWrap => MessageSet!Spec
      BY <1>1, QueuesImplementRound2
    <2>3. Spec /\ []BelowWrap => []NoMessageStranded
      BY <1>1, MessagesNotStranded
    <2>4. Spec /\ []BelowWrap => []JuggleQueueBounded
      BY <1>1, JuggleQueuesBounded
    <2>5. Spec /\ []BelowWrap => []MessageSet!AssertionsHold
      BY <1>1, NodeAssertions
    <2>6. Spec /\ []BelowWrap => []StagesInOrder
      BY <1>1, StagesCommitInOrder
    <2>7. Spec /\ []BelowWrap => []TypeOK
      BY <1>1, TypeCorrect
    <2>8. Spec => []WakeUpOnTheWay
      BY NoWakeUpLost
    <2> QED
      BY <2>1, <2>2, <2>3, <2>4, <2>5, <2>6, <2>7, <2>8, PTL
  <1> QED
    BY <1>1
================================================================================
