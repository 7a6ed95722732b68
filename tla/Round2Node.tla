------------------------------ MODULE Round2Node ------------------------------
(***************************************************************************)
(* The SLs of one Byzantine group with their queues: ConnManager's main    *)
(* loop, the juggle queue, the FIFO connections, the leader's scheduler    *)
(* (request batches, the self-pipe, the priority queue of Round 3 work)    *)
(* and the Round 2 handlers as ConnManager dispatches them.                *)
(*                                                                         *)
(* A step of an SL is one call of dispatcher_round2: on a message from     *)
(* recvQueue, or on the next message of the pass over juggleQueue that     *)
(* follows every such call.  chan[s][d] is the path from SL s to SL d      *)
(* (sendQueue, sender thread, socket, listener thread, recvQueue); only    *)
(* messages of one path keep their order.  The Round 3 messages that come  *)
(* early wait in the same juggle queue (juggledRound3): of their place in  *)
(* it only the pass matters, which tries each of them once.  A handler     *)
(* whose assertion fails has no step: the process dies of FailFast.        *)
(***************************************************************************)
EXTENDS ByzantineGroup, Sequences, FiniteSets

CONSTANTS
    NumRemote,  \* number of remote groups: 0, or more when Round 3 runs
    MaxCycle,   \* bound: batches each client submits
    FirstSeq    \* sequence number of the first Preprepare of the run

ASSUME BoundsAssumption == NumRemote \in Nat /\ MaxCycle \in Nat /\ FirstSeq \in 1..(2^16 - 1)

Cycle == 1..MaxCycle

(* const.h; REMOTE_CONNECTIVITY is never created.                            *)
FROM_CLIENT == 0
FETCHED_RESULT == 1
LOCAL_CONNECTIVITY == 2
LOCAL_MEMBERSHIP == 4
FULL_MEMBERSHIP == 5
RequestType == {FROM_CLIENT, FETCHED_RESULT, LOCAL_CONNECTIVITY, LOCAL_MEMBERSHIP,
                FULL_MEMBERSHIP}

Request == [requestType : RequestType, cycle : Cycle, BGid : 0..NumRemote]
Remote == 1..NumRemote

(* The Round 3 messages of group BGid that a handler may juggle.             *)
Round3Message == [type : {"CONNECTIVITY_REQUEST", "CONNECTIVITY_RESPONSE", "MEMBERSHIP_RESPONSE"},
                  cycle : Cycle, BGid : Remote]

VARIABLES
    chan, juggleQueue,
    pass,                       \* calls left in the pass over juggleQueue
    juggledRound3,              \* per SL, the Round 3 messages of the queue
    passRound3,                 \* those of them the pass has still to try
    arrived,                    \* history: the Round 3 messages that came
    round2_next_seq, state, round2_sequence, message_received_counter,
    round2_isCollector, stored, \* as in Round2
    leader_collector_rr,
    leader_round2_next_rcanopus_cycle,
    leader_batch_processed,
    rgLeader_batch_received_from,  \* entry 0: leader_batch_received_from_self
    pending,                    \* pLeaderRound2PendingPreprepareRaw
    fetched,                    \* per cycle, remote results committed at the leader
    submitted,                  \* per SL, batches its client thread has sent
    pipe,                       \* wake-ups written and not read by the listener
    empties,                    \* MESSAGE_EMPTY in the leader's recvQueue
    pushed,                     \* history: everything ever put in pending
    log, delivered              \* histories, as in Round2

queues == <<chan, juggleQueue>>
round3 == <<juggledRound3, passRound3, arrived>>
status == <<round2_sequence, round2_isCollector, stored>>
leader == <<leader_collector_rr, leader_round2_next_rcanopus_cycle, leader_batch_processed>>
client == <<submitted, pipe>>
vars == <<queues, pass, round3, round2_next_seq, state, message_received_counter, status, leader,
          rgLeader_batch_received_from, pending, fetched, client, empties, pushed, log, delivered>>

Idle == {"NONE", "WAITING_FOR_PREPREPARE"}

Init ==
    /\ chan = [s \in SL |-> [d \in SL |-> <<>>]]
    /\ juggleQueue = [n \in SL |-> <<>>]
    /\ pass = [n \in SL |-> 0]
    /\ juggledRound3 = [n \in SL |-> {}]
    /\ passRound3 = [n \in SL |-> {}]
    /\ arrived = {}
    /\ round2_next_seq = [n \in SL |-> FirstSeq]
    /\ state = [n \in SL |-> "NONE"]
    /\ round2_sequence = [n \in SL |-> 0]
    /\ message_received_counter = [n \in SL |-> 0]
    /\ round2_isCollector = [n \in SL |-> FALSE]
    /\ stored = [n \in SL |-> {}]
    /\ leader_collector_rr = (FirstSeq - 1) % N
    /\ leader_round2_next_rcanopus_cycle = 1
    /\ leader_batch_processed = 0
    /\ rgLeader_batch_received_from = [s \in SL |-> 0]
    /\ pending = {}
    /\ fetched = [c \in Cycle |-> 0]
    /\ submitted = [s \in SL |-> 0]
    /\ pipe = 0
    /\ empties = 0
    /\ pushed = {}
    /\ log = <<>>
    /\ delivered = [n \in SL |-> <<>>]

-----------------------------------------------------------------------------
(* Messages and queues.  c is the state of the channels after the message    *)
(* being handled was taken, q the juggle queue without it.                    *)

PreprepareMessage(s, p, d) == [type |-> "PREPREPARE", seq |-> s, body |-> p, to |-> d]
PartialCommit(s, n, d) == [type |-> "PARTIAL_COMMIT", seq |-> s, sender |-> n, to |-> d]
FullCommit(s, d) == [type |-> "FULL_COMMIT", seq |-> s, to |-> d]

Send(c, n, m) == [c EXCEPT ![n][m.to] = Append(@, m)]
Broadcast(c, n, copy) == [c EXCEPT ![n] = [d \in SL |-> Append(@[d], copy[d])]]

Consume(n, c, q) ==
    /\ chan' = c
    /\ juggleQueue' = [juggleQueue EXCEPT ![n] = q]

(* Mutants: an early message is dropped, or juggled to the front.             *)
DropEarly(n, m, c, q) == Consume(n, c, q)
JuggleFirst(n, m, c, q) == Consume(n, c, <<m>> \o q)

Juggle(n, m, c, q) == Consume(n, c, Append(q, m))

-----------------------------------------------------------------------------
(* The leader's scheduler.  st, from and pend are state, the batch counters   *)
(* and the priority queue as the calling handler leaves them.                 *)

canStartRound2(st, from, pend) ==
    /\ st[Leader] = "NONE"
    /\ pend # {} \/ \A s \in SL : from[s] > leader_batch_processed

NextBatch == [requestType |-> FROM_CLIENT, cycle |-> leader_round2_next_rcanopus_cycle, BGid |-> 0]

(* std::priority_queue with cmpRequestType: the largest request type first,   *)
(* equal ones in any order.                                                   *)
Top(pend) == {r \in pend : \A o \in pend : o.requestType <= r.requestType}

leader_round2_sendPreprepare(st, pend, c) ==
    \E r \in IF pend # {} THEN Top(pend) ELSE {NextBatch} :
        LET p == [request |-> r, collector_SLid |-> leader_collector_rr]
            one == IF pend # {} THEN 0 ELSE 1
        IN  /\ state' = [st EXCEPT ![Leader] = "WAITING_FOR_PREPREPARE"]
            /\ message_received_counter' = [message_received_counter EXCEPT ![Leader] = 0]
            /\ pending' = pend \ {r}
            /\ leader_round2_next_rcanopus_cycle' = leader_round2_next_rcanopus_cycle + one
            /\ leader_batch_processed' = leader_batch_processed + one
            /\ round2_next_seq' = [round2_next_seq EXCEPT ![Leader] = (@ + 1) % 2^16]
            /\ leader_collector_rr' = IF leader_collector_rr + 1 = N
                                      THEN 0 ELSE leader_collector_rr + 1
            /\ chan' = Broadcast(c, Leader,
                   [d \in SL |-> PreprepareMessage(round2_next_seq[Leader], p, d)])
            /\ log' = Append(log, p)

(* The end of every leader handler: start Round 2 if possible.                *)
SpawnRound2(st, from, pend, c) ==
    \/ /\ canStartRound2(st, from, pend)
       /\ leader_round2_sendPreprepare(st, pend, c)
    \/ /\ ~canStartRound2(st, from, pend)
       /\ state' = st
       /\ pending' = pend
       /\ chan' = c
       /\ UNCHANGED <<message_received_counter, round2_next_seq, leader, log>>

-----------------------------------------------------------------------------
(* Round 2 messages at SL n.                                                  *)

(* A Preprepare that finds no open instance opens one, even when it is then   *)
(* juggled for its sequence number.                                           *)
JugglePreprepare(n, m, c, q) ==
    /\ m.type = "PREPREPARE"
    /\ state[n] \notin Idle \/ m.seq > round2_next_seq[n]
    /\ state' = [state EXCEPT ![n] = IF @ = "NONE" THEN "WAITING_FOR_PREPREPARE" ELSE @]
    /\ message_received_counter' =
          [message_received_counter EXCEPT ![n] = IF state[n] = "NONE" THEN 0 ELSE @]
    /\ Juggle(n, m, c, q)
    /\ UNCHANGED <<round2_next_seq, status, leader, rgLeader_batch_received_from, pending,
                   fetched, pushed, log, delivered>>

HandlePreprepare(n, m, c, q) ==
    LET collects == m.body.collector_SLid = n
    IN  /\ m.type = "PREPREPARE"
        /\ state[n] \in Idle
        /\ m.seq <= round2_next_seq[n]
        /\ n # Leader => m.seq = round2_next_seq[n]
        /\ stored[n] = {}
        /\ round2_sequence' = [round2_sequence EXCEPT ![n] = m.seq]
        /\ round2_next_seq' = IF n = Leader THEN round2_next_seq
                              ELSE [round2_next_seq EXCEPT ![n] = (@ + 1) % 2^16]
        /\ round2_isCollector' = [round2_isCollector EXCEPT ![n] = collects]
        /\ state' = [state EXCEPT ![n] = IF collects THEN "COLLECTOR_WAITING_FOR_PARTIALCOMMITS"
                                         ELSE "WAITING_FOR_FULLCOMMIT"]
        /\ message_received_counter' = [message_received_counter EXCEPT ![n] = 0]
        /\ stored' = [stored EXCEPT ![n] = {m.body}]
        /\ Consume(n, Send(c, n, PartialCommit(m.seq, n, m.body.collector_SLid)), q)
        /\ UNCHANGED <<leader, rgLeader_batch_received_from, pending, fetched, pushed, log,
                       delivered>>

(* A PartialCommit or FullCommit that comes too early.                        *)
JuggleCommit(n, m, c, q) ==
    /\ \/ m.type \in {"PARTIAL_COMMIT", "FULL_COMMIT"} /\ state[n] \in Idle
       \/ m.type = "PARTIAL_COMMIT" /\ m.seq > round2_sequence[n]
    /\ Juggle(n, m, c, q)
    /\ UNCHANGED <<round2_next_seq, state, message_received_counter, status, leader,
                   rgLeader_batch_received_from, pending, fetched, pushed, log, delivered>>

(* The collector counts; the last PartialCommit makes it send FullCommit.     *)
HandlePartialCommit(n, m, c, q) ==
    LET last == message_received_counter[n] + 1 = N
    IN  /\ m.type = "PARTIAL_COMMIT"
        /\ round2_isCollector[n]
        /\ state[n] = "COLLECTOR_WAITING_FOR_PARTIALCOMMITS"
        /\ m.seq = round2_sequence[n]
        /\ message_received_counter' =
              [message_received_counter EXCEPT ![n] = IF last THEN 0 ELSE @ + 1]
        /\ state' = [state EXCEPT ![n] = IF last THEN "WAITING_FOR_FULLCOMMIT" ELSE @]
        /\ Consume(n, IF last THEN Broadcast(c, n, [d \in SL |-> FullCommit(m.seq, d)]) ELSE c, q)
        /\ UNCHANGED <<round2_next_seq, status, leader, rgLeader_batch_received_from, pending,
                       fetched, pushed, log, delivered>>

(* The request type decides what a FullCommit does to the cycle: here only    *)
(* the count of fetched results, which at the leader ends in new Round 2 work.*)
FetchedNow(n, r) ==
    IF n = Leader /\ r.requestType = FETCHED_RESULT
    THEN [fetched EXCEPT ![r.cycle] = @ + 1] ELSE fetched

(* Mutant: the first fetched result ends the fetching.                        *)
ConnectivityOnFirst(n, r) ==
    IF /\ n = Leader
       /\ r.requestType = FETCHED_RESULT
       /\ fetched[r.cycle] + 1 = 1
    THEN {[requestType |-> LOCAL_CONNECTIVITY, cycle |-> r.cycle, BGid |-> 0]}
    ELSE {}

ConnectivityWork(n, r) ==
    IF /\ n = Leader
       /\ r.requestType = FETCHED_RESULT
       /\ fetched[r.cycle] + 1 = NumRemote
    THEN {[requestType |-> LOCAL_CONNECTIVITY, cycle |-> r.cycle, BGid |-> 0]}
    ELSE {}

HandleFullCommit(n, m, c, q) ==
    /\ m.type = "FULL_COMMIT"
    /\ state[n] = "WAITING_FOR_FULLCOMMIT"
    /\ m.seq = round2_sequence[n]
    /\ \E p \in stored[n] :
        LET work == ConnectivityWork(n, p.request)
            idle == [state EXCEPT ![n] = "NONE"]
        IN  /\ delivered' = [delivered EXCEPT ![n] = Append(@, p)]
            /\ fetched' = FetchedNow(n, p.request)
            /\ pushed' = pushed \cup work
            /\ IF n = Leader
               THEN SpawnRound2(idle, rgLeader_batch_received_from, pending \cup work, c)
               ELSE /\ state' = idle
                    /\ chan' = c
                    /\ UNCHANGED <<pending, message_received_counter, round2_next_seq, leader, log>>
    /\ stored' = [stored EXCEPT ![n] = {}]
    /\ juggleQueue' = [juggleQueue EXCEPT ![n] = q]
    /\ UNCHANGED <<round2_sequence, round2_isCollector, rgLeader_batch_received_from>>

dispatcher_round2(n, m, c, q) ==
    \/ JugglePreprepare(n, m, c, q)
    \/ HandlePreprepare(n, m, c, q)
    \/ JuggleCommit(n, m, c, q)
    \/ HandlePartialCommit(n, m, c, q)
    \/ HandleFullCommit(n, m, c, q)

-----------------------------------------------------------------------------
(* start(): a message from recvQueue, then each juggled message once.         *)

Blocked(n) == pass[n] = 0 /\ passRound3[n] = {}

StartPass(n) ==
    /\ pass' = [pass EXCEPT ![n] = Len(juggleQueue'[n])]
    /\ passRound3' = [passRound3 EXCEPT ![n] = juggledRound3'[n]]

Receive(n) ==
    /\ Blocked(n)
    /\ \E s \in SL :
        /\ chan[s][n] # <<>>
        /\ dispatcher_round2(n, Head(chan[s][n]), [chan EXCEPT ![s][n] = Tail(@)], juggleQueue[n])
    /\ UNCHANGED <<juggledRound3, arrived, client, empties>>
    /\ StartPass(n)

(* Mutant: the message is tried but not popped.                               *)
RetryWithoutPop(n) ==
    /\ pass[n] > 0
    /\ dispatcher_round2(n, Head(juggleQueue[n]), chan, juggleQueue[n])
    /\ pass' = [pass EXCEPT ![n] = @ - 1]
    /\ UNCHANGED <<round3, client, empties>>

Retry(n) ==
    /\ pass[n] > 0
    /\ dispatcher_round2(n, Head(juggleQueue[n]), chan, Tail(juggleQueue[n]))
    /\ pass' = [pass EXCEPT ![n] = @ - 1]
    /\ UNCHANGED <<round3, client, empties>>

(* What every other message does at the leader: note something, then start    *)
(* Round 2 if possible.                                                       *)
LeaderNotes(from, work) ==
    /\ SpawnRound2(state, from, pending \cup work, chan)
    /\ rgLeader_batch_received_from' = from
    /\ pushed' = pushed \cup work
    /\ UNCHANGED <<juggleQueue, status, fetched, client, delivered>>

LeaderReceive(from, work) ==
    /\ Blocked(Leader)
    /\ LeaderNotes(from, work)
    /\ UNCHANGED <<juggledRound3, arrived>>
    /\ StartPass(Leader)

(* MESSAGE_ROUND2_REQUEST from SL s.                                          *)
ReceiveRequest(s) ==
    /\ s # Leader
    /\ rgLeader_batch_received_from[s] < submitted[s]
    /\ LeaderReceive([rgLeader_batch_received_from EXCEPT ![s] = @ + 1], {})
    /\ UNCHANGED empties

(* MESSAGE_EMPTY: the leader's own client has a batch.                        *)
ReceiveEmpty ==
    /\ empties > 0
    /\ empties' = empties - 1
    /\ LeaderReceive(rgLeader_batch_received_from, {})

-----------------------------------------------------------------------------
(* Client threads.  On the leader the counter is raised first and the         *)
(* dispatcher is woken through the pipe after it.                             *)

rest == <<queues, pass, round3, round2_next_seq, state, message_received_counter, status, leader,
          pending, fetched, pushed, log, delivered>>

mockClient(s) ==
    /\ s # Leader
    /\ submitted[s] < MaxCycle
    /\ submitted' = [submitted EXCEPT ![s] = @ + 1]
    /\ UNCHANGED <<rest, pipe, empties, rgLeader_batch_received_from>>

(* Mutant: the wake-up first, the counter after it.                           *)
WakeThenCount ==
    \/ /\ submitted[Leader] < MaxCycle
       /\ submitted[Leader] = rgLeader_batch_received_from[Leader]
       /\ submitted' = [submitted EXCEPT ![Leader] = @ + 1]
       /\ pipe' = pipe + 1
       /\ UNCHANGED <<rest, empties, rgLeader_batch_received_from>>
    \/ /\ rgLeader_batch_received_from[Leader] < submitted[Leader]
       /\ rgLeader_batch_received_from' = [rgLeader_batch_received_from EXCEPT ![Leader] = @ + 1]
       /\ UNCHANGED <<rest, empties, client>>

mockClientOnLeader ==
    \/ /\ rgLeader_batch_received_from[Leader] < MaxCycle
       /\ rgLeader_batch_received_from[Leader] = submitted[Leader]
       /\ rgLeader_batch_received_from' = [rgLeader_batch_received_from EXCEPT ![Leader] = @ + 1]
       /\ UNCHANGED <<rest, empties, client>>
    \/ /\ submitted[Leader] < rgLeader_batch_received_from[Leader]
       /\ submitted' = [submitted EXCEPT ![Leader] = @ + 1]
       /\ pipe' = pipe + 1
       /\ UNCHANGED <<rest, empties, rgLeader_batch_received_from>>

(* Mutant: no MESSAGE_EMPTY is enqueued.                                      *)
DrainOnly ==
    /\ pipe > 0
    /\ pipe' = 0
    /\ UNCHANGED <<rest, empties, submitted, rgLeader_batch_received_from>>

(* The listener thread drains the pipe and enqueues one MESSAGE_EMPTY.        *)
ListenPipe ==
    /\ pipe > 0
    /\ pipe' = 0
    /\ empties' = empties + 1
    /\ UNCHANGED <<rest, submitted, rgLeader_batch_received_from>>

-----------------------------------------------------------------------------
(* Round 3 as Round 2 sees it: answers of remote groups that reach the leader *)
(* and become Round 2 work, and messages that come early and are juggled.     *)

round2 == <<queues, round2_next_seq, state, message_received_counter, status, leader,
            rgLeader_batch_received_from, pending, fetched, client, pushed, log, delivered>>

Work(t, c, b) == [requestType |-> t, cycle |-> c, BGid |-> b]

Has(n, t, c) == \E i \in 1..Len(delivered[n]) :
    delivered[n][i].request.requestType = t /\ delivered[n][i].request.cycle = c

(* The envoy, any SL, asked group b once it had committed the batch.          *)
ReceiveFetchResponse(c, b) ==
    /\ \E n \in SL : Has(n, FROM_CLIENT, c)
    /\ Work(FETCHED_RESULT, c, b) \notin pushed
    /\ LeaderReceive(rgLeader_batch_received_from, {Work(FETCHED_RESULT, c, b)})
    /\ UNCHANGED empties

(* The entry of an SL's log from which it takes a Round 3 message, and the    *)
(* one from which it does so no more: a request needs a cycle it knows, an    *)
(* answer a leader that waits for it.                                         *)
Opens == [CONNECTIVITY_REQUEST |-> FROM_CLIENT, CONNECTIVITY_RESPONSE |-> LOCAL_CONNECTIVITY,
          MEMBERSHIP_RESPONSE |-> LOCAL_MEMBERSHIP]
Closes == [CONNECTIVITY_REQUEST |-> FULL_MEMBERSHIP, CONNECTIVITY_RESPONSE |-> LOCAL_MEMBERSHIP,
           MEMBERSHIP_RESPONSE |-> FULL_MEMBERSHIP]

Accepts(n, m) == Has(n, Opens[m.type], m.cycle) /\ ~Has(n, Closes[m.type], m.cycle)

(* The answers the leader has taken are those that came and are not juggled.  *)
Answered(t, c) == {b \in Remote :
    [type |-> t, cycle |-> c, BGid |-> b] \in arrived \ juggledRound3[Leader]}

(* The cycle is in mapRound3Status, where an answer has to find it.           *)
Knows(n, c) == Has(n, FROM_CLIENT, c) /\ ~Has(n, FULL_MEMBERSHIP, c)

JuggleRound3(n, m) ==
    /\ ~Accepts(n, m)
    /\ m.type # "CONNECTIVITY_REQUEST" => Knows(n, m.cycle)
    /\ juggledRound3' = [juggledRound3 EXCEPT ![n] = @ \cup {m}]
    /\ UNCHANGED round2

(* A request is answered or kept for later: Round 2 sees nothing of it.       *)
HandleConnectivityRequest(n, m) ==
    /\ m.type = "CONNECTIVITY_REQUEST"
    /\ Accepts(n, m)
    /\ juggledRound3' = [juggledRound3 EXCEPT ![n] = @ \ {m}]
    /\ UNCHANGED round2

(* The last answer becomes work; after every answer the leader may start.     *)
HandleConnectivityResponse(n, m) ==
    LET last == Answered(m.type, m.cycle) \cup {m.BGid} = Remote
    IN  /\ m.type = "CONNECTIVITY_RESPONSE"
        /\ n = Leader
        /\ Accepts(n, m)
        /\ juggledRound3' = [juggledRound3 EXCEPT ![n] = @ \ {m}]
        /\ LeaderNotes(rgLeader_batch_received_from,
                       IF last THEN {Work(LOCAL_MEMBERSHIP, m.cycle, 0)} ELSE {})

(* The last answer becomes work, and only then may the leader start.          *)
HandleMembershipResponse(n, m) ==
    LET last == Answered(m.type, m.cycle) \cup {m.BGid} = Remote
    IN  /\ m.type = "MEMBERSHIP_RESPONSE"
        /\ n = Leader
        /\ Accepts(n, m)
        /\ juggledRound3' = [juggledRound3 EXCEPT ![n] = @ \ {m}]
        /\ \/ last /\ LeaderNotes(rgLeader_batch_received_from,
                                  {Work(FULL_MEMBERSHIP, m.cycle, 0)})
           \/ /\ ~last
              /\ UNCHANGED round2

dispatcher_round3(n, m) ==
    \/ JuggleRound3(n, m)
    \/ HandleConnectivityRequest(n, m)
    \/ HandleConnectivityResponse(n, m)
    \/ HandleMembershipResponse(n, m)

(* An answer comes, or a request that is early, once somebody has caused it:  *)
(* this group's envoy asked when it had committed the stage, the other group  *)
(* asks with the result of this group's batch in its hands.  Answers end up   *)
(* at the leader.                                                             *)
ReceiveRound3(n) ==
    /\ Blocked(n)
    /\ \E m \in Round3Message \ arrived :
        /\ IF m.type = "CONNECTIVITY_REQUEST" THEN ~Has(n, FROM_CLIENT, m.cycle) ELSE n = Leader
        /\ \E s \in SL : Has(s, Opens[m.type], m.cycle)
        /\ dispatcher_round3(n, m)
        /\ arrived' = arrived \cup {m}
    /\ StartPass(n)
    /\ UNCHANGED empties

RetryRound3(n) ==
    /\ \E m \in passRound3[n] :
        /\ dispatcher_round3(n, m)
        /\ passRound3' = [passRound3 EXCEPT ![n] = @ \ {m}]
    /\ UNCHANGED <<pass, arrived, empties>>

(* Any other message of Round 3, a request that is not early or an answer to  *)
(* forward to the leader: all Round 2 sees is another pass.                   *)
ReceiveOther(n) ==
    /\ NumRemote > 0
    /\ Blocked(n)
    /\ juggleQueue[n] # <<>> \/ juggledRound3[n] # {}
    /\ UNCHANGED <<round2, juggledRound3, arrived, empties>>
    /\ StartPass(n)

Round3 ==
    \/ \E c \in Cycle, b \in Remote : ReceiveFetchResponse(c, b)
    \/ ReceiveRound3(Leader)

(* What is in recvQueue, Round 2 and what it waits for, is dequeued in the end*)
(* whatever else arrives.                                                     *)
Dequeue(n) ==
    \/ Receive(n)
    \/ n = Leader /\ (ReceiveEmpty \/ (\E s \in SL : ReceiveRequest(s)) \/ Round3)

Next ==
    \/ \E n \in SL : Receive(n)
    \/ \E n \in SL : Retry(n)
    \/ ReceiveEmpty
    \/ \E s \in SL : ReceiveRequest(s)
    \/ \E c \in Cycle, b \in Remote : ReceiveFetchResponse(c, b)
    \/ \E n \in SL : ReceiveRound3(n)
    \/ \E n \in SL : RetryRound3(n)
    \/ \E n \in SL : ReceiveOther(n)
    \/ mockClientOnLeader
    \/ \E s \in SL : mockClient(s)
    \/ ListenPipe

Spec == Init /\ [][Next]_vars

(* Every thread keeps running: the dispatcher loops, the clients and the      *)
(* listener never block on each other.  Strong fairness of Dequeue is the     *)
(* order of recvQueue.  That a remote group answers is an assumption on its   *)
(* Round 3.                                                                   *)
FairSpec ==
    /\ Spec
    /\ \A n \in SL : SF_vars(Dequeue(n)) /\ WF_vars(Retry(n) \/ RetryRound3(n))
    /\ WF_vars(mockClientOnLeader) /\ WF_vars(ListenPipe)
    /\ \A s \in SL : WF_vars(mockClient(s))

-----------------------------------------------------------------------------
InFlight == UNION {{chan[s][d][i] : i \in 1..Len(chan[s][d])} : s \in SL, d \in SL}
Juggled == UNION {{juggleQueue[n][i] : i \in 1..Len(juggleQueue[n])} : n \in SL}

TypeOK ==
    /\ state \in [SL -> Idle \cup {"COLLECTOR_WAITING_FOR_PARTIALCOMMITS",
                                   "WAITING_FOR_FULLCOMMIT"}]
    /\ round2_next_seq \in [SL -> 0..(2^16 - 1)]
    /\ message_received_counter \in [SL -> 0..N]
    /\ \A n \in SL : pass[n] \in 0..Len(juggleQueue[n])
    /\ arrived \subseteq Round3Message
    /\ \A n \in SL : passRound3[n] \subseteq juggledRound3[n] /\ juggledRound3[n] \subseteq arrived
    /\ \A n \in SL : Cardinality(stored[n]) <= 1
    /\ pending \subseteq Request /\ pending \subseteq pushed
    /\ fetched \in [Cycle -> 0..NumRemote]
    /\ \A m \in InFlight \cup Juggled : m.to \in SL

(* The queues implement the message set of Round2: every dispatch is a step   *)
(* of that module or changes nothing it can see.  Its invariants, the ones    *)
(* proved of it among them, therefore hold of the queues: no assertion of the *)
(* dispatcher trips, whatever the order in which connections are served.      *)
MessageSet == INSTANCE Round2 WITH
    Entry <- Request,
    MaxSeq <- 2^16 - 2,
    net <- InFlight \cup Juggled

ImplementsRound2 == MessageSet!FairSpec

(* A wake-up of the leader is never lost: when it could start Round 2 and has *)
(* not, its own client is about to write the pipe, or the listener to read    *)
(* it, or a MESSAGE_EMPTY is in the queue.                                    *)
WakeUpOnTheWay ==
    canStartRound2(state, rgLeader_batch_received_from, pending) =>
        \/ submitted[Leader] < rgLeader_batch_received_from[Leader]
        \/ pipe > 0
        \/ empties > 0

(* Would the handler accept this juggled message instead of juggling again?   *)
Acceptable(n, m) ==
    \/ m.type = "PREPREPARE" /\ state[n] \in Idle /\ m.seq <= round2_next_seq[n]
    \/ /\ m.type = "PARTIAL_COMMIT"
       /\ state[n] \notin Idle
       /\ m.seq <= round2_sequence[n]

(* start() tries each juggled message once per received message and then      *)
(* blocks on recvQueue.  A message the pass made acceptable behind its back   *)
(* (the Preprepare follows the PartialCommit it enables) is not stranded:     *)
(* another message is on its way to this SL, if only its own copy.            *)
(* A Round 3 message is never left behind.                                    *)
NoMessageStranded ==
    \A n \in SL :
        /\ \A i \in 1..Len(juggleQueue[n]) :
            pass[n] = 0 /\ Acceptable(n, juggleQueue[n][i]) =>
                \E s \in SL : chan[s][n] # <<>>
        /\ \A m \in juggledRound3[n] : Accepts(n, m) => m \in passRound3[n]

(* An SL never juggles more than one instance ahead can send it before the    *)
(* FullCommit it waits for: a Preprepare, and the PartialCommits of the other *)
(* SLs but the collector, whose FullCommit went ahead on the same path.  Of   *)
(* Round 3 it juggles one message of each remote group at most: those of one  *)
(* stage of one cycle, because what opens the stage is the next commit.       *)
JuggleQueueBounded ==
    \A n \in SL : Len(juggleQueue[n]) + Cardinality(juggledRound3[n]) <= N - 1 + NumRemote

(* dispatcher_round2_preprepare, ConnManager.cpp:899: "Keep the Preprepare    *)
(* message in a temporary storage until it's committed".                      *)
StoredUntilCommitted == \A n \in SL : stored[n] # {} ~> stored[n] = {}

(* What Round 3 asserts of the log at every SL: the stages of a cycle commit  *)
(* in order, the fetched results after the batch, the connectivity after all  *)
(* of them, the membership after that.                                        *)
StagesInOrder ==
    \A n \in SL : \A i, j \in 1..Len(delivered[n]) :
        LET a == delivered[n][i].request
            b == delivered[n][j].request
        IN  a.cycle = b.cycle /\ a.requestType < b.requestType => i < j

(* The batch of every cycle is committed by every SL; with remote groups, the *)
(* membership of the cycle is.                                                *)
EveryCycleCommits ==
    \A c \in Cycle : <>(\A n \in SL :
        Has(n, IF NumRemote = 0 THEN FROM_CLIENT ELSE FULL_MEMBERSHIP, c))
==============================================================================
