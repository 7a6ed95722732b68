# RCanopus membership: specifications

TLA+ specifications of the replication protocol in `ConnManager.cpp`, its two variants, and the
threads, sockets and queues it runs on, checked with TLC and, for its core, proved with TLAPS. Paths
and line numbers are of the repository's `src/`.

## The system

RCanopus orders client requests in *cycles* across several *Byzantine groups* (BGs). A BG
consists of *super-leaves* (SLs), each a process running one `ConnManager`; SL 0 of a BG is its
leader for ever (there is no view change). In each cycle a BG agrees on the batches of its own
clients (Round 2), then the BGs exchange their batches, their view of who is connected and the
resulting membership (Round 3). Everything a BG learns in Round 3 goes through its own Round 2
again, so that all its SLs apply it in the same order.

| Component | State | Operations | Interacts by |
|---|---|---|---|
| Round 2 (`dispatcher_round2_*`) | `pRound2_current_status`, `round2_next_seq`, `round2_isCollector`, `pTemporaryStorageOfPreprepare`, `leader_collector_rr` | Preprepare, PartialCommit, FullCommit handlers; `leader_round2_sendPreprepare` | messages between the SLs of a BG |
| Main loop (`start`) | `recvQueue`, `juggleQueue` | one message, then one pass over the juggled messages | queues to listener and sender threads |
| Leader's scheduler | `rgLeader_batch_received_from`, `leader_batch_processed`, `leader_batch_received_from_self`, `pLeaderRound2PendingPreprepareRaw` | `canStartRound2`, request handler, MESSAGE_EMPTY | called at the end of every leader handler |
| Clients (`mockClient`, `mockClientOnLeader`) | cycle counter | submit a batch; at the leader count it and write the self-pipe | `clientQueue`, the pipe, a shared counter |
| Round 3 (`dispatcher_round3_*`, envoys) | `mapRound3Status`, three maps of pending requests, `pStorage` | fetch requests and responses for results, connectivity, membership | messages between BGs; Round 2 of its own BG |
| Hybrid and Baseline variants | as Round 3 | other ways to do Round 3: every SL fetches, or a global leader collects | build-time alternatives to `ConnManager.cpp` |
| Mesh set-up, listener, sender | sockets, poll array, `sendQueue`, `clientQueue` | accept, connect, Hello; receive; serialise and send | TCP, queues |
| Messages | the buffer a message is composed in | conversion to network byte order in place, and back | sender and listener |
| Vendored queues | `recvQueue` (many producers, one consumer), `sendQueue` and `clientQueue` (one producer, one consumer) with their semaphores | enqueue, dequeue with and without a time limit | shared memory, atomics |
| Configuration, storage, utilities | -, a set of finished cycles | parsing; `store`, `exist` | - |

What is hard here:

* Messages of different senders overtake each other. A Preprepare (from the leader) can arrive
  before the FullCommit (from a collector) of the instance before it, a PartialCommit before the
  Preprepare it answers. Handlers *juggle* what comes too early and assert on the rest.
* The juggle queue is retried once after each received message and never otherwise.
* Nothing is verified: signatures are zero, senders are not compared, counters alone decide. It is
  right only as long as every message is sent once and arrives once.
* The leader has a single slot for Round 2 and must notice when it can start again: after a
  commit, a client batch, its own client's wake-up, a Round 3 result.
* Three threads of a leader (client, listener, dispatcher) share a counter and a pipe.
* Sequence and cycle numbers are 16 bits wide.
* A cycle goes through six stages with one counter. What the groups ask each other goes to random
  SLs that may be behind or ahead: too early is kept or juggled, too late is asserted not to happen.
* The sender blocks while a peer does not read; the sockets of all SLs may be full at once.
* SLs start in any order and wait for each other before they serve anything.
* The queues are lock-free: blocks that are reused while the other thread looks at them, and a wait
  on a semaphore after which a value is assumed to be visible.

Correct means: all SLs of a BG apply the same log (Round 2); no assertion trips; what was
proposed is committed in the end; no wake-up is lost; the stages of a cycle are applied in their
order; and no SL is so far behind another that Round 3 confuses "finished" with "not begun".
`PROJECT.json` lists the hazards at their lines, with the properties that cover them.

## Modules

```
ByzantineGroup                                      the SLs of a group and its leader, for these:
  GroupLog <- BGLog <- Round2 <- Round2Node         a group from inside; Round2Proofs,
                                                    Round2NodeProofs
GroupLog <- Round3      BGLog <- Round3Hybrid       a group as Round 3 uses it
Cycles   <- Round3, Round3Baseline                  the exchange between groups; Round3Proofs,
                                                    Round3HybridProofs, Round3BaselineProofs
Channels <- Transport     Mesh     ByteOrder        threads, sockets, messages; TransportProofs,
                                                    ConnectionProofs (Mesh, ByteOrder)
Fifo     <- ReaderWriterQueue                       sendQueue, clientQueue; ReaderWriterQueueProofs
```

`A <- B`: B is shown to implement A, by TLC with a refinement mapping and, but for fairness, by proof.
So the parts meet at small specifications: `Round2Node` takes FIFO channels, which is `Channels`; `Transport` takes
FIFO queues between the threads of an SL, which is `Fifo`; `Round3` takes replicated logs, which is `GroupLog`,
and `Round3Hybrid`, which delays votes, takes `BGLog`.

**BGLog** has a log, and per SL how many entries it voted for and how many it delivered. `Vote`
is the Preprepare handler, `Deliver` the FullCommit handler, `Certified` what the collector's
count guarantees, `Propose` and `DeliverAndPropose` the two moments at which the leader starts an
instance. **GroupLog** is `BGLog` without the votes: an SL applies the next entry when nobody is
behind it.

**Round2** has one action per handler of `ConnManager.cpp:811-1379`. `state` is
`pRound2_current_status->state` with `"NONE"` for a null pointer; `stored` is the temporary
storage, a set of at most one Preprepare; `net` holds every message that was sent and not yet
consumed, wherever it is: on its way, in a receive queue or juggled. `log` and `delivered` are
history variables. The view (always 1) and the signatures (always zero) are left out.
`HandleFullCommitAndSpawn` is the leader's commit when `canStartRound2` holds at its end: in the
code the next instance starts inside the handler (line 1375), so it is one step here.

**Round2Node** adds what decides *when* a handler runs. `chan[s][d]` is the FIFO path from SL
`s` to SL `d`, `juggleQueue[n]` the juggle queue, `pass[n]` how many messages the pass over it
still has to try. `Receive` is a dequeue from `recvQueue` followed by one `dispatcher_round2`
call, `Retry` one iteration of the loop in `start()`. `leader_round2_sendPreprepare`,
`canStartRound2`, `SpawnRound2` are the scheduler; they take the state, the batch counters and
the priority queue as the calling handler leaves them, because they run inside its step.
`mockClientOnLeader` is two steps, count and write the pipe, and `ListenPipe` the listener's. Of
Round 3 it has what Round 2 sees. Some messages become work in the leader's priority queue: results
(`ReceiveFetchResponse`), and the last answers on connectivity and on membership. Some come early and go
into the same juggle queue as the messages of Round 2: a connectivity request for a cycle that is not
known yet (line 1704), an answer to a leader that has not applied what it is waiting for (lines 1753,
1881). `juggledRound3[n]` are those in the queue of SL `n`, `passRound3[n]` those the pass has still to
try; `ReceiveRound3` and `RetryRound3` are `Receive` and `Retry` for them, with the handlers in
`dispatcher_round3`. Which of them is tried first, and whether before or after a message of Round 2, is
left open, so that every order the queue could have them in is covered. `arrived` is history: a message
comes once, and the answers the leader has are those that came and are not juggled. The rest of Round 3
only starts another pass (`ReceiveOther`). In `FirstSeq` the run chooses where the sequence numbers begin,
so that the wrap is in reach.

**Cycles** is what Round 3 promises: a group produces one result for a cycle, and an SL finishes the
cycle once, when it has learnt the results of all groups.

**Round3** has two or more groups, each a `GroupLog` (`log[b]`, `applied[n]`). `status[n][c]` is
`mapRound3Status`, with state `"NONE"` for a missing entry, the counter, and the slots of the three
arrays of answers that are filled; `waiting[n]` the three maps of pending requests; `storage[n]` the
finished cycles; `pending[b]` the leader's priority queue. `net` holds what was sent and not consumed,
juggled messages included: a handler that juggles is one that is not enabled. `Commit` is
`dispatcher_round2_fullCommit`, with one operator for each type of request; `Handle` has one operator
for each Round 3 handler. `SpawnRound2` starts the next instance inside the step of the handler, as the
code does. Where the code picks an SL at random, every choice is a behaviour.

**Round3Hybrid** shares what the files have in common with `Round3` (`Original!`). Every SL fetches,
and `Vote` waits for `HasAllResults`, so a group is a `BGLog` here. **Round3Baseline** replaces the
exchange of connectivity and membership by a vote of the leaders (`HandlePreprepare`,
`HandlePartialCommit`, `HandleFullCommit`); `failed` are the SLs whose dispatcher has thrown.

**Transport** has, for every SL, the queues into its sender, where the sender is in its loop, the
sockets (at most `Capacity` pieces of messages), the `revents` the listener works off, and the
message it is reading; `dead` are the processes that were killed. **Channels** is what that promises.
**Mesh** is the constructor: `main[n]` counts the connections down, `backlog` holds connections that
are established and not accepted, `listener` is the accepting thread. Its `listen` may fail, which ends
the thread and nothing else (`ListenFails`), and so may any `accept`.
**ByteOrder** follows one message through the sender's buffer, fields as bytes, on machines of either
order.

**ReaderWriterQueue** has one action for each access to memory that the other thread reads or writes;
`producer` and `consumer` are their places in the functions. What only one thread uses is folded into the neighbouring step.
Memory is sequentially consistent: the orderings asked of the atomics are assumed to be strong enough.

Operators commented as *mutants* are deliberate errors used to show that each property can fail.

## Runs

| Run | Instance | Question |
|---|---|---|
| `round2` | N=4, 2 requests, log of 5 | agreement, assertions and unanimity in any message order; does it implement BGLog, and the log Round 3 builds on? is every entry delivered? |
| `node_pipelined` | N=3, 1 remote BG, 2 cycles | is a juggled message of Round 2 or 3 ever stranded, does the juggle queue stay short, is a wake-up lost? |
| `node_round3` | N=3, 2 remote BGs, 1 cycle | do queues and scheduler implement Round2? are the stages in order? is the cycle committed? |
| `node_wrap` | N=3, first sequence number 65534 | violation: the group stops after sequence number 65535 |
| `round3` | 2 BGs of 3 SLs, 2 envoys, 2 and 1 cycles | does every message find its cycle and stage? was a finished cycle replicated everywhere? is work left behind? refinement to `GroupLog` and `Cycles` |
| `round3_three` | 3 BGs of 1 SL, 1 cycle | the shared counter: is an answer counted twice or in the wrong stage? do all cycles finish? |
| `round3_hybrid` | 2 BGs of 2 SLs, 2 and 1 cycles | does the delayed vote keep the stages in order, without a deadlock? refinement to `BGLog` |
| `round3_baseline` | 2 BGs of 2 SLs, 2 and 1 cycles | the vote of the leaders; does every cycle finish unless somebody throws? refinement to `Cycles` |
| `transport` | 3 SLs, sockets of 1 piece, one may be killed | refinement to `Channels`; own copy first; does back-pressure ever close a ring? |
| `mesh` | 4 SLs, backlog 1, any failures of listen, at most 2 of accept | do all constructors return? what does a failed listen or accept cost? |
| `byte_order` | 2 receivers, both byte orders | what arrives, and what the sender keeps |
| `spsc_queue` | blocks of 2 and 4, 9 values | refinement to `Fifo`; is everything dequeued? |

The bounds. Four SLs is the smallest group that tolerates a failure, and a log of five makes every
SL the collector and the leader twice, with the switch of collectors between two instances, which
is where messages of two instances meet. SLs are at most one entry apart (`OneInstanceAhead`), so a
longer log repeats what a log of five shows. Two cycles in `node_pipelined` are enough for a wake-up
that comes while an instance is open, and one that comes when none is. A cycle with two remote BGs is
six Round 2 instances (batch, two results, connectivity, two for the membership) and has a first and
a last remote result. `Round2` bounds the log by `MaxSeq`, `Round2Node` the batches by `MaxCycle`; no
other bound is needed. `CHECK_DEADLOCK FALSE` is where a bounded run ends.

Round 3: two groups have requests both ways and three have a first and a last answer; two SLs have a
leader that is not the first envoy, three with two envoys also one SL that is neither; cycles of a
group overlap as soon as there are two. `Batches` bounds the cycles. `FirstEnvoy` starts the round
robin at an SL that is not the leader, in `round3` at one from which it wraps. Sockets of one piece
are the hardest for back-pressure: more room only lets more through, and a message is two pieces
already. The backlog of `mesh` is smaller than the number of SLs that dial, so that a connect has to
retry; `MaxFailures` bounds the failures of accept. The blocks of the queue are scaled down, their
arithmetic is not: two and four slots where the code has 256 (`INIT_QUEUE_CAPACITY` is 128, and the first block
is rounded up from 129) and 512. Nine values fill the first block,
allocate the second and wrap around in both.

Fairness. In `Round2` each SL keeps handling some message it can handle (the dispatcher loop never
blocks while `recvQueue` has messages). In `Round2Node` each thread runs on: retries, clients,
listener; `Dequeue` is strongly fair, since `recvQueue` is FIFO per producer and other traffic cannot
keep a message in it for ever. That remote groups answer is assumed here. The leader's scheduler
has no fairness of its own: it runs inside handlers, and whether it runs often enough is the question.
In Round 3 a node keeps handling something it can handle (the juggle queue retries), keeps applying
its log, and clients submit their batches. In `Transport` and `Mesh` every thread that is not blocked
runs on; a process that was killed has no fairness, and liveness is stated for the behaviours in which
nobody is killed and neither listen nor accept fails. In the queue a thread in the middle of a call goes on, and the
consumer dequeues what has been enqueued.

### What the runs found

* **Wrap of the sequence number** (`node_wrap`, `ConnManager.cpp:831`). The leader increments its
  `uint16_t` sequence number when it sends and compares what it receives with `>`. After sending
  65535 it expects 0, takes its own Preprepare for a future one and juggles it for ever.

Seen while modelling, and part of the models that pass:

* **Round 3 of the baseline** (`ConnManager_Baseline.cpp:1816`). The result of a group is fetched from
  any of its SLs. If another SL of the group commits its batch first, the global leader can collect all
  results and send its Preprepare while the group's leader does not know the cycle; the leader throws
  (`Throw`). Messages that come too early are juggled a few lines further down. It is not the only place at
  which a leader may throw: with three groups a PartialCommit may also find a cycle unknown (line 1877).
  No property says which handlers throw.
* **The answer to late requests** (`ConnManager_Baseline.cpp:1016`). "prepare fake response with" the
  first message, but only its header is filled in; what is sent behind it is whatever the allocation
  held.
* **A failed accept** (`ConnManager.cpp:111`). It counts as one of the connections that are expected,
  the listening socket is closed before all SLs are connected, and the SL left out stays in "Retry until
  succeeds". By `OneSocketPerFailure` the SL that accepts lacks one socket for it, and no more. What
  the failure costs the SLs that dial is not in the model: the kernel resets the connections that are still in the
  backlog when the listening socket is closed, and there they count as sockets.
* **A failed listen** (`ConnManager.cpp:82`). The accepting thread returns -1, and the constructor, which
  waits for it, ignores the value (line 273). It goes on without the socket of any SL that connects to this
  one, and those stay in "Retry until succeeds".
* **Collector** (`ConnManager.cpp:761`). "Round-robin select collector excluding the leader", but the
  round robin starts at SL 0 and includes it. Nothing depends on it.

Two branches of the code are shown to be dead below the wrap: the juggle of a FullCommit without an
open instance (`FullCommitNeverEarly`) and that of a Preprepare with a higher sequence number while no
instance is open (`AssertionsHold`).

## Proofs

### A group: BGLog and Round2

For every N, every request set and every log length below the wrap (`NAssumption`: N is a positive
natural number; `MaxSeqAssumption`: the last sequence number is at most 65534):

* BGLog by itself (`Log`, the last section of `Round2Proofs`): `LogTypeCorrect`, `LagBound`, `OpenBound`. The
  inductive invariant ties the counters together: an SL votes at most one entry beyond what it
  delivered, nobody has delivered beyond anybody's votes, the leader keeps at most one entry open. `LagAtMostOne` is not inductive by
  itself because it does not mention votes. `LogImplemented`: BGLog implements `GroupLog`, because an
  entry is certified only when everybody voted for it, and who voted for it has delivered the one before.
* `Round2Proofs`: `TypeCorrect`, `AgreementHolds`, `NoAssertionFails`, `NoEarlyFullCommit`,
  `Unanimity`, `JuggleOneAhead`, all from one inductive invariant
  `IInv == TypeOK /\ Positions /\ OpenInstances /\ InFlight /\ Counting /\ Agreement`:
  - `Positions`: every SL's votes are at most one behind the log, and its expected sequence number
    follows its votes (the leader's follows the log);
  - `OpenInstances`: an open instance is for the SL's last vote, its Preprepare is stored, and only
    the collector of the last entry collects;
  - `InFlight`: what each kind of message in flight implies for its receiver and sender; a Preprepare
    is always of the last entry and its receiver has not voted for it, a PartialCommit is for the
    collector of the last entry, a FullCommit is for the receiver's open instance;
  - `Counting`: the collector's counter is the number of SLs whose PartialCommit it has consumed, so it
    reaches N only when everybody voted. This is where the counting without looking at the sender is
    justified, by a cardinality argument.
* `LogWithVotes`: Round2 implements BGLog, step by step: the handler of a Preprepare is a vote, that of
  a PartialCommit a stutter, that of a FullCommit a delivery, which is certified by `Counting`.
  `LogForRound3`: with `LogImplemented`, a group is the replicated log that Round 3 builds on.

### The SLs of a group: Round2Node

For every N, any number of remote groups and of batches (`BoundsAssumption`), first
`NoWakeUpLost`, whatever the first sequence number: `WakeUpOnTheWay` is inductive with the types of what
it mentions (`WakeInv`): every handler of the leader ends with the scheduler, after which nothing can be
started (`NothingLeftToStart`), and what the client thread does outside of it is covered by the order in
which it counts and writes the pipe.

Everything else starts from sequence number 1, as the code does (`ConnManager.cpp:180`, `FirstSeq = 1`),
and holds below the wrap of the sequence numbers: `BelowWrap` says that the log has at most 65534 entries.
Past it the group stops, which the run `node_wrap` shows. That a run stays below the wrap follows from
its constants: a group without repetition in its log (below) logs at most `MaxCycle * (NumRemote + 4)`
requests, `NumbersSuffice`. `NodeCorrect` says all that follows of the runs with at most 65534
requests, from the specification alone.

* `QueuesImplementRound2`: Round2Node implements Round2, whose message set is what the connections and
  the juggle queues hold. The invariant is `NodeInv`:
  - `QueuesOK`: a message is in one place of one queue only, and in a queue to the SL it is addressed to.
    A set forgets duplicates, so without this a step that takes a message out of a queue would not take it
    out of the set, and the counting of votes in Round2 would not carry over;
  - `PassOK`: a pass is over messages that are there; `Round3OK`: the same of those of Round 3; `SchedulerOK`: the counters of the leader's
    scheduler are in step with each other and with what the clients have submitted;
  - `R2!IInv`: the inductive invariant of Round2, under the mapping.

  A call of a handler is the handler of Round2; juggling a message moves it from one queue to another and
  is a stutter; so are the other threads. With it all that is proved of Round2 holds of Round2Node, in
  particular that no assertion trips (`NodeAssertions`) and, through `LogForRound3`, that the group is a
  replicated log.
* `MessagesNotStranded` and `JuggleQueuesBounded`. Of the messages of Round 2 they follow from `OrderInv`, which says what a set of messages
  cannot: the order in the connections. Collectors rotate (`Rotates`); as long as an SL has voted and not
  committed, and the collector has finished, the FullCommit is on its way to it (`FullCommitComing`), and ahead of
  everything that this collector sends later (`FullCommitFirst`). Of each juggle queue (`JuggleOK`): a
  message that could be handled is still ahead of the pass or another message is coming; a juggled
  Preprepare waits for the FullCommit of the open instance, a juggled PartialCommit for the Preprepare of
  the next one. The senders of the PartialCommits in one juggle queue differ, and while a Preprepare is
  there the collector of the instance before it is not among them, which bounds the queue by the other SLs.

  Of the messages of Round 3 they follow from `EarlyInv` (it needs `StageInv`, below): all of them that an SL juggles wait for
  one and the same entry, the next of its log, since whoever caused them had applied that entry and no SL is
  more than one entry behind another. So they are of one stage of one cycle, one of each remote group,
  and the next commit opens them all; the pass after it tries each of them, before the SL blocks again. A stage cannot
  close behind one that is still juggled, since the leader goes on only when all groups have answered
  (`AnswersOK`).
* `StagesCommitInOrder`, from `StageInv`: whatever was pushed to the leader's priority queue finds every
  earlier stage of its cycle in the log (`PushedOK`), no request is logged twice (`LogOK`), and the counter
  of fetched results is the number of remote groups whose result the leader has applied (`FetchedOK`), so
  that the connectivity is pushed once and after all of them. The priority queue prefers later stages; it
  is right only because it never holds two stages of one cycle of which one has to wait for the other.
* `TypeCorrect`: the type invariant of Round2Node, with the bounds of its counters.

### Between groups: Round3

For any number of groups (`SizeAssumption`: finitely many, at least two), any number of SLs and of
envoys among them (`EnvoysAssumption`), any place of the round robin of envoys (`FirstEnvoyAssumption`:
one that it reaches from SL 0) and any number of batches (`BatchesAssumption`).

Nobody acknowledges anything between the groups, and a handler that is asked about a cycle it does not
know has to conclude from the question alone whether the cycle is finished or not begun. The
conclusion rests on a chain through both groups, which `Round3Proofs` states for every group, kind
and cycle, and shows to be inductive (`SpecIInv`):

* `LogOK`, of the log of a group: its SLs apply it in step (`InStep`); every entry comes after those of
  the stages before it (`Ordered`), and so does what the leader has queued; nothing is in the log or
  the queue twice (`NoRepetition`); nothing is queued while the leader is idle (`NoIdleWork`). Without
  `NoRepetition` a second commit of an entry would trip the assertions; without the queue in `Ordered`
  the order would not survive the next instance.
* `StageOK`: the status of a cycle and the storage are functions of the entries the SL has applied,
  except for the slots of the other groups' answers; the counter is the number of slots filled.
* `PlanOK`: the leader queues a stage only when it has the answers of all groups for the one before.
* `HaveOK`: an answer the leader has was asked for by an envoy, which had applied the entry of that
  stage, and given when an SL of the other group had applied its own. With `InStep` this says
  something of *every* SL of the other group, one entry earlier.
* `FlightOK`, of messages and of requests that are kept: the question was asked, its answer is not yet
  with the leader, and an answer was given by a group that has it. `AskedOnce`: a question exists once, as
  a request, a kept request or an answer, though it changes from one to the next and the answer may
  be forwarded.

From this follow `TypeCorrect`, `NoAssertionTrips`, `UnknownMeansFinished`,
`CyclesReplicated`, `AnswersCountedOnce`, `NoWorkWaits`, which are the safety properties that the runs
`round3` and `round3_three` check; and two refinements. `GroupsAreLogs`: each group moves as a `GroupLog`,
the specification that `LogForRound3` shows Round 2 to implement, so that the two halves fit.
`CyclesImplemented`: the groups together implement `Cycles`.

Take `FinishedNotUnbegun`: SL n is asked for the membership of a cycle by group a. The envoy that asks
has applied a's membership (`FlightOK`), which a's leader queued when it had the connectivity of n's group
(`PlanOK`), which an SL of n's group had applied then (`HaveOK`), so that n has applied the entry before
that (`InStep`, `Ordered`), and has begun the cycle; if it does not know it, it has finished it
(`StageOK`).

`EveryoneIsFirstEnvoy` is about the round robin alone, and is the claim of the comment at
`ConnManager.cpp:709`: with 3f + 1 SLs and 2f + 1 envoys, for every f, the SLs that become the first envoy
are all of them. Three batches move the first envoy to the next SL (`ThreeBatches`), since
3(2f + 1) = 2(3f + 1) + 1.

### Between groups: Round3Hybrid

Under the same assumptions (here on the constants of `Round3Hybrid`, by the same names),
`Round3HybridProofs` shows `TypeCorrect`, `NoAssertionTrips` and `GroupsAreLogsWithVotes`. No handler of
the hybrid variant asserts or throws. Every SL fetches the results for itself, so they are not in the
log, and nothing in the log says that an SL has them. An SL commits the connectivity of a cycle in the
stage in which it has all results; the commit asserts that stage and does not wait for it. What makes it
right is the vote: an SL applies what *all* have voted for, so also what it voted for itself, and it
votes for a connectivity only with all results at hand (`HasAllResults`). The invariant has the parts of
`Round3` (`LogOK`, `StageOK`, `PlanOK`, `HaveOK`, `FlightOK`, `AskedOnce`), with these differences:

* `VotesOK`, of each group: an SL votes for at most one entry beyond what it has applied, and nobody has
  applied beyond anybody's votes. `VoteOK`, of each SL: among the entries it has voted for, a connectivity
  stands for a cycle of which it keeps the results of all groups, or which it has finished.
* `StageOK` reads the state of a cycle off the applied entries *and* the results that are there; results
  are not counted, and the counter is of the other answers (`CounterOf`).
* Two kinds of answers are kept by different SLs: results by the SL that asked, the others by the leader,
  whoever forwards them (`Holder`, `Holds`). `HaveOK`, `FlightOK` and `AskedOnce` are about the holder.

`GroupsAreLogsWithVotes`: each group moves as a `BGLog`, which Round 2 was shown to implement, although
`Round3Hybrid` takes only a part of those moves (it delays votes). Every handler moves the log of one group
at most (`GroupMove`), and the leader proposes where it has applied everything. That the log does not
outgrow the 5 entries per cycle `BGLog` is given room for is `LogBounded`: a log without repetition of
(cycle, type) pairs, mapped one to one to `Cycle \X (0..4)`.

### Between groups: Round3Baseline

For any number of groups and SLs (`SizeAssumption`), of envoys and places of the round robin
(`EnvoysAssumption`), of batches (`BatchesAssumption`), and whoever the global leader is
(`GlobalAssumption`). Here every SL asks for itself and the stages depend on less, so the invariant is a
different one. `Round3BaselineProofs` shows it to be inductive (`SpecIInv`):

* `LogOK`: the batch of a cycle is in the log of its group once, with a number below the next one, and never
  in the leader's queue. So it is committed once, and a cycle that was finished is not begun again.
* `StageOK`: an SL that has not applied the batch of a cycle (`Begun`) neither knows the cycle nor has
  finished it, and a cycle is past its first stage only with the answers of all groups.
* `FlightOK` and `AskedOnce`: each question exists once, as a request, a kept request or an answer; while it
  does, the SL that asked it is in the first stage of the cycle and lacks the answer.
* `AgreementOn`, of a cycle and its collector, which the Preprepare picks and the SLs do not know
  beforehand: who has voted was asked to; only the collector counts, and its counter is the number of groups
  whose vote it has taken (`Counted`); a FullCommit, and a leader that has finished, stand for the votes of
  the leaders of all groups. The counter is of `CycleStatus`, so that the collector counts in the entry
  with which it votes itself, and `~Voted(col, c)` has to say that it has taken nothing before.

The theorems: `ResponsesAreAwaited` and `LeadersAgreed`, the safety properties that the run
`round3_baseline` checks, `TypeCorrect`, and `CyclesImplemented`: each step lets one SL learn one result,
finish one cycle of which it has all results, or a group produce a batch, or is a stutter. That
`Cycles` counts to the largest number of batches needs that there is one: `MostBatches`, by well-founded
induction on the finite set of groups. An SL that has thrown stays in `failed` and takes no further step;
none of these properties depends on nobody throwing.

### Threads and sockets: Transport

For any number of SLs and any capacity of the sockets (`NumNodeAssumption`, `CapacityAssumption`: positive
natural numbers), whatever the SLs send (`WorkAssumption`) and whoever is killed (`MortalAssumption`),
`TransportProofs` shows `TypeCorrect`, `OwnCopyComesFirst`, `HeadersMeetTheirPayloads` and
`ChannelsImplemented`: sender threads, sockets and listener threads are `Channels`. The inductive invariant
has, besides types and the state of each sender (`SenderOK`: its remaining receivers are distinct, and its
element is its own),

* `Framing`, of every pair of SLs: the pieces in the socket are headers and payloads in turn, each payload
  after its header; the first piece is a payload exactly if the listener is at this socket in the middle
  of a message, and of that message; the last one is a header exactly if the sender is in the middle of
  writing to this SL. A socket that is empty is in the middle of a message on both sides or on neither;
* `Owned`, the elements of which the sender has its own copy: everything in a socket, in the hands of a
  sender or received is one. `OwnCopyFirst` alone is not inductive, as it does not say this of sockets.

What is on its way is then every other piece of the socket (`Whole`), and the message the sender still has
to write: taking an element sends it, reading a payload delivers it, all else is a stutter.

### Setting up the connections: Mesh

For any number of SLs (`NumNodeAssumption`), any length of the backlog (`BacklogAssumption`) and any number
of failed accepts (`FailuresAssumption`), the first half of `ConnectionProofs` shows `TypeCorrect` and
`SocketsComplete`: an SL that begins to poll lacks no more sockets than accepts have failed, at any SL; if its own
listen failed it lacks the sockets of the SLs that connect to it, and no other (`MainOK`). The accepting thread
counts the turns of its loop, not sockets, and closes the listening socket by that count (`ListenerOK`), so
the count has to be backed by sockets: `CountOK` says that it exceeds the number of SLs heard from by no
more than the failures. A Hello that came twice from one SL would break it. It does not, because of the
other side: the main thread connects to each SL once, in the order of their numbers (`MainOK`), so that the
connections queued or being read are of different SLs, none of which has a socket here yet (`QueueOK`),
while it has one there (`ActiveFirst`).

### The queues of the sender thread: ReaderWriterQueue

For blocks of any size up to `MAX_BLOCK_SIZE` (`SizeAssumption`: powers of two, which `ceilToPow2` sees to,
up to 1024) and any number of values (`MaxValueAssumption`), `ReaderWriterQueueProofs` shows `TypeCorrect`,
`NoAssertionFails` (the assertions of lines 357, 594 and 845) and `FifoImplemented`, the
property `ImplementsFifo` of the run. The values enqueued are 1, 2, ..., so what the queue holds is the interval
between the last value dequeued and the last one published, and the proof has to show that the consumer finds
these in the blocks, in this order:

* `Chained`: the blocks in use are a chain in the circle, from the front block to the one written to last
  (`Last`, which is the tail block or, until `Advance`, the one after it); all but the front block hold something,
  each continues with the value after the last one of the block before it, and the slots between `front` and `tail`
  hold consecutive values. The blocks outside the chain are empty: this is why the producer may enter the
  next one, unless it is the front block.
* `Producing` and `Consuming`, what each thread believes: the producer's copy of `front` is behind, so it
  underestimates the room; the consumer's copy of `tail` is behind, so it underestimates what is there. The consumer
  leaves a block only when it has seen that the tail block is another one and, after that, that this one is
  empty, in this order: the producer never returns to a block before the consumer has left it, so it stays empty.
* `Counted`: the semaphore, with the count about to be given and the one taken, is the number of values in
  the queue, though nothing in the code ties the two.

Every new block is made for one value (`Made`), so that one block more than there are values, which is the
bound of the model, is enough.

### Messages: ByteOrder

For any receivers, kinds of machines, numbers and contents below 2^16 (`HostAssumption`, `NumAssumption`,
`PayloadAssumption`), the second half of `ConnectionProofs` shows `FieldsArrive` and
`OwnCopyIsComposed`, which are the run's `ArrivesAsSent` and `OwnCopyAsComposed`. A message is written as the
numbers in it and the order each is stored in (`Stored`): composed, all of the sender's; on the wire, fields and
participants "big" (`SerializeStored`); received, fields and participants the receiver's
(`DeserializeStored`). Both directions need that every field is converted once (`FieldFacts`: the header's fields
are not among the others, and both sides list the same) and that the count of the participants is read while it is
in the order of the machine that reads it (`CountIsRead`). The invariant is about time: the buffer is converted once,
after the copy and before the first receiver, and no message is composed while a part of the last one is in a socket.

The inductive invariants were checked by TLC as well: that of `Round2` at N=3, that of `Round3` on the
instances of `round3` and `round3_three` and on part of one with three groups of two SLs, those of
`Round3Hybrid`, `Round3Baseline` and `Mesh` on the instances of their runs, that of `Transport` on the
instance of its run, with sockets of one and of three pieces, that of `ReaderWriterQueue` with blocks of two
and four and seven values, and those of `Round2Node` on the instances of `node_pipelined` and `node_round3`.

### Only model-checked

* Liveness (`EveryCycleFinishes` and its like, the fairness part of `ImplementsBGLog` and of
  `ImplementsRound2`): the provers have no rule for ENABLED, on which WF and SF rest.
* What Round2 and Round2Node do at and past the wrap of the sequence numbers.

## Not modelled

* The configuration and the start of the process, utilities, scripts and data: no state of the protocol.
* Crashes and lost connections beyond `Transport`: the code does not handle them ("We don't have
  failures yet", `ConnManager.cpp:1334`). `Transport` shows what a killed process leaves behind.
* Signatures: all zero in the code. Lengths of contents: line 730 leaves the fixed fields out of
  `payloadLen`, so that the end of a batch is not sent; the content is constant and nothing reads it.
* Round 3 of a group without others, where the commit of the batch finishes the cycle at once.
* The size of a read from the self-pipe (line 347): that fewer than 32 wake-ups pile up is an
  assumption on time.
* `concurrentqueue.h` behind `recvQueue` and the semaphores of both queues: taken at their contract, a
  queue that is FIFO for each producing thread and a count. They are general libraries of which the
  program uses two calls; a list of blocks, a hash table of threads and a free list below those calls
  say nothing about the replication protocol.
* Of `readerwriterqueue.h`: weak memory orderings; emplace, peek, pop, moves and destruction, which the
  program never calls; failing allocations and throwing constructors.
* Functions left in the files of the variants that their dispatchers never call.
* Undefined behaviour: `mapCycleSubmissionTime` is written and read by two threads (line 421), and
  `QueueElement::operator=` and `PeerConnection::send` return no value.

## Plan

Every safety property that the runs check is proved for every value of the constants. What remains is
liveness, which the provers cannot reach; the weak memory orderings below `ReaderWriterQueue`;
and, when the program handles crashes, their part of Round 2 and Round 3.
