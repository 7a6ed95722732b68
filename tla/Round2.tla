------------------------------- MODULE Round2 --------------------------------
(***************************************************************************)
(* The second round of RCanopus inside one Byzantine group: Preprepare     *)
(* from the leader, PartialCommit to a collector, FullCommit from the      *)
(* collector.  One action per message handler of ConnManager.              *)
(*                                                                         *)
(* Channels, the receive queue and the juggle queue of every SL are one    *)
(* set of messages: a message a handler would juggle stays in the set      *)
(* until its handler accepts it.  Round2Node has the queues and implements *)
(* this module.  A handler whose assertion fails has no step (the process  *)
(* dies of FailFast); AssertionsHold says that this never happens.         *)
(***************************************************************************)
EXTENDS ByzantineGroup, Sequences

CONSTANTS
    Entry,    \* request contents the leader may replicate
    MaxSeq    \* bound: no Preprepare is sent with a higher sequence number

(* Sequence numbers are uint16_t and start at 1: the bound keeps the model   *)
(* below the wrap (the increment after MaxSeq must still fit).               *)
ASSUME MaxSeqAssumption == MaxSeq \in 1..(2^16 - 2)

VARIABLES
    round2_next_seq,            \* per SL
    state,                      \* pRound2_current_status->state, "NONE" for nullptr
    round2_sequence,            \* pRound2_current_status->round2_sequence
    message_received_counter,   \* pRound2_current_status->message_received_counter
    round2_isCollector,         \* per SL
    stored,                     \* pTemporaryStorageOfPreprepare, as a set of at most one
    leader_collector_rr,        \* next collector, at the leader
    net,                        \* messages sent and not yet consumed
    log,                        \* history: Preprepares sent, log[i] has seq i
    delivered                   \* history: per SL, the Preprepares committed

status == <<state, round2_sequence, message_received_counter, round2_isCollector, stored>>
vars == <<round2_next_seq, status, leader_collector_rr, net, log, delivered>>

Seq16 == 0..(2^16 - 1)

States == {"NONE", "WAITING_FOR_PREPREPARE", "COLLECTOR_WAITING_FOR_PARTIALCOMMITS",
           "WAITING_FOR_FULLCOMMIT"}

Idle == {"NONE", "WAITING_FOR_PREPREPARE"}

Preprepare == [request : Entry, collector_SLid : SL]

(* view is 1 in every message (there is no view change) and is left out.     *)
PreprepareMessage == [type : {"PREPREPARE"}, seq : Seq16, body : Preprepare, to : SL]
PartialCommitMessage == [type : {"PARTIAL_COMMIT"}, seq : Seq16, sender : SL, to : SL]
FullCommitMessage == [type : {"FULL_COMMIT"}, seq : Seq16, to : SL]
Message == PreprepareMessage \cup PartialCommitMessage \cup FullCommitMessage

TypeOK ==
    /\ round2_next_seq \in [SL -> Seq16]
    /\ state \in [SL -> States]
    /\ round2_sequence \in [SL -> Seq16]
    /\ message_received_counter \in [SL -> 0..N]
    /\ round2_isCollector \in [SL -> BOOLEAN]
    /\ stored \in [SL -> SUBSET Preprepare]
    /\ leader_collector_rr \in SL
    /\ net \subseteq Message
    /\ log \in Seq(Preprepare)
    /\ delivered \in [SL -> Seq(Preprepare)]

Init ==
    /\ round2_next_seq = [n \in SL |-> 1]
    /\ state = [n \in SL |-> "NONE"]
    /\ round2_sequence = [n \in SL |-> 0]
    /\ message_received_counter = [n \in SL |-> 0]
    /\ round2_isCollector = [n \in SL |-> FALSE]
    /\ stored = [n \in SL |-> {}]
    /\ leader_collector_rr = 0
    /\ net = {}
    /\ log = <<>>
    /\ delivered = [n \in SL |-> <<>>]

-----------------------------------------------------------------------------
(* Messages *)

(* Mutant: no copy to myself.                                                *)
PrepreparesToOthers(s, p) ==
    {[type |-> "PREPREPARE", seq |-> s, body |-> p, to |-> n] : n \in SL \ {Leader}}

Preprepares(s, p) ==
    {[type |-> "PREPREPARE", seq |-> s, body |-> p, to |-> n] : n \in SL}

PartialCommit(s, n, collector) ==
    [type |-> "PARTIAL_COMMIT", seq |-> s, sender |-> n, to |-> collector]

FullCommit(s, n) == [type |-> "FULL_COMMIT", seq |-> s, to |-> n]

FullCommits(s) == {FullCommit(s, n) : n \in SL}

-----------------------------------------------------------------------------
(* Mutant: the index is not set back.                                        *)
NextCollectorNoReset == leader_collector_rr + 1

(* Who collects next: every SL in turn, the leader included.                  *)
NextCollector ==
    IF leader_collector_rr + 1 = N THEN 0 ELSE leader_collector_rr + 1

(* leader_round2_sendPreprepare, the message part: the sequence number, the   *)
(* next collector, a copy for every SL.  rest is what else is in flight.      *)
SendPreprepare(e, rest) ==
    LET p == [request |-> e, collector_SLid |-> leader_collector_rr]
    IN  /\ Len(log) < MaxSeq
        /\ log' = Append(log, p)
        /\ net' = rest \cup Preprepares(round2_next_seq[Leader], p)
        /\ round2_next_seq' = [round2_next_seq EXCEPT ![Leader] = (@ + 1) % 2^16]
        /\ leader_collector_rr' = NextCollector

(* Mutant: an instance is open, but the leader has not voted yet.            *)
CanStartBeforeVote == state[Leader] \in Idle

(* canStartRound2 also wants a batch from everyone or a Round 3 result: what *)
(* there is to start with is left open here.                                 *)
canStartRound2 == state[Leader] = "NONE"

Propose(e) ==
    /\ canStartRound2
    /\ SendPreprepare(e, net)
    /\ state' = [state EXCEPT ![Leader] = "WAITING_FOR_PREPREPARE"]
    /\ message_received_counter' = [message_received_counter EXCEPT ![Leader] = 0]
    /\ UNCHANGED <<round2_sequence, round2_isCollector, stored, delivered>>

(* Mutant: an open instance, and its Preprepare, are overwritten.            *)
AcceptsWhileOpen(m) ==
    /\ m.type = "PREPREPARE"
    /\ m.seq <= round2_next_seq[m.to]
    /\ m.to # Leader => m.seq = round2_next_seq[m.to]

(* What a Preprepare passes on its way into the temporary storage.           *)
Accepts(m) ==
    /\ m.type = "PREPREPARE"
    /\ state[m.to] \in Idle
    /\ m.seq <= round2_next_seq[m.to]
    /\ m.to # Leader => m.seq = round2_next_seq[m.to]
    /\ stored[m.to] = {}

HandlePreprepare(m) ==
    LET n == m.to
        collects == m.body.collector_SLid = n
    IN  /\ Accepts(m)
        /\ round2_sequence' = [round2_sequence EXCEPT ![n] = m.seq]
        /\ round2_next_seq' = IF n = Leader THEN round2_next_seq
                              ELSE [round2_next_seq EXCEPT ![n] = (@ + 1) % 2^16]
        /\ round2_isCollector' = [round2_isCollector EXCEPT ![n] = collects]
        /\ state' = [state EXCEPT ![n] = IF collects THEN "COLLECTOR_WAITING_FOR_PARTIALCOMMITS"
                                         ELSE "WAITING_FOR_FULLCOMMIT"]
        /\ message_received_counter' = [message_received_counter EXCEPT ![n] = 0]
        /\ net' = (net \ {m}) \cup {PartialCommit(m.seq, n, m.body.collector_SLid)}
        /\ stored' = [stored EXCEPT ![n] = {m.body}]
        /\ UNCHANGED <<leader_collector_rr, log, delivered>>

(* Everything a PartialCommit or FullCommit for the open instance passes.    *)
Counts(m) ==
    /\ m.type = "PARTIAL_COMMIT"
    /\ state[m.to] = "COLLECTOR_WAITING_FOR_PARTIALCOMMITS"
    /\ m.seq = round2_sequence[m.to]
    /\ round2_isCollector[m.to]

(* Mutant: the collector does not wait for its own PartialCommit.            *)
AllButOne == N - 1

message_required == N

HandlePartialCommit(m) ==
    /\ Counts(m)
    /\ message_received_counter[m.to] + 1 # message_required
    /\ message_received_counter' = [message_received_counter EXCEPT ![m.to] = @ + 1]
    /\ net' = net \ {m}
    /\ UNCHANGED <<round2_next_seq, state, round2_sequence, round2_isCollector, stored,
                   leader_collector_rr, log, delivered>>

HandleLastPartialCommit(m) ==
    /\ Counts(m)
    /\ message_received_counter[m.to] + 1 = message_required
    /\ message_received_counter' = [message_received_counter EXCEPT ![m.to] = 0]
    /\ state' = [state EXCEPT ![m.to] = "WAITING_FOR_FULLCOMMIT"]
    /\ net' = (net \ {m}) \cup FullCommits(m.seq)
    /\ UNCHANGED <<round2_next_seq, round2_sequence, round2_isCollector, stored,
                   leader_collector_rr, log, delivered>>

(* The part of dispatcher_round2_fullCommit every SL executes.               *)
Commit(m) ==
    /\ m.type = "FULL_COMMIT"
    /\ state[m.to] = "WAITING_FOR_FULLCOMMIT"
    /\ m.seq = round2_sequence[m.to]
    /\ \E p \in stored[m.to] : delivered' = [delivered EXCEPT ![m.to] = Append(@, p)]
    /\ stored' = [stored EXCEPT ![m.to] = {}]
    /\ UNCHANGED <<round2_sequence, round2_isCollector>>

(* At the leader: nothing waits for Round 2, so none is spawned.             *)
HandleFullCommit(m) ==
    /\ Commit(m)
    /\ state' = [state EXCEPT ![m.to] = "NONE"]
    /\ net' = net \ {m}
    /\ UNCHANGED <<round2_next_seq, message_received_counter, leader_collector_rr, log>>

(* The leader spawns the next instance before it handles another message.    *)
HandleFullCommitAndSpawn(m, e) ==
    /\ m.to = Leader
    /\ Commit(m)
    /\ state' = [state EXCEPT ![Leader] = "WAITING_FOR_PREPREPARE"]
    /\ message_received_counter' = [message_received_counter EXCEPT ![Leader] = 0]
    /\ SendPreprepare(e, net \ {m})

Next ==
    \/ \E e \in Entry : Propose(e)
    \/ \E m \in net :
        \/ HandlePreprepare(m)
        \/ HandlePartialCommit(m)
        \/ HandleLastPartialCommit(m)
        \/ HandleFullCommit(m)
        \/ \E e \in Entry : HandleFullCommitAndSpawn(m, e)

Spec == Init /\ [][Next]_vars

(* Each SL's dispatcher loop keeps consuming what it can consume.            *)
Handle(n) ==
    \E m \in net :
        /\ m.to = n
        /\ \/ HandlePreprepare(m)
           \/ HandlePartialCommit(m)
           \/ HandleLastPartialCommit(m)
           \/ HandleFullCommit(m)
           \/ \E e \in Entry : HandleFullCommitAndSpawn(m, e)

FairSpec == Spec /\ \A n \in SL : WF_vars(Handle(n))

-----------------------------------------------------------------------------
(* What each SL has voted for: one more than it delivered while an instance  *)
(* is open.                                                                  *)
Voted(n) == Len(delivered[n]) + (IF state[n] \in Idle THEN 0 ELSE 1)

(* What the SLs apply is the same everywhere: each has delivered a prefix of *)
(* what the leader sent, in the leader's order, none twice and none skipped. *)
Agreement ==
    \A n \in SL :
        /\ Len(delivered[n]) <= Len(log)
        /\ \A i \in 1..Len(delivered[n]) : delivered[n][i] = log[i]

(* No DebugThrow of the three handlers trips, no Preprepare is missing on a  *)
(* FullCommit and none is overwritten, for any message in flight, were it    *)
(* dispatched now.  A message that comes early is juggled, not asserted on;  *)
(* an SL without an open instance never has a Preprepare too early.          *)
AssertionsHold ==
    \A m \in net :
        LET n == m.to IN
        /\ (m.type = "PREPREPARE" /\ state[n] \in Idle) => Accepts(m)
        /\ (m.type = "PARTIAL_COMMIT" /\ state[n] \notin Idle /\ m.seq <= round2_sequence[n]) =>
              Counts(m)
        /\ (m.type = "FULL_COMMIT" /\ state[n] \notin Idle) =>
              /\ state[n] = "WAITING_FOR_FULLCOMMIT"
              /\ m.seq = round2_sequence[n]
              /\ stored[n] # {}

(* dispatcher_round2_fullCommit juggles a FullCommit that finds no open      *)
(* instance; none ever does, because all SLs voted before it was sent.       *)
FullCommitNeverEarly ==
    \A m \in net : m.type = "FULL_COMMIT" => state[m.to] \notin Idle

(* "Should verify the combined signature contains a signature from everyone  *)
(* in this BG": the code does not verify, the counting makes it true.        *)
FullCommitIsUnanimous ==
    \A m \in net : m.type = "FULL_COMMIT" => \A n \in SL : Voted(n) >= m.seq

(* dispatcher_round2_preprepare juggles while an instance is open: what it   *)
(* then juggles is the Preprepare of the very next instance, because the     *)
(* leader opens none before it committed the last, with everyone's vote.     *)
OneInstanceAhead ==
    \A m \in net : m.type = "PREPREPARE" /\ state[m.to] \notin Idle =>
        m.seq = round2_sequence[m.to] + 1

(* The promise to Round 3.                                                   *)
Abstract == INSTANCE BGLog WITH
    Entry <- Preprepare,
    voted <- [n \in SL |-> Voted(n)],
    delivered <- [n \in SL |-> Len(delivered[n])]

ImplementsBGLog == Abstract!FairSpec

(* Without its votes the group is the replicated log that Round3 builds on:  *)
(* no SL is more than one applied Preprepare behind another, which lets      *)
(* Round 3 ask any SL of a group (ConnManager.cpp:1805).                     *)
ImplementsGroupLog == Abstract!ImplementsGroupLog

(* What the leader sends out is applied by every SL in the end: no order of  *)
(* the messages leaves an SL with an instance that it cannot finish.         *)
EveryEntryDelivered == Abstract!EveryEntryDelivered

==============================================================================
