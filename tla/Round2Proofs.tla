---------------------------- MODULE Round2Proofs -----------------------------
(* Proofs about Round2, for every group size, request set and log length      *)
(* below the wrap of the 16-bit sequence number: the assertions of the        *)
(* handlers hold, the SLs agree, a FullCommit is unanimous and never early,   *)
(* and every step is a step of BGLog or changes nothing BGLog can see.        *)
EXTENDS Round2, FiniteSets, FiniteSetTheorems, TLAPS

Collecting == "COLLECTOR_WAITING_FOR_PARTIALCOMMITS"

K == Len(log)
D(n) == Len(delivered[n])

(* The collector of the last instance, and whether it has sent FullCommit.    *)
Col == log[K].collector_SLid
Closed == Voted(Col) = K /\ state[Col] # Collecting

(* Whose PartialCommit for the last instance the collector has taken.         *)
Counted == {i \in SL : Voted(i) = K /\ PartialCommit(K, i, Col) \notin net}

(* The counters: nobody is more than one vote behind the log, the next        *)
(* expected sequence number follows the votes, the leader follows the log.    *)
Positions ==
    /\ K <= MaxSeq
    /\ round2_next_seq[Leader] = K + 1
    /\ \A n \in SL \ {Leader} : round2_next_seq[n] = Voted(n) + 1
    /\ \A n \in SL : Voted(n) <= K /\ K <= Voted(n) + 1
    /\ \A n \in SL \ {Leader} : state[n] # "WAITING_FOR_PREPREPARE"
    /\ IF state[Leader] = "NONE" THEN D(Leader) = K ELSE D(Leader) + 1 = K

(* An open instance belongs to the next entry to deliver and keeps its        *)
(* Preprepare; only the collector of the last instance collects.              *)
OpenInstances ==
    \A n \in SL :
        /\ state[n] \in Idle => stored[n] = {}
        /\ state[n] \notin Idle =>
              /\ round2_sequence[n] = Voted(n)
              /\ stored[n] = {log[Voted(n)]}
              /\ round2_isCollector[n] = (log[Voted(n)].collector_SLid = n)
        /\ state[n] = Collecting => Voted(n) = K /\ Col = n

PreprepareInFlight(m) ==
    /\ K > 0
    /\ m.seq = K
    /\ m.body = log[K]
    /\ Voted(m.to) + 1 = K

PartialCommitInFlight(m) ==
    /\ K > 0
    /\ m.seq = K
    /\ m.to = Col
    /\ Voted(m.sender) = K
    /\ ~Closed

FullCommitInFlight(m) ==
    /\ K > 0
    /\ m.seq = Voted(m.to)
    /\ state[m.to] = "WAITING_FOR_FULLCOMMIT"
    /\ m.seq = K => Closed

InFlight ==
    \A m \in net :
        /\ m.type = "PREPREPARE" => PreprepareInFlight(m)
        /\ m.type = "PARTIAL_COMMIT" => PartialCommitInFlight(m)
        /\ m.type = "FULL_COMMIT" => FullCommitInFlight(m)

(* The collector counts every SL once: its counter is the number of SLs whose *)
(* vote it has taken, and it sends FullCommit only when that is everybody.    *)
Counting ==
    K > 0 =>
        /\ Voted(Col) < K => Counted = {}
        /\ state[Col] = Collecting => message_received_counter[Col] = Cardinality(Counted)
        /\ Closed => \A n \in SL : Voted(n) = K
        /\ \A n \in SL : D(n) = K => Closed

IInv == TypeOK /\ Positions /\ OpenInstances /\ InFlight /\ Counting /\ Agreement
-----------------------------------------------------------------------------
(* SL 0 exists, and there are N SLs.                                          *)
LEMMA LeaderInSL == Leader \in SL
  BY NAssumption DEF Leader, SL

(* The SLs are finite in number, and there are N.                             *)
LEMMA SLFinite == IsFiniteSet(SL) /\ Cardinality(SL) = N
  BY NAssumption, FS_Interval DEF SL

(* The positions are natural numbers, and an SL votes at most one entry ahead.*)
PositionFacts ==
    /\ K \in Nat
    /\ \A n \in SL : D(n) \in Nat /\ Voted(n) \in Nat
    /\ \A n \in SL : state[n] \in Idle => Voted(n) = D(n)
    /\ \A n \in SL : state[n] \notin Idle => Voted(n) = D(n) + 1

(* What the type invariant says of positions in the log.                      *)
LEMMA PositionTypes == TypeOK => PositionFacts
  <1> SUFFICES ASSUME TypeOK PROVE PositionFacts
    OBVIOUS
  <1>1. K \in Nat
    BY DEF TypeOK, K
  <1>2. \A n \in SL : D(n) \in Nat
    BY DEF TypeOK, D
  <1>3. ASSUME NEW n \in SL
        PROVE  /\ Voted(n) \in Nat
               /\ state[n] \in Idle => Voted(n) = D(n)
               /\ state[n] \notin Idle => Voted(n) = D(n) + 1
    <2>1. Voted(n) = D(n) + (IF state[n] \in Idle THEN 0 ELSE 1)
      BY DEF Voted, D
    <2>2. D(n) \in Nat
      BY <1>2
    <2>3. CASE state[n] \in Idle
      BY <2>1, <2>2, <2>3
    <2>4. CASE state[n] \notin Idle
      BY <2>1, <2>2, <2>4
    <2> QED
      BY <2>3, <2>4
  <1> QED
    BY <1>1, <1>2, <1>3 DEF PositionFacts

(* A message in flight has the fields of its type.                            *)
LEMMA MessageFields ==
    ASSUME TypeOK, NEW m \in net
    PROVE  /\ m.to \in SL /\ m.seq \in Seq16
           /\ m.type = "PREPREPARE" =>
                 m \in PreprepareMessage /\ m.body \in Preprepare
           /\ m.type = "PARTIAL_COMMIT" =>
                 m \in PartialCommitMessage /\ m.sender \in SL
                 /\ m = PartialCommit(m.seq, m.sender, m.to)
           /\ m.type = "FULL_COMMIT" => m = FullCommit(m.seq, m.to)
           /\ m.type \in {"PREPREPARE", "PARTIAL_COMMIT", "FULL_COMMIT"}
  BY DEF TypeOK, Message, PreprepareMessage, PartialCommitMessage, FullCommitMessage,
         PartialCommit, FullCommit

(* The sequence number after one below the wrap.                              *)
LEMMA NextSeq ==
    ASSUME NEW x \in Nat, x <= MaxSeq + 1
    PROVE  x \in Seq16 /\ x <= MaxSeq => (x + 1) % 2^16 = x + 1 /\ x + 1 \in Seq16
  <1>1. 2^16 = 65536
    BY SMT
  <1> QED
    BY <1>1, MaxSeqAssumption DEF Seq16

(* The last entry exists and names an SL as its collector.                    *)
LEMMA ColInSL ==
    ASSUME TypeOK, K > 0
    PROVE  log[K] \in Preprepare /\ Col \in SL
  <1>1. log \in Seq(Preprepare) /\ K \in Nat /\ K = Len(log)
    BY DEF TypeOK, K
  <1>2. log[K] \in Preprepare
    BY <1>1
  <1> QED
    BY <1>2 DEF Col, Preprepare
-----------------------------------------------------------------------------
(* The strengthened invariant holds in the initial state.                     *)
LEMMA InitIInv == Init => IInv
  <1> SUFFICES ASSUME Init PROVE IInv
    OBVIOUS
  <1>1. K = 0 /\ log = <<>> /\ net = {}
    BY DEF Init, K
  <1>2. \A n \in SL : D(n) = 0 /\ state[n] = "NONE" /\ state[n] \in Idle /\ stored[n] = {}
    BY DEF Init, D, Idle
  <1>3. TypeOK
    <2>1. 1 \in Seq16 /\ 0 \in Seq16 /\ 0 \in 0..N
      BY NAssumption DEF Seq16
    <2> QED
      BY <2>1, LeaderInSL DEF Init, TypeOK, States, Leader
  <1>4. \A n \in SL : Voted(n) = 0
    BY <1>2, <1>3, PositionTypes DEF PositionFacts
  <1>5. Positions
    BY <1>1, <1>2, <1>4, LeaderInSL, MaxSeqAssumption DEF Init, Positions
  <1>6. OpenInstances
    BY <1>2 DEF OpenInstances, Collecting
  <1>7. InFlight /\ Counting
    BY <1>1 DEF InFlight, Counting
  <1>8. Agreement
    BY <1>1, <1>2 DEF Agreement, D, K
  <1> QED
    BY <1>3, <1>5, <1>6, <1>7, <1>8 DEF IInv

(* A Preprepare handled: the SL votes and is as far as the log.               *)
LEMMA HandlePreprepareIInv ==
    ASSUME IInv, NEW m \in net, HandlePreprepare(m)
    PROVE  IInv'
  <1> DEFINE n == m.to
             pc == PartialCommit(m.seq, n, m.body.collector_SLid)
  <1>1. /\ TypeOK /\ n \in SL /\ m \in PreprepareMessage /\ m.type = "PREPREPARE"
        /\ m.body \in Preprepare /\ m.seq \in Seq16
    BY MessageFields DEF IInv, HandlePreprepare, Accepts
  <1>2. /\ K > 0 /\ m.seq = K /\ m.body = log[K] /\ Voted(n) + 1 = K
        /\ m.body.collector_SLid = Col
    BY <1>1 DEF IInv, InFlight, PreprepareInFlight, Col
  <1>3. /\ K \in Nat /\ Col \in SL /\ log[K] \in Preprepare
        /\ \A i \in SL : D(i) \in Nat /\ Voted(i) \in Nat
    BY <1>1, <1>2, PositionTypes, ColInSL DEF PositionFacts
  <1>4. state[n] \in Idle /\ Voted(n) = D(n)
    BY <1>1, PositionTypes DEF PositionFacts, HandlePreprepare, Accepts
  <1>5. log' = log /\ delivered' = delivered /\ K' = K /\ Col' = Col /\ \A i \in SL : D(i)' = D(i)
    BY DEF HandlePreprepare, K, Col, D
  <1>6. /\ state'[n] = IF Col = n THEN Collecting ELSE "WAITING_FOR_FULLCOMMIT"
        /\ state'[n] \notin Idle
        /\ \A i \in SL \ {n} : state'[i] = state[i]
    <2>1. state' = [state EXCEPT ![n] = IF Col = n THEN Collecting ELSE "WAITING_FOR_FULLCOMMIT"]
      BY <1>2 DEF HandlePreprepare, Collecting
    <2> QED
      BY <1>1, <2>1 DEF TypeOK, Idle, Collecting
  <1>7. TypeOK'
    <2>1. pc \in Message
      BY <1>1, <1>2, <1>3 DEF Message, PartialCommitMessage, PartialCommit
    <2>2. net' \subseteq Message
      BY <1>1, <2>1 DEF HandlePreprepare, TypeOK
    <2>3. state' \in [SL -> States]
      BY <1>1 DEF HandlePreprepare, TypeOK, States
    <2>4. round2_next_seq' \in [SL -> Seq16]
      <3>1. \A x \in Seq16 : (x + 1) % 2^16 \in Seq16
        BY SMT DEF Seq16
      <3> QED
        BY <1>1, <3>1 DEF HandlePreprepare, TypeOK
    <2>5. 0 \in 0..N
      BY NAssumption
    <2> QED
      BY <1>1, <2>2, <2>3, <2>4, <2>5 DEF HandlePreprepare, TypeOK
  <1>8. Voted(n)' = K /\ \A i \in SL \ {n} : Voted(i)' = Voted(i)
    <2>1. PositionFacts /\ PositionFacts'
      BY <1>1, <1>7, PositionTypes, PTL
    <2>2. Voted(n)' = K
      BY <1>1, <1>2, <1>4, <1>5, <1>6, <2>1 DEF PositionFacts
    <2>3. ASSUME NEW i \in SL \ {n} PROVE Voted(i)' = Voted(i)
      BY <1>5, <1>6, <2>1 DEF PositionFacts
    <2> QED
      BY <2>2, <2>3
  <1>9. ~Closed /\ ~Closed'
    <2>1. ~Closed
      BY <1>1, <1>2, <1>3 DEF IInv, Counting
    <2>2. CASE Col = n
      BY <1>5, <1>6, <2>1, <2>2 DEF Closed
    <2>3. CASE Col # n
      BY <1>3, <1>5, <1>6, <1>8, <2>1, <2>3 DEF Closed
    <2> QED
      BY <2>2, <2>3
  <1>10. Positions'
    <2>1. \A i \in SL \ {Leader} : round2_next_seq'[i] = Voted(i)' + 1
      <3> SUFFICES ASSUME NEW i \in SL \ {Leader} PROVE round2_next_seq'[i] = Voted(i)' + 1
        OBVIOUS
      <3>1. round2_next_seq[i] = Voted(i) + 1
        BY DEF IInv, Positions
      <3>2. CASE i = n
        <4>1. round2_next_seq'[n] = (round2_next_seq[n] + 1) % 2^16
          BY <1>1, <3>2 DEF HandlePreprepare, TypeOK
        <4>2. round2_next_seq[n] = K /\ K <= MaxSeq
          BY <1>2, <3>1, <3>2 DEF IInv, Positions
        <4>3. K \in Seq16
          BY <1>1, <1>2
        <4> QED
          BY <1>3, <1>8, <3>2, <4>1, <4>2, <4>3, NextSeq, MaxSeqAssumption
      <3>3. CASE i # n
        BY <1>1, <1>8, <3>1, <3>3 DEF HandlePreprepare, TypeOK
      <3> QED
        BY <3>2, <3>3
    <2>2. round2_next_seq'[Leader] = K + 1
      BY <1>1, LeaderInSL DEF HandlePreprepare, TypeOK, IInv, Positions
    <2>3. \A i \in SL : Voted(i)' <= K /\ K <= Voted(i)' + 1
      BY <1>3, <1>8 DEF IInv, Positions
    <2>4. \A i \in SL \ {Leader} : state'[i] # "WAITING_FOR_PREPREPARE"
      BY <1>6 DEF IInv, Positions, Idle
    <2>5. IF state'[Leader] = "NONE" THEN D(Leader) = K ELSE D(Leader) + 1 = K
      <3>1. CASE n = Leader
        BY <1>2, <1>3, <1>4, <1>6, <3>1 DEF Idle
      <3>2. CASE n # Leader
        BY <1>6, <3>2, LeaderInSL DEF IInv, Positions
      <3> QED
        BY <3>1, <3>2
    <2> QED
      BY <1>5, <2>1, <2>2, <2>3, <2>4, <2>5, LeaderInSL DEF IInv, Positions
  <1>11. OpenInstances'
    <2> SUFFICES ASSUME NEW i \in SL
                 PROVE  /\ state'[i] \in Idle => stored'[i] = {}
                        /\ state'[i] \notin Idle =>
                              /\ round2_sequence'[i] = Voted(i)'
                              /\ stored'[i] = {log[Voted(i)']}
                              /\ round2_isCollector'[i] = (log[Voted(i)'].collector_SLid = i)
                        /\ state'[i] = Collecting => Voted(i)' = K /\ Col = i
      BY <1>5 DEF OpenInstances
    <2>1. CASE i = n
      <3>1. /\ round2_sequence'[n] = K
            /\ stored'[n] = {log[K]}
            /\ round2_isCollector'[n] = (Col = n)
        BY <1>1, <1>2 DEF HandlePreprepare, TypeOK
      <3> QED
        BY <1>6, <1>8, <2>1, <3>1 DEF Col, Collecting, Idle
    <2>2. CASE i # n
      BY <1>1, <1>6, <1>8, <2>2 DEF HandlePreprepare, TypeOK, IInv, OpenInstances
    <2> QED
      BY <2>1, <2>2
  <1>12. InFlight'
    <2> SUFFICES ASSUME NEW x \in net'
                 PROVE  /\ x.type = "PREPREPARE" => PreprepareInFlight(x)'
                        /\ x.type = "PARTIAL_COMMIT" => PartialCommitInFlight(x)'
                        /\ x.type = "FULL_COMMIT" => FullCommitInFlight(x)'
      BY DEF InFlight
    <2>1. CASE x = pc
      <3>1. x.type = "PARTIAL_COMMIT" /\ x.seq = K /\ x.to = Col /\ x.sender = n
        BY <1>2, <2>1 DEF PartialCommit
      <3> QED
        BY <1>2, <1>5, <1>8, <1>9, <3>1 DEF PartialCommitInFlight
    <2>2. CASE x # pc
      <3>1. x \in net /\ x # m
        BY <2>2 DEF HandlePreprepare
      <3>2. x.to \in SL /\ (x.type = "PARTIAL_COMMIT" => x.sender \in SL)
        BY <1>1, <3>1, MessageFields
      <3>3. x.type = "PREPREPARE" => PreprepareInFlight(x)'
        <4> SUFFICES ASSUME x.type = "PREPREPARE" PROVE PreprepareInFlight(x)'
          OBVIOUS
        <4>1. PreprepareInFlight(x)
          BY <3>1 DEF IInv, InFlight
        <4>2. x \in PreprepareMessage
          BY <1>1, <3>1, MessageFields
        <4>3. x.to # n
          BY <1>1, <1>2, <3>1, <4>1, <4>2 DEF PreprepareInFlight, PreprepareMessage
        <4> QED
          BY <1>5, <1>8, <3>2, <4>1, <4>3 DEF PreprepareInFlight
      <3>4. x.type = "PARTIAL_COMMIT" => PartialCommitInFlight(x)'
        BY <1>5, <1>8, <1>9, <3>1, <3>2 DEF IInv, InFlight, PartialCommitInFlight
      <3>5. x.type = "FULL_COMMIT" => FullCommitInFlight(x)'
        <4> SUFFICES ASSUME x.type = "FULL_COMMIT" PROVE FullCommitInFlight(x)'
          OBVIOUS
        <4>1. FullCommitInFlight(x)
          BY <3>1 DEF IInv, InFlight
        <4>2. x.to # n
          BY <1>4, <4>1 DEF FullCommitInFlight, Idle
        <4> QED
          BY <1>5, <1>6, <1>8, <1>9, <3>2, <4>1, <4>2 DEF FullCommitInFlight
      <3> QED
        BY <3>3, <3>4, <3>5
    <2> QED
      BY <2>1, <2>2
  <1>13. Counting'
    <2>1. pc = PartialCommit(K, n, Col) /\ pc \in net'
      BY <1>2 DEF HandlePreprepare
    <2>2. \A i \in SL \ {n} : PartialCommit(K, i, Col) \in net' <=> PartialCommit(K, i, Col) \in net
      <3> SUFFICES ASSUME NEW i \in SL \ {n}
                   PROVE  PartialCommit(K, i, Col) \in net' <=> PartialCommit(K, i, Col) \in net
        OBVIOUS
      <3>1. PartialCommit(K, i, Col) # m /\ PartialCommit(K, i, Col) # pc
        BY <1>1, <2>1 DEF PartialCommit
      <3> QED
        BY <3>1 DEF HandlePreprepare
    <2>3. Counted' = Counted
      <3>1. Counted' = {i \in SL : Voted(i)' = K /\ PartialCommit(K, i, Col) \notin net'}
        BY <1>5 DEF Counted, PartialCommit
      <3>2. n \notin Counted /\ n \notin Counted'
        BY <1>2, <1>3, <2>1, <3>1 DEF Counted
      <3> QED
        BY <1>8, <2>2, <3>1, <3>2 DEF Counted
    <2>4. Voted(Col)' < K => Counted' = {}
      <3>1. Voted(Col)' < K => Voted(Col) < K
        BY <1>3, <1>5, <1>8
      <3>2. Voted(Col) < K => Counted = {}
        BY <1>2 DEF IInv, Counting
      <3> QED
        BY <2>3, <3>1, <3>2
    <2>5. state'[Col] = Collecting => message_received_counter'[Col] = Cardinality(Counted')
      <3>1. CASE Col = n
        <4>1. Counted = {}
          BY <1>1, <1>2, <1>3, <3>1 DEF IInv, Counting
        <4>2. message_received_counter'[n] = 0
          BY <1>1 DEF HandlePreprepare, TypeOK
        <4> QED
          BY <2>3, <3>1, <4>1, <4>2, FS_EmptySet
      <3>2. CASE Col # n
        <4>1. message_received_counter'[Col] = message_received_counter[Col]
          BY <1>1, <1>3, <3>2 DEF HandlePreprepare, TypeOK
        <4> QED
          BY <1>2, <1>3, <1>6, <2>3, <3>2, <4>1 DEF IInv, Counting
      <3> QED
        BY <3>1, <3>2
    <2>6. \A i \in SL : D(i) # K
      BY <1>2, <1>9 DEF IInv, Counting
    <2> QED
      BY <1>5, <1>9, <2>4, <2>5, <2>6 DEF Counting
  <1>14. Agreement'
    BY <1>5 DEF IInv, Agreement, HandlePreprepare
  <1> QED
    BY <1>7, <1>10, <1>11, <1>12, <1>13, <1>14 DEF IInv

-----------------------------------------------------------------------------
(* A step that delivers nothing and opens or closes no instance moves no vote.*)
LEMMA SameVotes ==
    ASSUME TypeOK, TypeOK',
           \A i \in SL : D(i)' = D(i),
           \A i \in SL : state'[i] \in Idle <=> state[i] \in Idle
    PROVE  \A i \in SL : Voted(i)' = Voted(i)
  <1>1. PositionFacts /\ PositionFacts'
    BY PositionTypes, PTL
  <1> QED
    BY <1>1 DEF PositionFacts

(* A PartialCommit the collector counts is for the last instance and from an  *)
(* SL it has not counted.                                                     *)
LEMMA CountsFacts ==
    ASSUME IInv, NEW m \in net, Counts(m)
    PROVE  /\ K \in Nat /\ K > 0 /\ m.seq = K /\ m.to = Col /\ Col \in SL
           /\ m = PartialCommit(K, m.sender, Col)
           /\ m.sender \in SL /\ Voted(m.sender) = K /\ m.sender \notin Counted
           /\ state[Col] = Collecting /\ Voted(Col) = K /\ ~Closed
           /\ IsFiniteSet(Counted \cup {m.sender})
           /\ Cardinality(Counted \cup {m.sender}) = message_received_counter[Col] + 1
           /\ message_received_counter[Col] + 1 <= N
           /\ message_received_counter[Col] + 1 = N => Counted \cup {m.sender} = SL
  <1>1. /\ TypeOK /\ m.type = "PARTIAL_COMMIT" /\ m.to \in SL /\ m.sender \in SL
        /\ m = PartialCommit(m.seq, m.sender, m.to)
        /\ state[m.to] = Collecting
    BY MessageFields DEF IInv, Counts, Collecting
  <1>2. K > 0 /\ m.seq = K /\ m.to = Col /\ Voted(m.sender) = K /\ ~Closed
    BY <1>1 DEF IInv, InFlight, PartialCommitInFlight
  <1>3. K \in Nat /\ Voted(Col) = K
    BY <1>1, <1>2, PositionTypes DEF PositionFacts, IInv, OpenInstances
  <1>4. m.sender \notin Counted
    BY <1>1, <1>2 DEF Counted
  <1>5. message_received_counter[Col] = Cardinality(Counted)
    BY <1>1, <1>2 DEF IInv, Counting
  <1>6. IsFiniteSet(Counted)
    <2>1. Counted \in SUBSET SL
      BY DEF Counted
    <2> QED
      BY <2>1, SLFinite, FS_Subset
  <1>7. /\ IsFiniteSet(Counted \cup {m.sender})
        /\ Cardinality(Counted \cup {m.sender}) = Cardinality(Counted) + 1
    BY <1>4, <1>6, FS_AddElement
  <1>8. Counted \cup {m.sender} \in SUBSET SL
    BY <1>1 DEF Counted
  <1>9. /\ Cardinality(Counted \cup {m.sender}) <= N
        /\ N = Cardinality(Counted \cup {m.sender}) => SL = Counted \cup {m.sender}
    BY <1>8, SLFinite, FS_Subset
  <1> QED
    BY <1>1, <1>2, <1>3, <1>4, <1>5, <1>7, <1>9

(* A PartialCommit counted, and others are missing.                           *)
LEMMA HandlePartialCommitIInv ==
    ASSUME IInv, NEW m \in net, HandlePartialCommit(m)
    PROVE  IInv'
  <1>1. TypeOK /\ Counts(m)
    BY DEF IInv, HandlePartialCommit
  <1>2. /\ K \in Nat /\ K > 0 /\ m.seq = K /\ m.to = Col /\ Col \in SL
        /\ m = PartialCommit(K, m.sender, Col) /\ m.sender \in SL /\ Voted(m.sender) = K
        /\ Voted(Col) = K
        /\ Cardinality(Counted \cup {m.sender}) = message_received_counter[Col] + 1
        /\ message_received_counter[Col] + 1 <= N
    BY <1>1, CountsFacts
  <1>3. /\ log' = log /\ K' = K /\ Col' = Col /\ state' = state /\ delivered' = delivered
        /\ \A i \in SL : D(i)' = D(i) /\ Voted(i)' = Voted(i)
        /\ Closed' = Closed
    BY <1>2 DEF HandlePartialCommit, K, Col, D, Voted, Closed
  <1>4. TypeOK'
    <2>1. message_received_counter[Col] + 1 \in 0..N
      BY <1>1, <1>2, NAssumption DEF TypeOK
    <2> QED
      BY <1>1, <1>2, <2>1 DEF HandlePartialCommit, TypeOK
  <1>5. Positions'
    BY <1>3, LeaderInSL DEF IInv, Positions, HandlePartialCommit
  <1>6. OpenInstances'
    BY <1>3 DEF IInv, OpenInstances, HandlePartialCommit
  <1>7. InFlight'
    <2> SUFFICES ASSUME NEW x \in net'
                 PROVE  /\ x.type = "PREPREPARE" => PreprepareInFlight(x)'
                        /\ x.type = "PARTIAL_COMMIT" => PartialCommitInFlight(x)'
                        /\ x.type = "FULL_COMMIT" => FullCommitInFlight(x)'
      BY DEF InFlight
    <2>1. x \in net /\ x.to \in SL /\ (x.type = "PARTIAL_COMMIT" => x.sender \in SL)
      BY <1>1, MessageFields DEF HandlePartialCommit
    <2>2. x.type = "PREPREPARE" => PreprepareInFlight(x)'
      BY <1>3, <2>1 DEF IInv, InFlight, PreprepareInFlight
    <2>3. x.type = "PARTIAL_COMMIT" => PartialCommitInFlight(x)'
      BY <1>3, <2>1 DEF IInv, InFlight, PartialCommitInFlight
    <2>4. x.type = "FULL_COMMIT" => FullCommitInFlight(x)'
      BY <1>3, <2>1 DEF IInv, InFlight, FullCommitInFlight
    <2> QED
      BY <2>2, <2>3, <2>4
  <1>8. Counting'
    <2>1. Counted' = Counted \cup {m.sender}
      <3>1. Counted' = {i \in SL : Voted(i) = K /\ PartialCommit(K, i, Col) \notin net'}
        BY <1>3 DEF Counted, PartialCommit
      <3>2. \A i \in SL : PartialCommit(K, i, Col) = m <=> i = m.sender
        BY <1>2 DEF PartialCommit
      <3>3. net' = net \ {m}
        BY DEF HandlePartialCommit
      <3> QED
        BY <1>2, <3>1, <3>2, <3>3 DEF Counted
    <2>2. message_received_counter'[Col] = Cardinality(Counted')
      BY <1>1, <1>2, <2>1 DEF HandlePartialCommit, TypeOK
    <2>3. ~(Voted(Col)' < K)
      BY <1>2, <1>3
    <2>4. Closed' => \A i \in SL : Voted(i)' = K
      BY <1>2, <1>3 DEF IInv, Counting
    <2>5. \A i \in SL : D(i)' = K => Closed'
      BY <1>2, <1>3 DEF IInv, Counting
    <2> QED
      BY <1>3, <2>2, <2>3, <2>4, <2>5 DEF Counting
  <1>9. Agreement'
    BY <1>3 DEF IInv, Agreement
  <1> QED
    BY <1>4, <1>5, <1>6, <1>7, <1>8, <1>9 DEF IInv

(* The last PartialCommit: everybody has voted, nothing of the instance but   *)
(* the FullCommits is in flight any more.                                     *)
LEMMA HandleLastPartialCommitIInv ==
    ASSUME IInv, NEW m \in net, HandleLastPartialCommit(m)
    PROVE  IInv'
  <1>1. TypeOK /\ Counts(m)
    BY DEF IInv, HandleLastPartialCommit
  <1>2. /\ K \in Nat /\ K > 0 /\ m.seq = K /\ m.to = Col /\ Col \in SL
        /\ m = PartialCommit(K, m.sender, Col) /\ m.sender \in SL /\ Voted(m.sender) = K
        /\ state[Col] = Collecting /\ Voted(Col) = K /\ ~Closed
        /\ message_received_counter[Col] + 1 = N
        /\ Counted \cup {m.sender} = SL
    BY <1>1, CountsFacts DEF HandleLastPartialCommit, message_required
  <1>3. /\ log' = log /\ K' = K /\ Col' = Col /\ delivered' = delivered
        /\ \A i \in SL : D(i)' = D(i)
    BY DEF HandleLastPartialCommit, K, Col, D
  <1>4. /\ state' = [state EXCEPT ![Col] = "WAITING_FOR_FULLCOMMIT"]
        /\ state'[Col] = "WAITING_FOR_FULLCOMMIT"
        /\ \A i \in SL \ {Col} : state'[i] = state[i]
    BY <1>1, <1>2 DEF HandleLastPartialCommit, TypeOK
  <1>5. TypeOK'
    <2>1. FullCommits(K) \subseteq Message
      <3>1. K \in Seq16
        BY <1>1, <1>2, MessageFields
      <3> QED
        BY <3>1 DEF FullCommits, FullCommit, Message, FullCommitMessage
    <2>2. 0 \in 0..N
      BY NAssumption
    <2>3. state' \in [SL -> States]
      BY <1>1, <1>2, <1>4 DEF TypeOK, States
    <2> QED
      BY <1>1, <1>2, <2>1, <2>2, <2>3 DEF HandleLastPartialCommit, TypeOK
  <1>6. \A i \in SL : Voted(i)' = Voted(i)
    <2>1. \A i \in SL : state'[i] \in Idle <=> state[i] \in Idle
      BY <1>2, <1>4 DEF Idle, Collecting
    <2> QED
      BY <1>1, <1>3, <1>5, <2>1, SameVotes
  <1>7. \A i \in SL : Voted(i) = K
    BY <1>2 DEF Counted
  <1>8. Closed'
    BY <1>2, <1>3, <1>4, <1>6 DEF Closed, Collecting
  <1>9. \A i \in SL : state'[i] = "WAITING_FOR_FULLCOMMIT"
    <2> SUFFICES ASSUME NEW i \in SL \ {Col} PROVE state[i] = "WAITING_FOR_FULLCOMMIT"
      BY <1>4
    <2>1. D(i) # K
      BY <1>2 DEF IInv, Counting
    <2>2. state[i] \notin Idle
      BY <1>1, <1>7, <2>1, PositionTypes DEF PositionFacts
    <2>3. state[i] # Collecting
      BY DEF IInv, OpenInstances
    <2>4. state[i] \in States
      BY <1>1 DEF TypeOK
    <2> QED
      BY <2>2, <2>3, <2>4 DEF States, Idle, Collecting
  <1>10. Positions'
    <2>1. \A i \in SL : state'[i] # "WAITING_FOR_PREPREPARE" /\ state'[i] # "NONE"
      BY <1>9
    <2>2. D(Leader) + 1 = K
      <3>1. D(Leader) # K
        BY <1>2, LeaderInSL DEF IInv, Counting
      <3> QED
        BY <3>1, LeaderInSL DEF IInv, Positions
    <2> QED
      BY <1>3, <1>6, <2>1, <2>2, LeaderInSL DEF IInv, Positions, HandleLastPartialCommit
  <1>11. OpenInstances'
    <2> SUFFICES ASSUME NEW i \in SL
                 PROVE  /\ state'[i] \notin Idle =>
                              /\ round2_sequence'[i] = Voted(i)'
                              /\ stored'[i] = {log[Voted(i)']}
                              /\ round2_isCollector'[i] = (log[Voted(i)'].collector_SLid = i)
      BY <1>3, <1>9 DEF OpenInstances, Idle, Collecting
    <2>1. state[i] \notin Idle
      BY <1>2, <1>4, <1>9 DEF Idle, Collecting
    <2> QED
      BY <1>6, <2>1 DEF IInv, OpenInstances, HandleLastPartialCommit
  <1>12. InFlight'
    <2> SUFFICES ASSUME NEW x \in net'
                 PROVE  /\ x.type = "PREPREPARE" => PreprepareInFlight(x)'
                        /\ x.type = "PARTIAL_COMMIT" => PartialCommitInFlight(x)'
                        /\ x.type = "FULL_COMMIT" => FullCommitInFlight(x)'
      BY DEF InFlight
    <2>1. CASE x \in FullCommits(K)
      <3>1. x.type = "FULL_COMMIT" /\ x.seq = K /\ x.to \in SL
        BY <2>1 DEF FullCommits, FullCommit
      <3> QED
        BY <1>2, <1>3, <1>6, <1>7, <1>8, <1>9, <3>1 DEF FullCommitInFlight
    <2>2. CASE x \notin FullCommits(K)
      <3>1. x \in net /\ x # m
        BY <1>2, <2>2 DEF HandleLastPartialCommit
      <3>2. x.to \in SL /\ (x.type = "PARTIAL_COMMIT" =>
                              x.sender \in SL /\ x = PartialCommit(x.seq, x.sender, x.to))
        BY <1>1, <3>1, MessageFields
      <3>3. x.type # "PREPREPARE"
        BY <1>2, <1>7, <3>1, <3>2 DEF IInv, InFlight, PreprepareInFlight
      <3>4. x.type # "PARTIAL_COMMIT"
        <4> SUFFICES ASSUME x.type = "PARTIAL_COMMIT" PROVE FALSE
          OBVIOUS
        <4>1. x = PartialCommit(K, x.sender, Col) /\ x.sender \in SL
          BY <3>1, <3>2 DEF IInv, InFlight, PartialCommitInFlight
        <4>2. x.sender # m.sender
          BY <1>2, <3>1, <4>1
        <4>3. x.sender \in Counted
          BY <1>2, <4>1, <4>2
        <4> QED
          BY <3>1, <4>1, <4>3 DEF Counted
      <3>5. x.type = "FULL_COMMIT" => FullCommitInFlight(x)'
        BY <1>3, <1>6, <1>8, <1>9, <3>1, <3>2 DEF IInv, InFlight, FullCommitInFlight
      <3> QED
        BY <3>3, <3>4, <3>5
    <2> QED
      BY <2>1, <2>2
  <1>13. Counting'
    <2>1. ~(Voted(Col)' < K) /\ state'[Col] # Collecting
      BY <1>2, <1>3, <1>4, <1>6 DEF Collecting
    <2> QED
      BY <1>3, <1>6, <1>7, <1>8, <2>1 DEF Counting
  <1>14. Agreement'
    BY <1>3 DEF IInv, Agreement
  <1> QED
    BY <1>5, <1>10, <1>11, <1>12, <1>13, <1>14 DEF IInv
-----------------------------------------------------------------------------
(* What a FullCommit finds and what it delivers.                              *)
LEMMA CommitFacts ==
    ASSUME IInv, NEW m \in net, Commit(m)
    PROVE  /\ m.to \in SL /\ state[m.to] = "WAITING_FOR_FULLCOMMIT"
           /\ K \in Nat /\ K > 0 /\ (m.seq = K => Closed)
           /\ m.seq = Voted(m.to) /\ D(m.to) + 1 = Voted(m.to) /\ Voted(m.to) \in 1..K
           /\ delivered' \in [SL -> Seq(Preprepare)]
           /\ D(m.to)' = Voted(m.to)
           /\ \A i \in SL \ {m.to} : delivered'[i] = delivered[i] /\ D(i)' = D(i)
           /\ \A i \in SL : D(i)' <= K /\ \A j \in 1..D(i)' : delivered'[i][j] = log[j]
           /\ stored' \in [SL -> SUBSET Preprepare] /\ stored'[m.to] = {}
           /\ \A i \in SL \ {m.to} : stored'[i] = stored[i]
           /\ \A x \in net : x.type = "FULL_COMMIT" /\ x.to = m.to => x = m
  <1> DEFINE n == m.to
             p == log[Voted(n)]
  <1>1. TypeOK /\ m.type = "FULL_COMMIT" /\ n \in SL /\ m = FullCommit(m.seq, n)
    BY MessageFields DEF IInv, Commit
  <1>2. K > 0 /\ m.seq = Voted(n) /\ state[n] = "WAITING_FOR_FULLCOMMIT" /\ (m.seq = K => Closed)
    BY <1>1 DEF IInv, InFlight, FullCommitInFlight
  <1>3. PositionFacts
    BY <1>1, PositionTypes
  <1>4. D(n) + 1 = Voted(n) /\ Voted(n) \in 1..K /\ K \in Nat /\ D(n) \in Nat
    <2>1. Voted(n) <= K
      BY <1>1 DEF IInv, Positions
    <2> QED
      BY <1>1, <1>2, <1>3, <2>1 DEF PositionFacts, Idle
  <1>5. stored[n] = {p}
    BY <1>1, <1>2 DEF IInv, OpenInstances, Idle
  <1>6. p \in Preprepare
    BY <1>1, <1>4 DEF TypeOK, K
  <1>7. delivered' = [delivered EXCEPT ![n] = Append(@, p)]
    BY <1>5 DEF Commit
  <1>8. /\ delivered' \in [SL -> Seq(Preprepare)]
        /\ delivered'[n] = Append(delivered[n], p)
        /\ \A i \in SL \ {n} : delivered'[i] = delivered[i]
    BY <1>1, <1>6, <1>7 DEF TypeOK
  <1>9. D(n)' = Voted(n) /\ \A i \in SL \ {n} : D(i)' = D(i)
    <2>1. delivered[n] \in Seq(Preprepare)
      BY <1>1 DEF TypeOK
    <2> QED
      BY <1>4, <1>6, <1>8, <2>1 DEF D
  <1>10. ASSUME NEW i \in SL
         PROVE  D(i)' <= K /\ \A j \in 1..D(i)' : delivered'[i][j] = log[j]
    <2>1. D(i) <= K /\ \A j \in 1..D(i) : delivered[i][j] = log[j]
      BY DEF IInv, Agreement, D, K
    <2>2. CASE i # n
      BY <1>8, <1>9, <2>1, <2>2
    <2>3. CASE i = n
      <3>1. delivered[n] \in Seq(Preprepare) /\ Len(delivered[n]) = D(n)
        BY <1>1 DEF TypeOK, D
      <3>2. ASSUME NEW j \in 1..Voted(n) PROVE delivered'[n][j] = log[j]
        <4>1. CASE j = Voted(n)
          BY <1>4, <1>6, <1>8, <3>1, <4>1
        <4>2. CASE j # Voted(n)
          BY <1>4, <1>6, <1>8, <2>1, <2>3, <3>1, <4>2
        <4> QED
          BY <4>1, <4>2
      <3> QED
        BY <1>4, <1>9, <2>3, <3>2
    <2> QED
      BY <2>2, <2>3
  <1>11. /\ stored' \in [SL -> SUBSET Preprepare] /\ stored'[n] = {}
         /\ \A i \in SL \ {n} : stored'[i] = stored[i]
    BY <1>1 DEF TypeOK, Commit
  <1>12. ASSUME NEW x \in net, x.type = "FULL_COMMIT", x.to = n PROVE x = m
    <2>1. x = FullCommit(x.seq, n)
      BY <1>1, <1>12, MessageFields
    <2>2. x.seq = m.seq
      BY <1>2, <1>12 DEF IInv, InFlight, FullCommitInFlight
    <2> QED
      BY <1>1, <2>1, <2>2
  <1> QED
    BY <1>1, <1>2, <1>4, <1>8, <1>9, <1>10, <1>11, <1>12

(* A FullCommit handled, and nothing follows it.                              *)
LEMMA HandleFullCommitIInv ==
    ASSUME IInv, NEW m \in net, HandleFullCommit(m)
    PROVE  IInv'
  <1> DEFINE n == m.to
  <1>1. TypeOK /\ Commit(m)
    BY DEF IInv, HandleFullCommit
  <1>2. /\ n \in SL /\ state[n] = "WAITING_FOR_FULLCOMMIT"
        /\ K \in Nat /\ K > 0 /\ (m.seq = K => Closed)
        /\ m.seq = Voted(n) /\ D(n) + 1 = Voted(n) /\ Voted(n) \in 1..K
        /\ delivered' \in [SL -> Seq(Preprepare)]
        /\ D(n)' = Voted(n)
        /\ \A i \in SL \ {n} : delivered'[i] = delivered[i] /\ D(i)' = D(i)
        /\ \A i \in SL : D(i)' <= K /\ \A j \in 1..D(i)' : delivered'[i][j] = log[j]
        /\ stored' \in [SL -> SUBSET Preprepare] /\ stored'[n] = {}
        /\ \A i \in SL \ {n} : stored'[i] = stored[i]
        /\ \A x \in net : x.type = "FULL_COMMIT" /\ x.to = n => x = m
    BY <1>1, CommitFacts
  <1>3. log' = log /\ K' = K /\ Col' = Col
    BY DEF HandleFullCommit, K, Col
  <1>4. state'[n] = "NONE" /\ \A i \in SL \ {n} : state'[i] = state[i]
    BY <1>1, <1>2 DEF HandleFullCommit, TypeOK
  <1>5. TypeOK'
    BY <1>1, <1>2 DEF HandleFullCommit, Commit, TypeOK, States
  <1>6. \A i \in SL : Voted(i)' = Voted(i)
    <2>1. PositionFacts /\ PositionFacts'
      BY <1>1, <1>5, PositionTypes, PTL
    <2>2. Voted(n)' = Voted(n)
      BY <1>2, <1>4, <2>1 DEF PositionFacts, Idle
    <2>3. ASSUME NEW i \in SL \ {n} PROVE Voted(i)' = Voted(i)
      <3>1. state'[i] = state[i] /\ D(i)' = D(i)
        BY <1>2, <1>4
      <3> QED
        BY <2>1, <3>1 DEF PositionFacts
    <2> QED
      BY <2>2, <2>3
  <1>7. Closed' <=> Closed
    <2>1. CASE K = 0
      BY <1>2, <2>1
    <2>2. CASE K > 0
      <3>1. Col \in SL
        BY <1>1, <2>2, ColInSL
      <3>2. state'[Col] = Collecting <=> state[Col] = Collecting
        BY <1>2, <1>4, <3>1 DEF Collecting
      <3> QED
        BY <1>3, <1>6, <3>1, <3>2 DEF Closed
    <2> QED
      BY <1>2, <2>1, <2>2
  <1>8. Positions'
    <2>1. IF state'[Leader] = "NONE" THEN D(Leader)' = K ELSE D(Leader)' + 1 = K
      <3>1. CASE n = Leader
        BY <1>2, <1>4, <3>1, LeaderInSL DEF IInv, Positions
      <3>2. CASE n # Leader
        BY <1>2, <1>4, <3>2, LeaderInSL DEF IInv, Positions
      <3> QED
        BY <3>1, <3>2
    <2>2. \A i \in SL \ {Leader} : state'[i] # "WAITING_FOR_PREPREPARE"
      BY <1>4 DEF IInv, Positions
    <2> QED
      BY <1>3, <1>6, <2>1, <2>2, LeaderInSL DEF IInv, Positions, HandleFullCommit
  <1>9. OpenInstances'
    <2> SUFFICES ASSUME NEW i \in SL
                 PROVE  /\ state'[i] \in Idle => stored'[i] = {}
                        /\ state'[i] \notin Idle =>
                              /\ round2_sequence'[i] = Voted(i)'
                              /\ stored'[i] = {log[Voted(i)']}
                              /\ round2_isCollector'[i] = (log[Voted(i)'].collector_SLid = i)
                        /\ state'[i] = Collecting => Voted(i)' = K /\ Col = i
      BY <1>3 DEF OpenInstances
    <2>1. CASE i = n
      BY <1>2, <1>4, <2>1 DEF Idle, Collecting
    <2>2. CASE i # n
      BY <1>1, <1>2, <1>4, <1>6, <2>2 DEF IInv, OpenInstances, Commit
    <2> QED
      BY <2>1, <2>2
  <1>10. InFlight'
    <2> SUFFICES ASSUME NEW x \in net'
                 PROVE  /\ x.type = "PREPREPARE" => PreprepareInFlight(x)'
                        /\ x.type = "PARTIAL_COMMIT" => PartialCommitInFlight(x)'
                        /\ x.type = "FULL_COMMIT" => FullCommitInFlight(x)'
      BY DEF InFlight
    <2>1. /\ x \in net /\ x # m /\ x.to \in SL
          /\ x.type = "PARTIAL_COMMIT" => x.sender \in SL
      BY <1>1, MessageFields DEF HandleFullCommit
    <2>2. x.type = "PREPREPARE" => PreprepareInFlight(x)'
      BY <1>3, <1>6, <2>1 DEF IInv, InFlight, PreprepareInFlight
    <2>3. x.type = "PARTIAL_COMMIT" => PartialCommitInFlight(x)'
      BY <1>3, <1>6, <1>7, <2>1 DEF IInv, InFlight, PartialCommitInFlight
    <2>4. x.type = "FULL_COMMIT" => FullCommitInFlight(x)'
      BY <1>2, <1>3, <1>4, <1>6, <1>7, <2>1 DEF IInv, InFlight, FullCommitInFlight
    <2> QED
      BY <2>2, <2>3, <2>4
  <1>11. Counting'
    <2>1. Col \in SL
      BY <1>1, <1>2, ColInSL
    <2>2. Counted' = Counted
      <3>1. Counted' = {i \in SL : Voted(i) = K /\ PartialCommit(K, i, Col) \notin net'}
        BY <1>3, <1>6 DEF Counted, PartialCommit
      <3>2. \A i \in SL : PartialCommit(K, i, Col) # m
        BY <1>1 DEF PartialCommit, Commit
      <3> QED
        BY <3>1, <3>2 DEF Counted, HandleFullCommit
    <2>3. Voted(Col)' < K => Counted' = {}
      BY <1>2, <1>3, <1>6, <2>1, <2>2 DEF IInv, Counting
    <2>4. state'[Col] = Collecting => message_received_counter'[Col] = Cardinality(Counted')
      BY <1>2, <1>4, <2>1, <2>2 DEF IInv, Counting, HandleFullCommit, Collecting
    <2>5. Closed' => \A i \in SL : Voted(i)' = K
      BY <1>2, <1>6, <1>7 DEF IInv, Counting
    <2>6. ASSUME NEW i \in SL, D(i)' = K PROVE Closed'
      <3>1. CASE i = n
        BY <1>2, <1>7, <2>6, <3>1
      <3>2. CASE i # n
        BY <1>2, <1>7, <2>6, <3>2 DEF IInv, Counting
      <3> QED
        BY <3>1, <3>2
    <2> QED
      BY <1>3, <2>3, <2>4, <2>5, <2>6 DEF Counting
  <1>12. Agreement'
    BY <1>2, <1>3 DEF Agreement, D, K
  <1> QED
    BY <1>5, <1>8, <1>9, <1>10, <1>11, <1>12 DEF IInv
-----------------------------------------------------------------------------
(* When the last instance is closed, or there is none, everybody has voted    *)
(* and only FullCommits are in flight.                                        *)
LEMMA ClosedFacts ==
    ASSUME IInv, K > 0 => Closed
    PROVE  /\ \A i \in SL : Voted(i) = K /\ state[i] # Collecting
           /\ \A x \in net : x.type = "FULL_COMMIT" /\ x.seq = K /\ K > 0
  <1>1. TypeOK /\ PositionFacts
    BY PositionTypes DEF IInv
  <1>2. \A i \in SL : Voted(i) = K
    <2>1. CASE K = 0
      BY <1>1, <2>1 DEF IInv, Positions, PositionFacts
    <2>2. CASE K > 0
      BY <2>2 DEF IInv, Counting
    <2> QED
      BY <1>1, <2>1, <2>2 DEF PositionFacts
  <1>3. \A i \in SL : state[i] # Collecting
    <2> SUFFICES ASSUME NEW i \in SL, state[i] = Collecting PROVE FALSE
      OBVIOUS
    <2>1. K > 0
      BY <1>1, <1>2 DEF PositionFacts, Idle, Collecting
    <2> QED
      BY <2>1 DEF IInv, OpenInstances, Closed
  <1>4. ASSUME NEW x \in net PROVE x.type = "FULL_COMMIT" /\ x.seq = K /\ K > 0
    <2>1. x.to \in SL /\ x.type \in {"PREPREPARE", "PARTIAL_COMMIT", "FULL_COMMIT"}
      BY <1>1, MessageFields
    <2>2. x.type # "PREPREPARE"
      BY <1>1, <1>2, <2>1 DEF IInv, InFlight, PreprepareInFlight, PositionFacts
    <2>3. x.type # "PARTIAL_COMMIT"
      BY DEF IInv, InFlight, PartialCommitInFlight
    <2> QED
      BY <1>2, <2>1, <2>2, <2>3 DEF IInv, InFlight, FullCommitInFlight
  <1> QED
    BY <1>2, <1>3, <1>4

(* The new Preprepare: its sequence number follows the log, its types are     *)
(* right, and nothing the log held changes.                                   *)
LEMMA SendFacts ==
    ASSUME IInv, NEW e \in Entry, NEW rest \in SUBSET net, SendPreprepare(e, rest)
    PROVE  /\ K \in Nat /\ K' = K + 1 /\ K' <= MaxSeq
           /\ log' \in Seq(Preprepare) /\ log'[K'] \in Preprepare
           /\ \A j \in 1..K : log'[j] = log[j]
           /\ net' = rest \cup Preprepares(K', log'[K']) /\ net' \subseteq Message
           /\ round2_next_seq' \in [SL -> Seq16] /\ round2_next_seq'[Leader] = K' + 1
           /\ \A i \in SL \ {Leader} : round2_next_seq'[i] = round2_next_seq[i]
           /\ leader_collector_rr' \in SL
  <1> DEFINE p == [request |-> e, collector_SLid |-> leader_collector_rr]
  <1>1. TypeOK /\ p \in Preprepare
    BY DEF IInv, TypeOK, Preprepare
  <1>2. /\ log \in Seq(Preprepare) /\ K = Len(log) /\ K \in Nat /\ K < MaxSeq
        /\ log' = Append(log, p)
    BY <1>1 DEF TypeOK, K, SendPreprepare
  <1>3. K' = K + 1 /\ log' \in Seq(Preprepare) /\ log'[K'] = p
    BY <1>1, <1>2 DEF K
  <1>4. \A j \in 1..K : log'[j] = log[j]
    BY <1>1, <1>2
  <1>5. round2_next_seq[Leader] = K + 1 /\ K + 1 \in Seq16
    BY <1>1, LeaderInSL DEF TypeOK, IInv, Positions
  <1>6. (K + 1 + 1) % 2^16 = K + 2 /\ K + 2 \in Seq16
    <2>1. K + 1 \in Nat /\ K + 1 <= MaxSeq /\ K + 1 <= MaxSeq + 1
      BY <1>2, MaxSeqAssumption
    <2> QED
      BY <1>2, <1>5, <2>1, NextSeq
  <1>7. /\ round2_next_seq' \in [SL -> Seq16] /\ round2_next_seq'[Leader] = K + 2
        /\ \A i \in SL \ {Leader} : round2_next_seq'[i] = round2_next_seq[i]
    <2>1. round2_next_seq' = [round2_next_seq EXCEPT ![Leader] = (@ + 1) % 2^16]
      BY DEF SendPreprepare
    <2>2. (round2_next_seq[Leader] + 1) % 2^16 = K + 2
      BY <1>2, <1>5, <1>6
    <2>3. round2_next_seq' = [round2_next_seq EXCEPT ![Leader] = K + 2]
      BY <2>1, <2>2
    <2> QED
      BY <1>1, <1>6, <2>3, LeaderInSL DEF TypeOK
  <1>8. leader_collector_rr' \in SL
    BY <1>1, NAssumption DEF SendPreprepare, NextCollector, TypeOK, SL
  <1>9. net' = rest \cup Preprepares(K + 1, p)
    BY <1>5 DEF SendPreprepare
  <1>10. Preprepares(K + 1, p) \subseteq Message
    BY <1>1, <1>5 DEF Preprepares, Message, PreprepareMessage
  <1>11. K' <= MaxSeq
    BY <1>2, <1>3, MaxSeqAssumption
  <1>12. net' = rest \cup Preprepares(K', log'[K']) /\ net' \subseteq Message
    BY <1>1, <1>3, <1>9, <1>10 DEF TypeOK
  <1>13. round2_next_seq'[Leader] = K' + 1
    BY <1>2, <1>3, <1>7
  <1> QED
    BY <1>1, <1>2, <1>3, <1>4, <1>7, <1>8, <1>11, <1>12, <1>13

(* Opening an instance when the last is closed and the leader has delivered   *)
(* it keeps the invariant, whatever else the step did to reach that point.     *)
LEMMA NewInstance ==
    ASSUME IInv, TypeOK',
           NEW e \in Entry, NEW rest \in SUBSET net, SendPreprepare(e, rest),
           K > 0 => Closed,
           \A x \in rest : x.to # Leader,
           state' = [state EXCEPT ![Leader] = "WAITING_FOR_PREPREPARE"],
           UNCHANGED <<round2_sequence, round2_isCollector>>,
           stored'[Leader] = {},
           \A i \in SL \ {Leader} : stored'[i] = stored[i],
           D(Leader)' = K,
           \A i \in SL \ {Leader} : D(i)' = D(i),
           \A i \in SL : D(i)' <= K /\ \A j \in 1..D(i)' : delivered'[i][j] = log[j]
    PROVE  IInv'
  <1>1. TypeOK /\ PositionFacts /\ PositionFacts'
    BY PositionTypes, PTL DEF IInv
  <1>2. /\ \A i \in SL : Voted(i) = K /\ state[i] # Collecting
        /\ \A x \in net : x.type = "FULL_COMMIT" /\ x.seq = K /\ K > 0
    BY ClosedFacts
  <1>3. /\ K \in Nat /\ K' = K + 1 /\ K' <= MaxSeq
        /\ log' \in Seq(Preprepare) /\ log'[K'] \in Preprepare
        /\ \A j \in 1..K : log'[j] = log[j]
        /\ net' = rest \cup Preprepares(K', log'[K'])
        /\ round2_next_seq'[Leader] = K' + 1
        /\ \A i \in SL \ {Leader} : round2_next_seq'[i] = round2_next_seq[i]
    BY SendFacts
  <1>4. /\ state'[Leader] = "WAITING_FOR_PREPREPARE" /\ state'[Leader] \in Idle
        /\ \A i \in SL \ {Leader} : state'[i] = state[i]
    BY <1>1, LeaderInSL DEF TypeOK, Idle
  <1>5. \A i \in SL : Voted(i)' = K /\ state'[i] # Collecting
    <2>1. Voted(Leader)' = K /\ state'[Leader] # Collecting
      BY <1>1, <1>4, LeaderInSL DEF PositionFacts, Collecting
    <2>2. ASSUME NEW i \in SL \ {Leader} PROVE Voted(i)' = K /\ state'[i] # Collecting
      <3>1. state'[i] = state[i] /\ D(i)' = D(i) /\ Voted(i) = K /\ state[i] # Collecting
        BY <1>2, <1>4
      <3> QED
        BY <1>1, <3>1 DEF PositionFacts
    <2> QED
      BY <2>1, <2>2
  <1>6. Positions'
    <2>1. \A i \in SL \ {Leader} : round2_next_seq'[i] = Voted(i)' + 1
      BY <1>2, <1>3, <1>5 DEF IInv, Positions
    <2>2. \A i \in SL \ {Leader} : state'[i] # "WAITING_FOR_PREPREPARE"
      BY <1>4 DEF IInv, Positions
    <2>3. \A i \in SL : Voted(i)' <= K' /\ K' <= Voted(i)' + 1
      BY <1>3, <1>5
    <2>4. IF state'[Leader] = "NONE" THEN D(Leader)' = K' ELSE D(Leader)' + 1 = K'
      BY <1>3, <1>4
    <2> QED
      BY <1>3, <2>1, <2>2, <2>3, <2>4 DEF Positions
  <1>7. OpenInstances'
    <2> SUFFICES ASSUME NEW i \in SL
                 PROVE  /\ state'[i] \in Idle => stored'[i] = {}
                        /\ state'[i] \notin Idle =>
                              /\ round2_sequence'[i] = Voted(i)'
                              /\ stored'[i] = {log'[Voted(i)']}
                              /\ round2_isCollector'[i] = (log'[Voted(i)'].collector_SLid = i)
      BY <1>5 DEF OpenInstances
    <2>1. CASE i = Leader
      BY <1>4, <2>1
    <2>2. CASE i # Leader
      <3>1. state'[i] = state[i] /\ stored'[i] = stored[i] /\ Voted(i) = K /\ Voted(i)' = K
        BY <1>2, <1>4, <1>5, <2>2
      <3>2. state[i] \notin Idle => log'[K] = log[K]
        BY <1>1, <1>3, <3>1 DEF PositionFacts
      <3> QED
        BY <3>1, <3>2 DEF IInv, OpenInstances
    <2> QED
      BY <2>1, <2>2
  <1>8. InFlight'
    <2> SUFFICES ASSUME NEW x \in net'
                 PROVE  /\ x.type = "PREPREPARE" => PreprepareInFlight(x)'
                        /\ x.type = "PARTIAL_COMMIT" => PartialCommitInFlight(x)'
                        /\ x.type = "FULL_COMMIT" => FullCommitInFlight(x)'
      BY DEF InFlight
    <2>1. CASE x \in Preprepares(K', log'[K'])
      <3>1. x.type = "PREPREPARE" /\ x.seq = K' /\ x.body = log'[K'] /\ x.to \in SL
        BY <2>1 DEF Preprepares
      <3> QED
        BY <1>3, <1>5, <3>1 DEF PreprepareInFlight
    <2>2. CASE x \in rest
      <3>1. /\ x \in net /\ x.type = "FULL_COMMIT" /\ x.seq = K /\ K > 0 /\ x.to # Leader
            /\ x.to \in SL
        BY <1>1, <1>2, <2>2, MessageFields
      <3>2. state[x.to] = "WAITING_FOR_FULLCOMMIT"
        BY <3>1 DEF IInv, InFlight, FullCommitInFlight
      <3> QED
        BY <1>3, <1>4, <1>5, <3>1, <3>2 DEF FullCommitInFlight
    <2> QED
      BY <1>3, <2>1, <2>2
  <1>9. Counting'
    <2>1. Col' \in SL
      BY <1>3 DEF Col, Preprepare
    <2>2. Counted' = {}
      BY <1>3, <1>5 DEF Counted
    <2>3. ~Closed'
      BY <1>3, <1>5, <2>1 DEF Closed
    <2>4. state'[Col'] # Collecting
      BY <1>5, <2>1
    <2>5. \A i \in SL : D(i)' # K'
      BY <1>1, <1>3 DEF PositionFacts
    <2> QED
      BY <2>2, <2>3, <2>4, <2>5 DEF Counting
  <1>10. Agreement'
    <2> SUFFICES ASSUME NEW i \in SL
                 PROVE  D(i)' <= K' /\ \A j \in 1..D(i)' : delivered'[i][j] = log'[j]
      BY DEF Agreement, D, K
    <2>1. D(i)' \in Nat /\ D(i)' <= K
      BY <1>1 DEF PositionFacts
    <2> QED
      BY <1>3, <2>1
  <1> QED
    BY <1>6, <1>7, <1>8, <1>9, <1>10 DEF IInv
(* Every message of a FullCommit's type names an SL that waits for it.        *)
LEMMA NoFullCommitToIdle ==
    ASSUME IInv, NEW x \in net, x.type = "FULL_COMMIT"
    PROVE  state[x.to] \notin Idle
  BY DEF IInv, InFlight, FullCommitInFlight, Idle

(* The leader, idle, opens an instance.                                       *)
LEMMA ProposeIInv ==
    ASSUME IInv, NEW e \in Entry, Propose(e)
    PROVE  IInv'
  <1>1. TypeOK /\ state[Leader] = "NONE" /\ state[Leader] \in Idle /\ SendPreprepare(e, net)
    BY DEF IInv, Propose, canStartRound2, Idle
  <1>2. K \in Nat /\ D(Leader) = K /\ (K > 0 => Closed)
    BY <1>1, LeaderInSL, PositionTypes DEF IInv, Positions, Counting, PositionFacts
  <1>3. \A x \in net : x.to # Leader
    BY <1>1, <1>2, ClosedFacts, NoFullCommitToIdle
  <1>4. TypeOK'
    <2>1. /\ log' \in Seq(Preprepare) /\ net' \subseteq Message
          /\ round2_next_seq' \in [SL -> Seq16] /\ leader_collector_rr' \in SL
      BY <1>1, SendFacts
    <2>2. 0 \in 0..N
      BY NAssumption
    <2> QED
      BY <1>1, <2>1, <2>2, LeaderInSL DEF Propose, TypeOK, States
  <1>5. \A i \in SL : D(i)' = D(i)
    BY DEF Propose, D
  <1>6. \A i \in SL : D(i)' <= K /\ \A j \in 1..D(i)' : delivered'[i][j] = log[j]
    BY DEF Propose, IInv, Agreement, D, K
  <1>7. stored'[Leader] = {} /\ \A i \in SL \ {Leader} : stored'[i] = stored[i]
    BY <1>1, LeaderInSL DEF Propose, IInv, OpenInstances
  <1>8. /\ state' = [state EXCEPT ![Leader] = "WAITING_FOR_PREPREPARE"]
        /\ UNCHANGED <<round2_sequence, round2_isCollector>>
    BY DEF Propose
  <1>9. D(Leader)' = K
    BY <1>2, <1>5, LeaderInSL
  <1>10. net \in SUBSET net
    OBVIOUS
  <1> QED
    BY <1>1, <1>2, <1>3, <1>4, <1>5, <1>6, <1>7, <1>8, <1>9, <1>10, NewInstance

(* The leader delivers and opens the next instance in one step.               *)
LEMMA HandleFullCommitAndSpawnIInv ==
    ASSUME IInv, NEW m \in net, NEW e \in Entry, HandleFullCommitAndSpawn(m, e)
    PROVE  IInv'
  <1>1. /\ TypeOK /\ Commit(m) /\ m.to = Leader
        /\ SendPreprepare(e, net \ {m}) /\ net \ {m} \in SUBSET net
    BY DEF IInv, HandleFullCommitAndSpawn
  <1>2. /\ state[Leader] = "WAITING_FOR_FULLCOMMIT"
        /\ K \in Nat /\ K > 0 /\ (m.seq = K => Closed)
        /\ m.seq = Voted(Leader) /\ D(Leader) + 1 = Voted(Leader) /\ Voted(Leader) \in 1..K
        /\ delivered' \in [SL -> Seq(Preprepare)]
        /\ D(Leader)' = Voted(Leader)
        /\ \A i \in SL \ {Leader} : D(i)' = D(i)
        /\ \A i \in SL : D(i)' <= K /\ \A j \in 1..D(i)' : delivered'[i][j] = log[j]
        /\ stored' \in [SL -> SUBSET Preprepare] /\ stored'[Leader] = {}
        /\ \A i \in SL \ {Leader} : stored'[i] = stored[i]
        /\ \A x \in net : x.type = "FULL_COMMIT" /\ x.to = Leader => x = m
    BY <1>1, CommitFacts
  <1>3. Voted(Leader) = K
    BY <1>2 DEF IInv, Positions
  <1>4. Closed
    BY <1>2, <1>3
  <1>5. \A x \in net \ {m} : x.to # Leader
    BY <1>2, <1>4, ClosedFacts
  <1>6. TypeOK'
    <2>1. /\ log' \in Seq(Preprepare) /\ net' \subseteq Message
          /\ round2_next_seq' \in [SL -> Seq16] /\ leader_collector_rr' \in SL
      BY <1>1, SendFacts
    <2>2. 0 \in 0..N
      BY NAssumption
    <2> QED
      BY <1>1, <1>2, <2>1, <2>2, LeaderInSL DEF HandleFullCommitAndSpawn, Commit, TypeOK, States
  <1>7. /\ state' = [state EXCEPT ![Leader] = "WAITING_FOR_PREPREPARE"]
        /\ UNCHANGED <<round2_sequence, round2_isCollector>>
    BY DEF HandleFullCommitAndSpawn, Commit
  <1>8. D(Leader)' = K
    BY <1>2, <1>3
  <1> QED
    BY <1>1, <1>2, <1>4, <1>5, <1>6, <1>7, <1>8, NewInstance

(* A step that changes nothing.                                               *)
LEMMA StutterIInv == IInv /\ UNCHANGED vars => IInv'
  <1> SUFFICES ASSUME IInv, UNCHANGED vars PROVE IInv'
    OBVIOUS
  <1>1. /\ round2_next_seq' = round2_next_seq /\ state' = state
        /\ round2_sequence' = round2_sequence
        /\ message_received_counter' = message_received_counter
        /\ round2_isCollector' = round2_isCollector /\ stored' = stored
        /\ leader_collector_rr' = leader_collector_rr /\ net' = net
        /\ log' = log /\ delivered' = delivered
    BY DEF vars, status
  <1>2. TypeOK'
    BY <1>1 DEF IInv, TypeOK
  <1>3. K' = K /\ Col' = Col /\ \A i \in SL : D(i)' = D(i) /\ Voted(i)' = Voted(i)
    BY <1>1 DEF K, Col, D, Voted
  <1>4. Voted(Col)' = Voted(Col) /\ state'[Col'] = state[Col]
    <2>1. Voted(Col)' = Len(delivered'[Col']) + (IF state'[Col'] \in Idle THEN 0 ELSE 1)
      BY DEF Voted
    <2> QED
      BY <1>1, <1>3, <2>1 DEF Voted
  <1>5. Closed' = Closed /\ Counted' = Counted
    BY <1>1, <1>3, <1>4 DEF Closed, Counted
  <1>6. Positions'
    BY <1>1, <1>3, LeaderInSL DEF IInv, Positions
  <1>7. OpenInstances'
    BY <1>1, <1>3 DEF IInv, OpenInstances
  <1>8. Counting'
    <2>1. Counted' = Counted /\ Closed' = Closed /\ K' = K /\ Voted(Col)' = Voted(Col)
      BY <1>3, <1>4, <1>5
    <2>2. message_received_counter'[Col'] = message_received_counter[Col]
      BY <1>1, <1>3
    <2>3. Counting
      BY DEF IInv
    <2> QED
      BY <1>3, <1>4, <2>1, <2>2, <2>3 DEF Counting
  <1>9. Agreement'
    BY <1>1 DEF IInv, Agreement
  <1>10. InFlight'
    <2> SUFFICES ASSUME NEW m \in net
                 PROVE  /\ m.type = "PREPREPARE" => PreprepareInFlight(m)'
                        /\ m.type = "PARTIAL_COMMIT" => PartialCommitInFlight(m)'
                        /\ m.type = "FULL_COMMIT" => FullCommitInFlight(m)'
      BY <1>1 DEF InFlight
    <2>1. m.to \in SL /\ (m.type = "PARTIAL_COMMIT" => m.sender \in SL)
      BY MessageFields DEF IInv
    <2>2. m.type = "PREPREPARE" => PreprepareInFlight(m)'
      BY <1>1, <1>3, <2>1 DEF IInv, InFlight, PreprepareInFlight
    <2>3. m.type = "PARTIAL_COMMIT" => PartialCommitInFlight(m)'
      BY <1>1, <1>3, <1>5, <2>1 DEF IInv, InFlight, PartialCommitInFlight
    <2>4. m.type = "FULL_COMMIT" => FullCommitInFlight(m)'
      BY <1>1, <1>3, <1>5, <2>1 DEF IInv, InFlight, FullCommitInFlight
    <2> QED
      BY <2>2, <2>3, <2>4
  <1> QED
    BY <1>2, <1>6, <1>7, <1>8, <1>9, <1>10 DEF IInv

(* Every step preserves the strengthened invariant: one case per handler.     *)
LEMMA NextIInv == IInv /\ [Next]_vars => IInv'
  <1> SUFFICES ASSUME IInv, [Next]_vars PROVE IInv'
    OBVIOUS
  <1>1. ASSUME NEW e \in Entry, Propose(e) PROVE IInv'
    BY <1>1, ProposeIInv
  <1>2. ASSUME NEW m \in net, HandlePreprepare(m) PROVE IInv'
    BY <1>2, HandlePreprepareIInv
  <1>3. ASSUME NEW m \in net, HandlePartialCommit(m) PROVE IInv'
    BY <1>3, HandlePartialCommitIInv
  <1>4. ASSUME NEW m \in net, HandleLastPartialCommit(m) PROVE IInv'
    BY <1>4, HandleLastPartialCommitIInv
  <1>5. ASSUME NEW m \in net, HandleFullCommit(m) PROVE IInv'
    BY <1>5, HandleFullCommitIInv
  <1>6. ASSUME NEW m \in net, NEW e \in Entry, HandleFullCommitAndSpawn(m, e) PROVE IInv'
    BY <1>6, HandleFullCommitAndSpawnIInv
  <1>7. CASE UNCHANGED vars
    BY <1>7, StutterIInv
  <1> QED
    BY <1>1, <1>2, <1>3, <1>4, <1>5, <1>6, <1>7 DEF Next

(* The invariant holds in every behaviour.                                    *)
LEMMA SpecIInv == Spec => []IInv
  BY InitIInv, NextIInv, PTL DEF Spec

-----------------------------------------------------------------------------
(* What the invariant says of the messages in flight.                         *)
LEMMA IInvAssertions ==
    IInv => AssertionsHold /\ FullCommitNeverEarly /\ FullCommitIsUnanimous /\ OneInstanceAhead
  <1> SUFFICES ASSUME IInv
               PROVE  /\ AssertionsHold /\ FullCommitNeverEarly /\ FullCommitIsUnanimous
                      /\ OneInstanceAhead
    OBVIOUS
  <1>1. TypeOK /\ PositionFacts
    BY PositionTypes DEF IInv
  <1>2. ASSUME NEW m \in net, m.type = "PREPREPARE"
        PROVE  /\ m.to \in SL
               /\ state[m.to] \in Idle => Accepts(m)
               /\ state[m.to] \notin Idle => m.seq = round2_sequence[m.to] + 1
    <2>1. m.to \in SL /\ m.seq = K /\ Voted(m.to) + 1 = K
      BY <1>1, <1>2, MessageFields DEF IInv, InFlight, PreprepareInFlight
    <2>2. /\ round2_next_seq[Leader] = K + 1
          /\ m.to # Leader => round2_next_seq[m.to] = Voted(m.to) + 1
      BY <2>1 DEF IInv, Positions
    <2>3. /\ state[m.to] \in Idle => stored[m.to] = {}
          /\ state[m.to] \notin Idle => round2_sequence[m.to] = Voted(m.to)
      BY <2>1 DEF IInv, OpenInstances
    <2>4. K \in Nat
      BY <1>1 DEF PositionFacts
    <2> QED
      BY <1>2, <2>1, <2>2, <2>3, <2>4 DEF Accepts
  <1>3. ASSUME NEW m \in net, m.type = "PARTIAL_COMMIT", state[m.to] \notin Idle,
               m.seq <= round2_sequence[m.to]
        PROVE  Counts(m)
    <2>1. m.to \in SL /\ m.seq = K /\ m.to = Col /\ ~Closed /\ K > 0
      BY <1>1, <1>3, MessageFields DEF IInv, InFlight, PartialCommitInFlight
    <2>2. round2_sequence[m.to] = Voted(m.to) /\ Voted(m.to) <= K /\ Voted(m.to) \in Nat /\ K \in Nat
      BY <1>1, <1>3, <2>1 DEF IInv, OpenInstances, Positions, PositionFacts
    <2>3. Voted(m.to) = K
      BY <1>3, <2>1, <2>2
    <2>4. state[m.to] = Collecting
      BY <2>1, <2>3 DEF Closed
    <2>5. round2_isCollector[m.to]
      BY <1>3, <2>1, <2>3 DEF IInv, OpenInstances, Col
    <2> QED
      BY <1>3, <2>1, <2>2, <2>3, <2>4, <2>5 DEF Counts, Collecting
  <1>4. ASSUME NEW m \in net, m.type = "FULL_COMMIT"
        PROVE  /\ state[m.to] = "WAITING_FOR_FULLCOMMIT"
               /\ m.seq = round2_sequence[m.to]
               /\ stored[m.to] # {}
               /\ \A n \in SL : Voted(n) >= m.seq
    <2>1. /\ m.to \in SL /\ state[m.to] = "WAITING_FOR_FULLCOMMIT" /\ m.seq = Voted(m.to)
          /\ K > 0 /\ (m.seq = K => Closed)
      BY <1>1, <1>4, MessageFields DEF IInv, InFlight, FullCommitInFlight
    <2>2. round2_sequence[m.to] = Voted(m.to) /\ stored[m.to] = {log[Voted(m.to)]}
      BY <2>1 DEF IInv, OpenInstances, Idle
    <2>3. ASSUME NEW n \in SL PROVE Voted(n) >= m.seq
      <3>1. /\ Voted(n) \in Nat /\ K \in Nat /\ m.seq \in Nat
            /\ K <= Voted(n) + 1 /\ m.seq <= K
        BY <1>1, <2>1 DEF PositionFacts, IInv, Positions
      <3>2. m.seq = K => Voted(n) = K
        BY <2>1 DEF IInv, Counting
      <3> QED
        BY <3>1, <3>2
    <2> QED
      BY <2>1, <2>2, <2>3
  <1>5. AssertionsHold
    BY <1>2, <1>3, <1>4 DEF AssertionsHold
  <1>6. FullCommitNeverEarly
    BY <1>4 DEF FullCommitNeverEarly, Idle
  <1>7. FullCommitIsUnanimous
    BY <1>4 DEF FullCommitIsUnanimous
  <1>8. OneInstanceAhead
    BY <1>2 DEF OneInstanceAhead
  <1> QED
    BY <1>5, <1>6, <1>7, <1>8

(* Types.                                                                     *)
THEOREM TypeCorrect == Spec => []TypeOK
  <1>1. IInv => TypeOK
    BY DEF IInv
  <1> QED
    BY <1>1, SpecIInv, PTL

(* The SLs of a group commit the same requests in the same order.             *)
THEOREM AgreementHolds == Spec => []Agreement
  <1>1. IInv => Agreement
    BY DEF IInv
  <1> QED
    BY <1>1, SpecIInv, PTL

(* No assertion of the Round 2 handlers can trip below the wrap.              *)
THEOREM NoAssertionFails == Spec => []AssertionsHold
  <1>1. IInv => AssertionsHold
    BY IInvAssertions
  <1> QED
    BY <1>1, SpecIInv, PTL

(* The juggle branch of dispatcher_round2_fullCommit is never taken.          *)
THEOREM NoEarlyFullCommit == Spec => []FullCommitNeverEarly
  <1>1. IInv => FullCommitNeverEarly
    BY IInvAssertions
  <1> QED
    BY <1>1, SpecIInv, PTL

(* A FullCommit stands for the votes of all SLs, though nothing verifies it.  *)
THEOREM Unanimity == Spec => []FullCommitIsUnanimous
  <1>1. IInv => FullCommitIsUnanimous
    BY IInvAssertions
  <1> QED
    BY <1>1, SpecIInv, PTL

(* A Preprepare that has to wait is for the very next instance.               *)
THEOREM JuggleOneAhead == Spec => []OneInstanceAhead
  <1>1. IInv => OneInstanceAhead
    BY IInvAssertions
  <1> QED
    BY <1>1, SpecIInv, PTL
-----------------------------------------------------------------------------
(* What BGLog sees of a state: the positions of the SLs.                      *)
LEMMA Mapping ==
    /\ Abstract!SL = SL /\ Abstract!Leader = Leader
    /\ \A i \in SL : [n \in SL |-> Voted(n)][i] = Voted(i)
    /\ \A i \in SL : [n \in SL |-> Len(delivered[n])][i] = D(i)
  BY DEF Abstract!SL, Abstract!Leader, SL, Leader, D

(* A Preprepare handled is a vote: the SL had delivered all it voted for.     *)
LEMMA PreprepareIsVote ==
    ASSUME IInv, IInv', NEW m \in net, HandlePreprepare(m)
    PROVE  Abstract!Vote(m.to)
  <1> DEFINE n == m.to
  <1>1. TypeOK /\ TypeOK' /\ PositionFacts /\ PositionFacts'
    BY PositionTypes, PTL DEF IInv
  <1>2. n \in SL /\ m.type = "PREPREPARE" /\ state[n] \in Idle
    BY <1>1, MessageFields DEF HandlePreprepare, Accepts
  <1>3. Voted(n) + 1 = K /\ Voted(n) = D(n) /\ K \in Nat /\ Voted(n) \in Nat
    BY <1>1, <1>2 DEF IInv, InFlight, PreprepareInFlight, PositionFacts
  <1>4. delivered' = delivered /\ log' = log /\ \A i \in SL : D(i)' = D(i)
    BY DEF HandlePreprepare, D
  <1>5. state'[n] \notin Idle /\ \A i \in SL \ {n} : state'[i] = state[i]
    BY <1>1, <1>2 DEF HandlePreprepare, TypeOK, Idle
  <1>6. Voted(n)' = Voted(n) + 1 /\ \A i \in SL \ {n} : Voted(i)' = Voted(i)
    BY <1>1, <1>2, <1>3, <1>4, <1>5 DEF PositionFacts
  <1>7. [i \in SL |-> Voted(i)]' = [[i \in SL |-> Voted(i)] EXCEPT ![n] = @ + 1]
    BY <1>2, <1>6
  <1> QED
    BY <1>2, <1>3, <1>4, <1>7, Mapping DEF Abstract!Vote, K, D

(* A FullCommit is certified: every SL has voted beyond what this one has     *)
(* delivered.                                                                 *)
LEMMA CommitIsCertified ==
    ASSUME IInv, IInv', NEW m \in net, Commit(m), state'[m.to] \in Idle,
           \A i \in SL \ {m.to} : state'[i] = state[i]
    PROVE  Abstract!Certified(m.to)
  <1> DEFINE n == m.to
  <1>1. TypeOK /\ TypeOK' /\ PositionFacts /\ PositionFacts'
    BY PositionTypes, PTL DEF IInv
  <1>2. /\ n \in SL /\ state[n] = "WAITING_FOR_FULLCOMMIT" /\ m.type = "FULL_COMMIT"
        /\ m.seq = Voted(n) /\ D(n) + 1 = Voted(n) /\ D(n)' = Voted(n)
        /\ \A i \in SL \ {n} : D(i)' = D(i)
    BY CommitFacts DEF Commit
  <1>3. \A i \in SL : Voted(i) >= m.seq
    BY <1>2, IInvAssertions DEF FullCommitIsUnanimous
  <1>4. \A i \in SL : Voted(i) > D(n)
    BY <1>1, <1>2, <1>3 DEF PositionFacts
  <1>5. Voted(n)' = Voted(n) /\ \A i \in SL \ {n} : Voted(i)' = Voted(i)
    BY <1>1, <1>2 DEF PositionFacts
  <1>6. [i \in SL |-> Voted(i)]' = [i \in SL |-> Voted(i)]
    BY <1>5
  <1>7. D(n)' = D(n) + 1
    BY <1>1, <1>2 DEF PositionFacts
  <1>8. [i \in SL |-> Len(delivered[i])]' = [[i \in SL |-> Len(delivered[i])] EXCEPT ![n] = @ + 1]
    BY <1>2, <1>7 DEF D
  <1>9. D(n) < Voted(n)
    BY <1>2, <1>4
  <1> QED
    BY <1>2, <1>4, <1>6, <1>8, <1>9, Mapping DEF Abstract!Certified

(* What the leader sends is a new entry of the log of BGLog.                   *)
LEMMA SendIsExtend ==
    ASSUME IInv, NEW e \in Entry, NEW rest, SendPreprepare(e, rest)
    PROVE  \E p \in Preprepare : Abstract!Extend(p)
  <1> DEFINE p == [request |-> e, collector_SLid |-> leader_collector_rr]
  <1>1. p \in Preprepare
    BY DEF IInv, TypeOK, Preprepare
  <1>2. Abstract!Extend(p)
    BY DEF SendPreprepare, Abstract!Extend
  <1> QED
    BY <1>1, <1>2

(* Every step of Round2 is one of BGLog or moves no position.                 *)
LEMMA NextImplements ==
    IInv /\ IInv' /\ [Next]_vars => [Abstract!Next]_(Abstract!vars)
  <1> SUFFICES ASSUME IInv, IInv', [Next]_vars PROVE [Abstract!Next]_(Abstract!vars)
    OBVIOUS
  <1>1. TypeOK /\ TypeOK' /\ PositionFacts /\ PositionFacts' /\ Leader \in SL
    BY PositionTypes, LeaderInSL, PTL DEF IInv
  <1>2. ASSUME log' = log, \A i \in SL : D(i)' = D(i),
               \A i \in SL : state'[i] \in Idle <=> state[i] \in Idle
        PROVE  UNCHANGED Abstract!vars
    <2>1. \A i \in SL : Voted(i)' = Voted(i)
      BY <1>1, <1>2, SameVotes
    <2>2. [i \in SL |-> Voted(i)]' = [i \in SL |-> Voted(i)]
      BY <2>1
    <2>3. [i \in SL |-> Len(delivered[i])]' = [i \in SL |-> Len(delivered[i])]
      BY <1>2 DEF D
    <2> QED
      BY <1>2, <2>2, <2>3 DEF Abstract!vars
  <1>3. ASSUME NEW e \in Entry, Propose(e) PROVE Abstract!Next
    <2>1. /\ state[Leader] = "NONE" /\ SendPreprepare(e, net)
          /\ delivered' = delivered
          /\ state' = [state EXCEPT ![Leader] = "WAITING_FOR_PREPREPARE"]
      BY <1>3 DEF Propose, canStartRound2
    <2>2. D(Leader) = K
      BY <2>1 DEF IInv, Positions
    <2>3. \A i \in SL : state'[i] \in Idle <=> state[i] \in Idle
      BY <1>1, <2>1 DEF TypeOK, Idle
    <2>4. \A i \in SL : D(i)' = D(i) /\ Voted(i)' = Voted(i)
      BY <1>1, <2>1, <2>3, SameVotes DEF D
    <2>5. [i \in SL |-> Voted(i)]' = [i \in SL |-> Voted(i)]
      BY <2>4
    <2>6. [i \in SL |-> Len(delivered[i])]' = [i \in SL |-> Len(delivered[i])]
      BY <2>4 DEF D
    <2>7. PICK p \in Preprepare : Abstract!Extend(p)
      BY <2>1, SendIsExtend
    <2>8. Abstract!Propose(p)
      BY <1>1, <2>2, <2>5, <2>6, <2>7, Mapping DEF Abstract!Propose, K
    <2> QED
      BY <2>8 DEF Abstract!Next
  <1>4. ASSUME NEW m \in net, HandlePreprepare(m) PROVE Abstract!Next
    <2>1. m.to \in SL
      BY <1>1, MessageFields
    <2> QED
      BY <1>4, <2>1, PreprepareIsVote, Mapping DEF Abstract!Next
  <1>5. ASSUME NEW m \in net, HandlePartialCommit(m) PROVE UNCHANGED Abstract!vars
    BY <1>2, <1>5 DEF HandlePartialCommit, D
  <1>6. ASSUME NEW m \in net, HandleLastPartialCommit(m) PROVE UNCHANGED Abstract!vars
    <2>1. \A i \in SL : state'[i] \in Idle <=> state[i] \in Idle
      BY <1>1, <1>6 DEF HandleLastPartialCommit, Counts, TypeOK, Idle
    <2> QED
      BY <1>2, <1>6, <2>1 DEF HandleLastPartialCommit, D
  <1>7. ASSUME NEW m \in net, HandleFullCommit(m) PROVE Abstract!Next
    <2>1. Commit(m) /\ m.to \in SL /\ log' = log
      BY <1>1, <1>7, MessageFields DEF HandleFullCommit
    <2>2. state'[m.to] \in Idle /\ \A i \in SL \ {m.to} : state'[i] = state[i]
      BY <1>1, <1>7, <2>1 DEF HandleFullCommit, TypeOK, Idle
    <2>3. Abstract!Certified(m.to)
      BY <2>1, <2>2, CommitIsCertified
    <2> QED
      BY <2>1, <2>3, Mapping DEF Abstract!Next, Abstract!Deliver
  <1>8. ASSUME NEW m \in net, NEW e \in Entry, HandleFullCommitAndSpawn(m, e) PROVE Abstract!Next
    <2>1. Commit(m) /\ m.to = Leader /\ SendPreprepare(e, net \ {m})
      BY <1>8 DEF HandleFullCommitAndSpawn
    <2>2. state'[m.to] \in Idle /\ \A i \in SL \ {m.to} : state'[i] = state[i]
      BY <1>1, <1>8, <2>1 DEF HandleFullCommitAndSpawn, TypeOK, Idle
    <2>3. Abstract!Certified(Leader)
      BY <2>1, <2>2, CommitIsCertified
    <2>4. D(Leader) + 1 = K
      BY <2>1, CommitFacts DEF IInv, Positions
    <2>5. PICK p \in Preprepare : Abstract!Extend(p)
      BY <2>1, SendIsExtend
    <2>6. Abstract!DeliverAndPropose(p)
      BY <1>1, <2>3, <2>4, <2>5, Mapping DEF Abstract!DeliverAndPropose, K
    <2> QED
      BY <2>6 DEF Abstract!Next
  <1>9. CASE UNCHANGED vars
    BY <1>2, <1>9 DEF vars, status, D
  <1> QED
    BY <1>3, <1>4, <1>5, <1>6, <1>7, <1>8, <1>9 DEF Next

(* Round 2 implements the log with votes: every behaviour of the handlers, in *)
(* any order of the messages, is one of BGLog.                                *)
THEOREM LogWithVotes == Spec => Abstract!Spec
  <1>1. Init => Abstract!Init
    <2> SUFFICES ASSUME Init PROVE Abstract!Init
      OBVIOUS
    <2>1. TypeOK /\ PositionFacts
      BY InitIInv, PositionTypes DEF IInv
    <2>2. \A i \in SL : D(i) = 0 /\ Voted(i) = 0
      BY <2>1 DEF Init, D, PositionFacts, Idle
    <2>3. log = <<>>
      BY DEF Init
    <2> QED
      BY <2>2, <2>3, Mapping DEF Abstract!Init, D
  <1> QED
    BY <1>1, SpecIInv, NextImplements, PTL DEF Spec, Abstract!Spec

(* A vote is for the next undelivered entry, so nobody can be behind an SL    *)
(* that delivers what everybody voted for.                                    *)
LEMMA CertifiedIsDeliver ==
    ASSUME IInv, NEW n \in Abstract!SL, Abstract!Certified(n)
    PROVE  Abstract!Unvoted!Deliver(n)
  <1>1. n \in SL /\ PositionFacts
    BY PositionTypes, Mapping DEF IInv
  <1>2. /\ D(n) < Voted(n) /\ \A i \in SL : Voted(i) > D(n)
        /\ [i \in SL |-> Len(delivered[i])]' = [[i \in SL |-> Len(delivered[i])] EXCEPT ![n] = @ + 1]
    BY <1>1, Mapping DEF Abstract!Certified
  <1>3. D(n) < Len(log) /\ \A i \in SL : D(i) >= D(n)
    <2>1. K \in Nat /\ D(n) \in Nat /\ Voted(n) \in Nat
      BY <1>1 DEF PositionFacts
    <2>2. Voted(n) <= K
      BY <1>1 DEF IInv, Positions
    <2>3. D(n) < K
      BY <2>1, <2>2, <1>2
    <2>4. ASSUME NEW i \in SL PROVE D(i) >= D(n)
      <3>1. D(i) \in Nat /\ Voted(i) \in Nat /\ (Voted(i) = D(i) \/ Voted(i) = D(i) + 1)
        BY <1>1 DEF PositionFacts
      <3>2. Voted(i) > D(n)
        BY <1>2
      <3> QED
        BY <3>1, <3>2, <2>1
    <2> QED
      BY <2>3, <2>4 DEF K
  <1> DEFINE d == [i \in SL |-> Len(delivered[i])]
  <1>4. d[n] < Len(log) /\ \A i \in SL : d[i] >= d[n]
    BY <1>1, <1>3 DEF D
  <1>5. d' = [d EXCEPT ![n] = @ + 1]
    BY <1>2
  <1> HIDE DEF d
  <1>6. Abstract!Unvoted!Deliver(n) <=>
            /\ d[n] < Len(log) /\ \A i \in SL : d[i] >= d[n]
            /\ d' = [d EXCEPT ![n] = @ + 1]
    BY DEF Abstract!Unvoted!Deliver, Abstract!Unvoted!SL, SL, d
  <1> QED
    BY <1>4, <1>5, <1>6

(* What Round 3 is told of Round 2: the group is a log that its SLs apply in  *)
(* step, none of them more than one entry ahead of another.                   *)
THEOREM LogForRound3 == Spec => ImplementsGroupLog
  <1>1. Init => Abstract!Unvoted!Init
    <2> SUFFICES ASSUME Init PROVE Abstract!Unvoted!Init
      OBVIOUS
    <2>1. \A i \in SL : Len(delivered[i]) = 0
      BY DEF Init
    <2>2. log = <<>>
      BY DEF Init
    <2> QED
      BY <2>1, <2>2 DEF Abstract!Unvoted!Init, Abstract!Unvoted!SL, SL
  <1>2. IInv /\ [Abstract!Next]_(Abstract!vars) => [Abstract!Unvoted!Next]_(Abstract!Unvoted!vars)
    <2> SUFFICES ASSUME IInv, [Abstract!Next]_(Abstract!vars)
                 PROVE  [Abstract!Unvoted!Next]_(Abstract!Unvoted!vars)
      OBVIOUS
    <2> USE LeaderInSL, Mapping
    <2>1. ASSUME NEW e \in Preprepare, Abstract!Propose(e) PROVE Abstract!Unvoted!Next
      BY <2>1 DEF Abstract!Propose, Abstract!Extend, Abstract!Unvoted!Next, Abstract!Unvoted!Extend,
           Abstract!Unvoted!Leader, Leader
    <2>2. ASSUME NEW e \in Preprepare, Abstract!DeliverAndPropose(e) PROVE Abstract!Unvoted!Next
      <3>1. /\ Abstract!Certified(Leader) /\ D(Leader) + 1 = Len(log)
            /\ \E p \in Preprepare : log' = Append(log, p)
        BY <2>2 DEF Abstract!DeliverAndPropose, Abstract!Extend
      <3>2. Abstract!Unvoted!Deliver(Leader)
        BY <3>1, CertifiedIsDeliver
      <3>3. [i \in SL |-> Len(delivered[i])]'[Leader] = Len(log)
        BY <3>1 DEF Abstract!Certified
      <3>4. Abstract!Unvoted!Extend
        BY <3>1, <3>3 DEF Abstract!Unvoted!Extend, Abstract!Unvoted!Leader, Leader
      <3> QED
        BY <3>2, <3>4 DEF Abstract!Unvoted!Next, Abstract!Unvoted!SL, SL,
             Abstract!Unvoted!Leader, Leader
    <2>3. ASSUME NEW n \in Abstract!SL, Abstract!Vote(n) PROVE UNCHANGED Abstract!Unvoted!vars
      BY <2>3 DEF Abstract!Vote, Abstract!Unvoted!vars
    <2>4. ASSUME NEW n \in Abstract!SL, Abstract!Deliver(n) PROVE Abstract!Unvoted!Next
      <3>1. Abstract!Unvoted!Deliver(n) /\ UNCHANGED log
        BY <2>4, CertifiedIsDeliver DEF Abstract!Deliver
      <3> QED
        BY <3>1 DEF Abstract!Unvoted!Next, Abstract!Unvoted!SL, SL
    <2>5. CASE UNCHANGED Abstract!vars
      BY <2>5 DEF Abstract!vars, Abstract!Unvoted!vars
    <2> QED
      BY <2>1, <2>2, <2>3, <2>4, <2>5 DEF Abstract!Next
  <1> QED
    BY <1>1, <1>2, SpecIInv, NextImplements, PTL
    DEF Spec, ImplementsGroupLog, Abstract!ImplementsGroupLog, Abstract!Unvoted!Spec

-----------------------------------------------------------------------------
(* BGLog by itself: what a group promises as far as its log with votes goes,  *)
(* whatever implements it, over a log, votes and deliveries of its own.       *)
VARIABLES entries, votes, deliveries

Log == INSTANCE BGLog WITH
    log <- entries,
    voted <- votes,
    delivered <- deliveries

(* TypeOK, but for the bound on the positions, which VotesAhead gives.        *)
LogTypes ==
    /\ entries \in Seq(Entry)
    /\ votes \in [Log!SL -> Nat]
    /\ deliveries \in [Log!SL -> Nat]

(* How the votes tie the SLs together: an SL votes at most one entry beyond   *)
(* what it delivered, nobody delivers beyond anybody's votes, and the leader  *)
(* keeps at most one entry open.                                              *)
VotesAhead ==
    \A n \in Log!SL :
        /\ deliveries[n] <= votes[n]
        /\ votes[n] <= deliveries[n] + 1
        /\ votes[n] <= Len(entries)
DeliveredIsVoted == \A m, n \in Log!SL : deliveries[m] <= votes[n]
OneOpen == Len(entries) <= deliveries[Log!Leader] + 1

LogIInv == LogTypes /\ VotesAhead /\ DeliveredIsVoted /\ OneOpen

(* SL 0 exists.                                                               *)
LEMMA LogLeader == Log!Leader \in Log!SL
  BY NAssumption DEF Log!Leader, Log!SL

(* Appending keeps the type of the log and adds one to its length.            *)
LEMMA ExtendLemma ==
    ASSUME LogTypes, NEW e \in Entry, Log!Extend(e)
    PROVE  entries' \in Seq(Entry) /\ Len(entries') = Len(entries) + 1 /\ Len(entries) \in Nat
  BY DEF LogTypes, Log!Extend

(* What a delivery does to the votes, with or without a new entry: everybody  *)
(* had voted for it, so nobody's delivered entries pass anybody's votes.       *)
LEMMA CertifiedLemma ==
    ASSUME LogIInv, NEW n \in Log!SL, Log!Certified(n)
    PROVE  /\ deliveries' \in [Log!SL -> Nat]
           /\ votes' = votes
           /\ deliveries'[n] = deliveries[n] + 1
           /\ \A m \in Log!SL : deliveries[m] <= deliveries'[m] /\ deliveries'[m] <= votes[m]
           /\ DeliveredIsVoted'
  <1>1. /\ deliveries \in [Log!SL -> Nat]
        /\ votes \in [Log!SL -> Nat]
        /\ votes' = votes
        /\ deliveries' = [deliveries EXCEPT ![n] = @ + 1]
        /\ \A m \in Log!SL : votes[m] > deliveries[n]
    BY DEF LogIInv, LogTypes, Log!Certified
  <1>2. /\ deliveries' \in [Log!SL -> Nat]
        /\ deliveries'[n] = deliveries[n] + 1
        /\ \A m \in Log!SL \ {n} : deliveries'[m] = deliveries[m]
    BY <1>1
  <1>3. \A m, k \in Log!SL : deliveries'[m] <= votes[k]
    <2> SUFFICES ASSUME NEW m \in Log!SL, NEW k \in Log!SL PROVE deliveries'[m] <= votes[k]
      OBVIOUS
    <2>1. deliveries[m] <= votes[k]
      BY DEF LogIInv, DeliveredIsVoted
    <2> QED
      BY <1>1, <1>2, <2>1
  <1>4. \A m \in Log!SL : deliveries[m] <= deliveries'[m]
    BY <1>1, <1>2
  <1> QED
    BY <1>1, <1>2, <1>3, <1>4 DEF DeliveredIsVoted

(* The strengthened invariant holds in the initial state.                     *)
LEMMA LogInit == Log!Init => LogIInv
  <1> SUFFICES ASSUME Log!Init PROVE LogIInv
    OBVIOUS
  <1>1. LogTypes
    BY DEF Log!Init, LogTypes
  <1>2. Len(entries) = 0
    BY DEF Log!Init
  <1> QED
    BY <1>1, <1>2, LogLeader DEF Log!Init, LogIInv, VotesAhead, DeliveredIsVoted, OneOpen

(* Every step preserves it.                                                   *)
LEMMA LogNext == LogIInv /\ [Log!Next]_(Log!vars) => LogIInv'
  <1> SUFFICES ASSUME LogIInv, [Log!Next]_(Log!vars) PROVE LogIInv'
    OBVIOUS
  <1> USE LogLeader
  <1>0. Len(entries) \in Nat
    BY DEF LogIInv, LogTypes
  <1>1. ASSUME NEW e \in Entry, Log!Propose(e) PROVE LogIInv'
    <2>1. LogTypes' /\ Len(entries') = Len(entries) + 1
      BY <1>1, ExtendLemma DEF LogIInv, LogTypes, Log!Propose
    <2>2. votes' = votes /\ deliveries' = deliveries /\ deliveries[Log!Leader] = Len(entries)
      BY <1>1 DEF Log!Propose
    <2> QED
      BY <1>0, <2>1, <2>2 DEF LogIInv, LogTypes, VotesAhead, DeliveredIsVoted, OneOpen
  <1>2. ASSUME NEW e \in Entry, Log!DeliverAndPropose(e) PROVE LogIInv'
    <2>1. entries' \in Seq(Entry) /\ Len(entries') = Len(entries) + 1
      BY <1>2, ExtendLemma DEF LogIInv, Log!DeliverAndPropose
    <2>2. Log!Certified(Log!Leader) /\ deliveries[Log!Leader] + 1 = Len(entries)
      BY <1>2 DEF Log!DeliverAndPropose
    <2>3. LogTypes'
      BY <2>1, <2>2, CertifiedLemma DEF LogIInv, LogTypes
    <2>4. /\ votes' = votes
          /\ deliveries'[Log!Leader] = deliveries[Log!Leader] + 1
          /\ \A m \in Log!SL : deliveries[m] <= deliveries'[m] /\ deliveries'[m] <= votes[m]
          /\ DeliveredIsVoted'
      BY <2>2, CertifiedLemma
    <2>5. VotesAhead'
      BY <1>0, <2>1, <2>3, <2>4 DEF LogIInv, LogTypes, VotesAhead
    <2>6. OneOpen'
      BY <1>0, <2>1, <2>2, <2>3, <2>4 DEF LogIInv, LogTypes, OneOpen
    <2> QED
      BY <2>3, <2>4, <2>5, <2>6 DEF LogIInv
  <1>3. ASSUME NEW n \in Log!SL, Log!Vote(n) PROVE LogIInv'
    BY <1>0, <1>3 DEF LogIInv, LogTypes, VotesAhead, DeliveredIsVoted, OneOpen, Log!Vote
  <1>4. ASSUME NEW n \in Log!SL, Log!Deliver(n) PROVE LogIInv'
    <2>1. entries' = entries /\ Log!Certified(n)
      BY <1>4 DEF Log!Deliver
    <2>2. LogTypes'
      BY <2>1, CertifiedLemma DEF LogIInv, LogTypes
    <2>3. /\ votes' = votes
          /\ \A m \in Log!SL : deliveries[m] <= deliveries'[m] /\ deliveries'[m] <= votes[m]
          /\ DeliveredIsVoted'
      BY <2>1, CertifiedLemma
    <2>4. VotesAhead'
      BY <1>0, <2>1, <2>2, <2>3 DEF LogIInv, LogTypes, VotesAhead
    <2>5. OneOpen'
      BY <1>0, <2>1, <2>2, <2>3 DEF LogIInv, LogTypes, OneOpen
    <2> QED
      BY <2>2, <2>3, <2>4, <2>5 DEF LogIInv
  <1>5. CASE UNCHANGED Log!vars
    BY <1>5 DEF LogIInv, LogTypes, VotesAhead, DeliveredIsVoted, OneOpen, Log!vars
  <1> QED
    BY <1>1, <1>2, <1>3, <1>4, <1>5 DEF Log!Next

(* The strengthened invariant implies the two bounds.                         *)
LEMMA LogBounds == LogIInv => Log!LagAtMostOne /\ Log!TwoOpenEntries
  <1> SUFFICES ASSUME LogIInv PROVE Log!LagAtMostOne /\ Log!TwoOpenEntries
    OBVIOUS
  <1>1. Log!LagAtMostOne
    BY DEF LogIInv, LogTypes, VotesAhead, DeliveredIsVoted, Log!LagAtMostOne
  <1>2. Log!TwoOpenEntries
    <2> SUFFICES ASSUME NEW n \in Log!SL PROVE Len(entries) <= deliveries[n] + 2
      BY DEF Log!TwoOpenEntries
    <2>1. Len(entries) \in Nat /\ deliveries[n] \in Nat /\ votes[n] \in Nat /\ deliveries[Log!Leader] \in Nat
      BY LogLeader DEF LogIInv, LogTypes
    <2>2. /\ Len(entries) <= deliveries[Log!Leader] + 1
          /\ deliveries[Log!Leader] <= votes[n]
          /\ votes[n] <= deliveries[n] + 1
      BY LogLeader DEF LogIInv, VotesAhead, DeliveredIsVoted, OneOpen
    <2> QED
      BY <2>1, <2>2
  <1> QED
    BY <1>1, <1>2

(* The strengthened invariant is one of the specification.                    *)
LEMMA LogInvariant == Log!Spec => []LogIInv
  BY LogInit, LogNext, PTL DEF Log!Spec

(* Types for every number of SLs and every log length.                       *)
THEOREM LogTypeCorrect == Log!Spec => []Log!TypeOK
  <1>1. ASSUME LogIInv PROVE Log!TypeOK
    <2>1. Len(entries) \in Nat
      BY DEF LogIInv, LogTypes
    <2>2. \A n \in Log!SL : votes[n] \in 0..Len(entries) /\ deliveries[n] \in 0..Len(entries)
      BY <1>1, <2>1 DEF LogIInv, LogTypes, VotesAhead
    <2> QED
      BY <1>1, <2>2 DEF LogIInv, LogTypes, Log!TypeOK
  <1> QED
    BY <1>1, LogInvariant, PTL

(* No SL falls more than one delivered entry behind another: what lets any SL *)
(* of a group answer the requests of Round 3.                                 *)
THEOREM LagBound == Log!Spec => []Log!LagAtMostOne
  <1>1. LogIInv => Log!LagAtMostOne
    BY LogBounds
  <1> QED
    BY <1>1, LogInvariant, PTL

(* The leader runs at most two entries ahead of any SL.                       *)
THEOREM OpenBound == Log!Spec => []Log!TwoOpenEntries
  <1>1. LogIInv => Log!TwoOpenEntries
    BY LogBounds
  <1> QED
    BY <1>1, LogInvariant, PTL

-----------------------------------------------------------------------------
(* An SL delivers only what nobody is behind on: everybody voted for the     *)
(* entry, and an SL votes when it has delivered all entries before it.       *)
LEMMA CertifiedIsInStep ==
    ASSUME LogIInv, NEW n \in Log!SL, Log!Certified(n)
    PROVE  Log!Unvoted!Deliver(n)
  <1>1. /\ deliveries[n] < votes[n]
        /\ \A m \in Log!SL : votes[m] > deliveries[n]
        /\ deliveries' = [deliveries EXCEPT ![n] = @ + 1]
    BY DEF Log!Certified
  <1>2. \A m \in Log!SL : deliveries[m] \in Nat /\ votes[m] \in Nat /\ votes[m] <= deliveries[m] + 1
    BY DEF LogIInv, LogTypes, VotesAhead
  <1>3. deliveries[n] < Len(entries)
    BY <1>1, <1>2 DEF LogIInv, LogTypes, VotesAhead
  <1>4. \A m \in Log!SL : deliveries[m] >= deliveries[n]
    BY <1>1, <1>2
  <1> QED
    BY <1>1, <1>3, <1>4 DEF Log!Unvoted!Deliver, Log!Unvoted!SL, Log!SL

(* The group without its votes: every behaviour of BGLog is one of GroupLog,  *)
(* where no SL applies an entry while another SL is behind it.                *)
THEOREM LogImplemented == Log!Spec => Log!ImplementsGroupLog
  <1> USE LogLeader
  <1>1. Log!Init => Log!Unvoted!Init
    BY DEF Log!Init, Log!Unvoted!Init, Log!Unvoted!SL, Log!SL
  <1>2. LogIInv /\ [Log!Next]_(Log!vars) => [Log!Unvoted!Next]_(Log!Unvoted!vars)
    <2> SUFFICES ASSUME LogIInv, [Log!Next]_(Log!vars) PROVE [Log!Unvoted!Next]_(Log!Unvoted!vars)
      OBVIOUS
    <2>1. ASSUME NEW e \in Entry, Log!Propose(e) PROVE Log!Unvoted!Next
      BY <2>1 DEF Log!Propose, Log!Extend, Log!Unvoted!Next, Log!Unvoted!Extend, Log!Unvoted!Leader, Log!Leader
    <2>2. ASSUME NEW e \in Entry, Log!DeliverAndPropose(e) PROVE Log!Unvoted!Next
      <3>1. Log!Certified(Log!Leader) /\ deliveries[Log!Leader] + 1 = Len(entries)
        BY <2>2 DEF Log!DeliverAndPropose
      <3>2. Log!Unvoted!Deliver(Log!Leader) /\ deliveries'[Log!Leader] = Len(entries)
        BY <3>1, CertifiedIsInStep, CertifiedLemma
      <3>3. Log!Unvoted!Extend
        BY <2>2, <3>2 DEF Log!DeliverAndPropose, Log!Extend, Log!Unvoted!Extend, Log!Unvoted!Leader, Log!Leader
      <3> QED
        BY <3>2, <3>3 DEF Log!Unvoted!Next, Log!Unvoted!SL, Log!SL, Log!Unvoted!Leader, Log!Leader
    <2>3. ASSUME NEW n \in Log!SL, Log!Vote(n) PROVE UNCHANGED Log!Unvoted!vars
      BY <2>3 DEF Log!Vote, Log!Unvoted!vars
    <2>4. ASSUME NEW n \in Log!SL, Log!Deliver(n) PROVE Log!Unvoted!Next
      <3>1. Log!Unvoted!Deliver(n) /\ UNCHANGED entries
        BY <2>4, CertifiedIsInStep DEF Log!Deliver
      <3> QED
        BY <3>1 DEF Log!Unvoted!Next, Log!Unvoted!SL, Log!SL
    <2>5. CASE UNCHANGED Log!vars
      BY <2>5 DEF Log!vars, Log!Unvoted!vars
    <2> QED
      BY <2>1, <2>2, <2>3, <2>4, <2>5 DEF Log!Next
  <1> QED
    BY <1>1, <1>2, LogInvariant, PTL DEF Log!Spec, Log!Unvoted!Spec, Log!ImplementsGroupLog

==============================================================================
