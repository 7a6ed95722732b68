--------------------------- MODULE ConnectionProofs ---------------------------
(* Proofs about Mesh and, in the second half, about what ByteOrder does to a  *)
(* message on one of the connections that Mesh sets up.                       *)
(*                                                                            *)
(* Mesh, for any number of SLs, any length of the backlog and any number of   *)
(* failed accepts: an SL that begins to poll lacks no more sockets than       *)
(* accepts have failed, unless its listen failed, and then just those of the  *)
(* SLs that connect to it.                                                    *)
(*                                                                            *)
(* The accepting thread counts turns of its loop and not sockets, and closes  *)
(* the listening socket by that count.  That the count is right rests on the  *)
(* other side: an SL connects to another once, so that the connections that   *)
(* are queued or being read are of different SLs, none of which has a socket  *)
(* yet.                                                                       *)
EXTENDS Mesh, ByteOrder, FiniteSetTheorems, TLAPS

(* The SLs whose connection n has accepted and heard from.                    *)
Got(n) == {m \in Passive(n) : fdSocket[n][m] # Unset}

(* c is a connection to n that the other side has and n does not have yet.    *)
Awaited(n, c) ==
    \E m \in Passive(n) : c = <<m, n>> /\ fdSocket[n][m] = Unset /\ fdSocket[m][n] # Unset

(* The connections between connect and Hello are awaited, each once.          *)
QueueOK(n) ==
    /\ \A i \in 1..Len(backlog[n]) : Awaited(n, backlog[n][i])
    /\ \A i, j \in 1..Len(backlog[n]) : backlog[n][i] = backlog[n][j] => i = j
    /\ listener[n] = "reading" =>
          Awaited(n, current[n]) /\ \A i \in 1..Len(backlog[n]) : backlog[n][i] # current[n]

(* The side that connects has its socket first.                               *)
ActiveFirst(n) == \A m \in Passive(n) : fdSocket[n][m] # Unset => fdSocket[m][n] # Unset

(* The main thread connects in the order of the numbers and waits for the     *)
(* accepting thread before it begins to poll.                                 *)
MainOK(n) ==
    /\ main[n] <= n
    /\ main[n] = -1 => listener[n] \in {"closed", "failed"}
    /\ \A m \in Active(n) : main[n] = -1 \/ m < main[n] => fdSocket[n][m] # Unset

(* The accepting thread takes as many turns as there are SLs to come, once it *)
(* listens; nobody connects before.                                           *)
ListenerOK(n) ==
    /\ listener[n] \in {"bound", "failed"} => accepted[n] = 0 /\ Got(n) = {}
    /\ Listens(n) => accepted[n] < Cardinality(Passive(n))
    /\ listener[n] = "closed" => accepted[n] = Cardinality(Passive(n))

(* A turn has filled a socket, or its accept has failed.                      *)
CountOK(n) == accepted[n] <= Cardinality(Got(n)) + failures

(* The inductive invariant.                                                   *)
NodeOK(n) == QueueOK(n) /\ ActiveFirst(n) /\ MainOK(n) /\ ListenerOK(n) /\ CountOK(n)
IInv == TypeOK /\ \A n \in Node : NodeOK(n)

-----------------------------------------------------------------------------
(* The SLs, and how many of them connect to n.                                *)
LEMMA Nodes ==
    /\ NumNode \in Nat /\ Node \subseteq Nat /\ -1 \notin Node
    /\ \A n \in Node : /\ Passive(n) \subseteq Node /\ Active(n) \subseteq Node
                       /\ n \notin Passive(n) /\ n \notin Active(n)
                       /\ \A m \in Node : m = n \/ m \in Active(n) \/ m \in Passive(n)
                       /\ \A m \in Passive(n) : n \in Active(m)
                       /\ \A m \in Active(n) : n \in Passive(m)
                       /\ IsFiniteSet(Passive(n))
                       /\ Cardinality(Passive(n)) \in Node
    /\ \A c \in Connection : c # Unset
  <1>1. NumNode \in Nat /\ NumNode > 0
    BY NumNodeAssumption
  <1>2. \A n \in Node : n \in Nat /\ n < NumNode /\ n <= NumNode - 1
    BY <1>1 DEF Node
  <1>3. ASSUME NEW n \in Node PROVE IsFiniteSet(Passive(n)) /\ Cardinality(Passive(n)) \in Node
    <2>1. Passive(n) = (n + 1)..(NumNode - 1)
      BY <1>1, <1>2 DEF Passive, Node
    <2>2. n + 1 \in Int /\ NumNode - 1 \in Int
      BY <1>1, <1>2
    <2>3. /\ IsFiniteSet((n + 1)..(NumNode - 1))
          /\ Cardinality((n + 1)..(NumNode - 1)) =
                IF n + 1 > NumNode - 1 THEN 0 ELSE (NumNode - 1) - (n + 1) + 1
      BY <2>2, FS_Interval
    <2>4. \A k \in Int : k = (IF n + 1 > NumNode - 1 THEN 0 ELSE (NumNode - 1) - (n + 1) + 1) => k \in 0..(NumNode - 1)
      BY <1>1, <1>2
    <2>5. Cardinality(Passive(n)) \in Int
      BY <2>1, <2>3, FS_CardinalityType
    <2> QED
      BY <2>1, <2>3, <2>4, <2>5 DEF Node
  <1>4. \A c \in Connection : c # Unset
    BY <1>1, <1>2 DEF Connection, Unset
  <1> QED
    BY <1>1, <1>2, <1>3, <1>4 DEF Passive, Active

(* Sockets are filled and never emptied.                                      *)
Fills == \A n, m \in Node : fdSocket[n][m] # Unset => fdSocket'[n][m] # Unset

(* The SLs that n has heard from are finitely many of those that connect to n. *)
LEMMA GotType ==
    ASSUME NEW n \in Node
    PROVE  IsFiniteSet(Got(n)) /\ Cardinality(Got(n)) \in Nat /\ Got(n) \subseteq Passive(n)
  <1>1. Got(n) \in SUBSET Passive(n)
    BY DEF Got
  <1>2. IsFiniteSet(Passive(n))
    BY Nodes
  <1>3. IsFiniteSet(Got(n))
    BY <1>1, <1>2, FS_Subset
  <1> QED
    BY <1>1, <1>3, FS_CardinalityType

(* Init satisfies the invariant.                                              *)
LEMMA InitIInv == Init => IInv
  <1> SUFFICES ASSUME Init PROVE IInv
    OBVIOUS
  <1>1. TypeOK
    <2>1. 0 \in Node /\ Backlog \in Nat /\ MaxFailures \in Nat
      BY NumNodeAssumption, BacklogAssumption, FailuresAssumption DEF Node
    <2> QED
      BY <2>1 DEF Init, TypeOK
  <1>2. ASSUME NEW n \in Node PROVE NodeOK(n)
    <2>1. n \in Nat /\ Cardinality(Got(n)) \in Nat /\ \A m \in Active(n) : m \in Node /\ m \in Nat
      BY Nodes, GotType
    <2>2. \A m \in Passive(n) : m \in Node
      BY Nodes
    <2>3. /\ main[n] = 0 /\ listener[n] = "bound" /\ accepted[n] = 0 /\ backlog[n] = <<>>
          /\ failures = 0 /\ \A m \in Node : fdSocket[n][m] = Unset
      BY DEF Init
    <2>4. QueueOK(n)
      BY <2>3 DEF QueueOK
    <2>5. ActiveFirst(n)
      BY <2>2, <2>3 DEF ActiveFirst
    <2>6. MainOK(n)
      BY <2>1, <2>3 DEF MainOK
    <2>7. ListenerOK(n)
      BY <2>2, <2>3 DEF ListenerOK, Listens, Got
    <2>8. CountOK(n)
      BY <2>1, <2>3 DEF CountOK
    <2> QED
      BY <2>4, <2>5, <2>6, <2>7, <2>8 DEF NodeOK
  <1> QED
    BY <1>1, <1>2 DEF IInv

-----------------------------------------------------------------------------
(* What keeps each part of the invariant of an SL.                            *)
LEMMA Types ==
    ASSUME TypeOK, NEW n \in Node
    PROVE  /\ main[n] \in Int /\ accepted[n] \in Nat /\ failures \in Nat
           /\ backlog[n] \in Seq(Connection) /\ Len(backlog[n]) \in Nat
           /\ \A i \in 1..Len(backlog[n]) : backlog[n][i] \in Connection
  <1>1. \A k \in Node \union {-1} : k \in Int
    BY Nodes
  <1>2. accepted[n] \in Nat
    BY Nodes DEF TypeOK
  <1>3. failures \in Nat
    BY FailuresAssumption DEF TypeOK
  <1> QED
    BY <1>1, <1>2, <1>3 DEF TypeOK

(* What waits at n keeps waiting, each once, while n fills no socket of an SL *)
(* that connects to it.                                                       *)
LEMMA QueueSame ==
    ASSUME NEW n \in Node, QueueOK(n), Fills, \A m \in Node : fdSocket'[n][m] = fdSocket[n][m] \/ m \notin Passive(n),
           backlog'[n] = backlog[n],
           listener'[n] # "reading" \/ (listener[n] = "reading" /\ current'[n] = current[n])
    PROVE  QueueOK(n)'
  <1>1. ASSUME NEW c, Awaited(n, c) PROVE Awaited(n, c)'
    <2>1. PICK m \in Passive(n) : c = <<m, n>> /\ fdSocket[n][m] = Unset /\ fdSocket[m][n] # Unset
      BY <1>1 DEF Awaited
    <2>2. m \in Node
      BY Nodes
    <2> QED
      BY <2>1, <2>2 DEF Awaited, Fills
  <1>2. \A c : Awaited(n, c) => Awaited(n, c)'
    BY <1>1
  <1>3. \A i \in 1..Len(backlog'[n]) : Awaited(n, backlog[n][i])'
    <2> SUFFICES ASSUME NEW i \in 1..Len(backlog[n]), NEW c, c = backlog[n][i] PROVE Awaited(n, backlog[n][i])'
      OBVIOUS
    <2>1. Awaited(n, c)' /\ c = backlog'[n][i]
      BY <1>2 DEF QueueOK
    <2> QED
      BY <2>1 DEF Awaited
  <1>4. ASSUME listener'[n] = "reading" PROVE Awaited(n, current[n])'
    <2> SUFFICES ASSUME NEW c, c = current[n] PROVE Awaited(n, current[n])'
      OBVIOUS
    <2>1. Awaited(n, c)' /\ c = current'[n]
      BY <1>2, <1>4 DEF QueueOK
    <2> QED
      BY <2>1 DEF Awaited
  <1> QED
    BY <1>3, <1>4 DEF QueueOK

(* The side that connects stays first while n fills no socket by accepting.   *)
LEMMA ActiveFirstSame ==
    ASSUME NEW n \in Node, ActiveFirst(n), Fills,
           \A m \in Node : fdSocket'[n][m] = fdSocket[n][m] \/ m \notin Passive(n)
    PROVE  ActiveFirst(n)'
  <1>1. \A m \in Passive(n) : m \in Node
    BY Nodes
  <1> QED
    BY <1>1 DEF ActiveFirst, Fills

(* The main thread's place stays right while it does not move: sockets are    *)
(* not taken away and a listener that has ended stays as it is.               *)
LEMMA MainSame ==
    ASSUME NEW n \in Node, MainOK(n), Fills, main'[n] = main[n],
           listener[n] \in {"closed", "failed"} => listener'[n] = listener[n]
    PROVE  MainOK(n)'
  <1>1. \A m \in Active(n) : m \in Node
    BY Nodes
  <1> QED
    BY <1>1 DEF MainOK, Fills

(* The turns stay covered by sockets and failures while none is taken.        *)
LEMMA CountSame ==
    ASSUME NEW n \in Node, CountOK(n), Fills, accepted'[n] = accepted[n], accepted[n] \in Nat,
           failures \in Nat, failures' \in Nat, failures <= failures'
    PROVE  CountOK(n)'
  <1>1. Got(n) \in SUBSET Got(n)'
    <2>1. \A m \in Passive(n) : m \in Node
      BY Nodes
    <2> QED
      BY <2>1 DEF Got, Fills
  <1>2. IsFiniteSet(Got(n)')
    <2>1. Got(n)' \in SUBSET Passive(n)
      BY DEF Got
    <2>2. IsFiniteSet(Passive(n))
      BY Nodes
    <2> QED
      BY <2>1, <2>2, FS_Subset
  <1>3. Cardinality(Got(n)) <= Cardinality(Got(n)')
    BY <1>1, <1>2, FS_Subset
  <1>4. Cardinality(Got(n)) \in Nat /\ Cardinality(Got(n)') \in Nat
    BY <1>2, GotType, FS_CardinalityType
  <1> QED
    BY <1>3, <1>4 DEF CountOK

(* Nobody is heard from by a thread that does not listen.                     *)
LEMMA GotSame ==
    ASSUME NEW n \in Node, \A m \in Node : fdSocket'[n][m] = fdSocket[n][m] \/ m \notin Passive(n)
    PROVE  Got(n)' = Got(n)
  <1>1. \A m \in Passive(n) : m \in Node
    BY Nodes
  <1> QED
    BY <1>1 DEF Got

(* The accepting thread's turns stay right while it takes none.               *)
LEMMA ListenerSame ==
    ASSUME NEW n \in Node, ListenerOK(n), listener'[n] = listener[n], accepted'[n] = accepted[n],
           \A m \in Node : fdSocket'[n][m] = fdSocket[n][m] \/ m \notin Passive(n)
    PROVE  ListenerOK(n)'
  <1>1. Got(n)' = Got(n)
    BY GotSame
  <1> QED
    BY <1>1 DEF ListenerOK, Listens

(* The SLs a step does not touch.                                             *)
Untouched(k) ==
    /\ main'[k] = main[k] /\ listener'[k] = listener[k] /\ accepted'[k] = accepted[k]
    /\ current'[k] = current[k] /\ backlog'[k] = backlog[k]
    /\ \A m \in Node : fdSocket'[k][m] = fdSocket[k][m] \/ m \notin Passive(k)

(* A step of another SL that leaves n's threads, its queue and the sockets it *)
(* accepts alone keeps the invariant at n.                                    *)
LEMMA UntouchedOK ==
    ASSUME TypeOK, NEW k \in Node, NodeOK(k), Fills, Untouched(k), failures' \in Nat, failures <= failures'
    PROVE  NodeOK(k)'
  <1>1. accepted[k] \in Nat /\ failures \in Nat
    BY Types
  <1>2. QueueOK(k)'
    BY QueueSame DEF NodeOK, Untouched
  <1>3. ActiveFirst(k)'
    BY ActiveFirstSame DEF NodeOK, Untouched
  <1>4. MainOK(k)'
    BY MainSame DEF NodeOK, Untouched
  <1>5. ListenerOK(k)'
    BY ListenerSame DEF NodeOK, Untouched
  <1>6. CountOK(k)'
    BY <1>1, CountSame DEF NodeOK, Untouched
  <1> QED
    BY <1>2, <1>3, <1>4, <1>5, <1>6 DEF NodeOK

-----------------------------------------------------------------------------
(* The main thread.                                                           *)
LEMMA ConnectIInv ==
    ASSUME IInv, NEW n \in Node, Connect(n)
    PROVE  IInv'
  <1> SUFFICES ASSUME NEW m, m = main[n] PROVE IInv'
    OBVIOUS
  <1> DEFINE c == <<n, m>>
  <1>1. /\ TypeOK /\ \A k \in Node : NodeOK(k)
        /\ m >= 0 /\ fdSocket[n][m] = Unset /\ m \in Active(n) /\ Len(backlog[m]) < Backlog
        /\ fdSocket' = [fdSocket EXCEPT ![n][m] = c]
        /\ backlog' = [backlog EXCEPT ![m] = Append(@, c)]
        /\ UNCHANGED <<main, listener, accepted, current, stream, failures>>
    BY DEF IInv, Connect, CanConnect
  <1>2. m \in Node /\ n \in Passive(m) /\ c \in Connection /\ c # Unset /\ m # n /\ m \notin Passive(n)
    BY <1>1, Nodes DEF Connection, Active, Passive
  <1>3. failures \in Nat /\ backlog[m] \in Seq(Connection) /\ Len(backlog[m]) \in Nat /\ Backlog \in Nat
    BY <1>1, <1>2, Types, BacklogAssumption
  <1> HIDE DEF c
  <1>4. TypeOK'
    <2>1. Append(backlog[m], c) \in Seq(Connection) /\ Len(Append(backlog[m], c)) <= Backlog
      BY <1>1, <1>2, <1>3
    <2>2. backlog' \in [Node -> Seq(Connection)] /\ \A k \in Node : Len(backlog'[k]) <= Backlog
      BY <1>1, <1>2, <2>1 DEF TypeOK
    <2>3. fdSocket' \in [Node -> [Node -> Connection \union {Unset}]]
      BY <1>1, <1>2 DEF TypeOK
    <2> QED
      BY <1>1, <2>2, <2>3 DEF TypeOK
  <1>5. /\ fdSocket'[n][m] = c
        /\ \A k, l \in Node : <<k, l>> # <<n, m>> => fdSocket'[k][l] = fdSocket[k][l]
    BY <1>1, <1>2 DEF TypeOK
  <1>6. Fills
    BY <1>2, <1>5 DEF Fills
  <1>7. \A k, l \in Node : fdSocket'[k][l] = fdSocket[k][l] \/ l \notin Passive(k)
    BY <1>2, <1>5
  <1>8. ASSUME NEW k \in Node, k # m PROVE NodeOK(k)'
    <2>1. backlog'[k] = backlog[k]
      BY <1>1, <1>8 DEF TypeOK
    <2>2. Untouched(k)
      BY <1>1, <1>7, <2>1 DEF Untouched
    <2> QED
      BY <1>1, <1>3, <1>6, <2>2, UntouchedOK
  <1>9. NodeOK(m)'
    <2>1. NodeOK(m) /\ accepted[m] \in Nat
      BY <1>1, <1>2, Types
    <2>2. backlog'[m] = Append(backlog[m], c)
      BY <1>1, <1>2 DEF TypeOK
    <2>3. /\ \A i \in 1..Len(backlog[m]) : backlog'[m][i] = backlog[m][i]
          /\ backlog'[m][Len(backlog[m]) + 1] = c
          /\ Len(backlog'[m]) = Len(backlog[m]) + 1
          /\ \A i \in 1..(Len(backlog[m]) + 1) : i \in 1..Len(backlog[m]) \/ i = Len(backlog[m]) + 1
      BY <1>3, <2>2
    <2>4. \A d : Awaited(m, d) => d # c
      BY <1>1, <1>2 DEF Awaited, c
    <2>5. \A d : Awaited(m, d) => Awaited(m, d)'
      <3> SUFFICES ASSUME NEW d, Awaited(m, d) PROVE Awaited(m, d)'
        OBVIOUS
      <3>1. PICK l \in Passive(m) : d = <<l, m>> /\ fdSocket[m][l] = Unset /\ fdSocket[l][m] # Unset
        BY DEF Awaited
      <3>2. l \in Node
        BY <1>2, Nodes
      <3> QED
        BY <1>2, <1>6, <1>7, <3>1, <3>2 DEF Awaited, Fills
    <2>6. Awaited(m, c)'
      <3>1. fdSocket[m][n] = Unset
        BY <1>1, <1>2, <2>1 DEF NodeOK, ActiveFirst
      <3>2. fdSocket'[m][n] = Unset
        BY <1>2, <1>7, <3>1
      <3> QED
        BY <1>2, <1>5, <3>2 DEF Awaited, c
    <2>7. QueueOK(m)'
      <3>1. \A i \in 1..Len(backlog'[m]) : Awaited(m, backlog[m][i])'
        <4> SUFFICES ASSUME NEW i \in 1..Len(backlog'[m]), NEW d, d = backlog'[m][i]
                     PROVE  Awaited(m, backlog[m][i])'
          OBVIOUS
        <4>1. Awaited(m, d)'
          BY <2>1, <2>3, <2>5, <2>6 DEF NodeOK, QueueOK
        <4> QED
          BY <4>1 DEF Awaited
      <3>2. \A i, j \in 1..Len(backlog'[m]) : backlog'[m][i] = backlog'[m][j] => i = j
        <4>1. /\ \A i, j \in 1..Len(backlog[m]) : backlog[m][i] = backlog[m][j] => i = j
              /\ \A i \in 1..Len(backlog[m]) : backlog[m][i] # c
          BY <2>1, <2>4 DEF NodeOK, QueueOK
        <4> SUFFICES ASSUME NEW i \in 1..Len(backlog'[m]), NEW j \in 1..Len(backlog'[m]),
                            backlog'[m][i] = backlog'[m][j]
                     PROVE  i = j
          OBVIOUS
        <4> HIDE DEF c
        <4>2. /\ i \in 1..Len(backlog[m]) \/ i = Len(backlog[m]) + 1
              /\ j \in 1..Len(backlog[m]) \/ j = Len(backlog[m]) + 1
          BY <2>3
        <4>3. CASE i \in 1..Len(backlog[m]) /\ j \in 1..Len(backlog[m])
          BY <2>3, <4>1, <4>3
        <4>4. CASE i = Len(backlog[m]) + 1 \/ j = Len(backlog[m]) + 1
          BY <2>3, <4>1, <4>2, <4>4
        <4> QED
          BY <4>2, <4>3, <4>4
      <3>3. ASSUME listener'[m] = "reading"
            PROVE  Awaited(m, current[m])' /\ \A i \in 1..Len(backlog'[m]) : backlog'[m][i] # current'[m]
        <4>1. current'[m] = current[m] /\ Awaited(m, current[m])
          BY <1>1, <2>1, <3>3 DEF NodeOK, QueueOK
        <4>2. Awaited(m, current[m])'
          <5>1. PICK d : d = current[m]
            OBVIOUS
          <5>2. Awaited(m, d)'
            BY <2>5, <4>1, <5>1
          <5> QED
            BY <4>1, <5>1, <5>2 DEF Awaited
        <4> QED
          BY <1>1, <2>1, <2>3, <2>4, <3>3, <4>1, <4>2 DEF NodeOK, QueueOK
      <3> QED
        BY <3>1, <3>2, <3>3 DEF QueueOK
    <2>8. ActiveFirst(m)'
      BY <1>2, <1>6, <1>7, <2>1, ActiveFirstSame DEF NodeOK
    <2>9. MainOK(m)'
      BY <1>1, <1>2, <1>6, <2>1, MainSame DEF NodeOK
    <2>10. ListenerOK(m)'
      BY <1>1, <1>2, <1>7, <2>1, ListenerSame DEF NodeOK
    <2>11. CountOK(m)'
      BY <1>1, <1>2, <1>3, <1>6, <2>1, CountSame DEF NodeOK
    <2> QED
      BY <2>7, <2>8, <2>9, <2>10, <2>11 DEF NodeOK
  <1> QED
    BY <1>4, <1>8, <1>9 DEF IInv

(* The Hello on the connection just made keeps the invariant.                 *)
LEMMA SendHelloIInv ==
    ASSUME IInv, NEW n \in Node, SendHello(n)
    PROVE  IInv'
  <1> SUFFICES ASSUME NEW m, m = main[n] PROVE IInv'
    OBVIOUS
  <1>1. /\ TypeOK /\ \A k \in Node : NodeOK(k)
        /\ m \in Active(n) /\ fdSocket[n][m] # Unset
        /\ stream' = [stream EXCEPT ![<<n, m>>] = Append(@, "HELLO")]
        /\ main' = [main EXCEPT ![n] = m + 1]
        /\ UNCHANGED <<listener, accepted, current, backlog, fdSocket, failures>>
    BY DEF IInv, SendHello
  <1>2. m \in Node /\ m \in Nat /\ n \in Nat /\ m < n /\ m + 1 \in Node /\ failures \in Nat
    <2>1. m \in Node /\ m < n /\ NumNode \in Nat /\ failures \in Nat
      BY <1>1, Nodes, Types DEF Active
    <2> QED
      BY <2>1 DEF Node
  <1>3. TypeOK'
    <2>1. stream' \in [Connection -> Seq(Msg)]
      <3>1. stream \in [Connection -> Seq(Msg)] /\ "HELLO" \in Msg
        BY <1>1 DEF TypeOK, Msg
      <3>2. \A q \in Seq(Msg) : Append(q, "HELLO") \in Seq(Msg)
        BY <3>1
      <3> QED
        BY <1>1, <3>1, <3>2
    <2>2. main' \in [Node -> Node \union {-1}]
      BY <1>1, <1>2 DEF TypeOK
    <2> QED
      BY <1>1, <2>1, <2>2 DEF TypeOK
  <1>4. Fills
    BY <1>1 DEF Fills
  <1>5. ASSUME NEW k \in Node, k # n PROVE NodeOK(k)'
    <2>1. main'[k] = main[k]
      BY <1>1, <1>5 DEF TypeOK
    <2>2. Untouched(k)
      BY <1>1, <2>1 DEF Untouched
    <2> QED
      BY <1>1, <1>2, <1>4, <2>2, UntouchedOK
  <1>6. NodeOK(n)'
    <2>1. main'[n] = m + 1 /\ accepted[n] \in Nat
      BY <1>1, Types DEF TypeOK
    <2>2. MainOK(n)'
      <3>1. \A l \in Active(n) : l < m + 1 => l = m \/ l < m
        <4>1. \A l \in Active(n) : l \in Nat
          BY Nodes
        <4>2. \A l \in Nat : l < m + 1 => l = m \/ l < m
          BY <1>2
        <4> QED
          BY <4>1, <4>2
      <3>2. m + 1 <= n /\ m + 1 # -1 /\ m # -1
        BY <1>2
      <3> QED
        BY <1>1, <2>1, <3>1, <3>2 DEF NodeOK, MainOK
    <2>3. QueueOK(n)'
      BY <1>1, <1>4, QueueSame DEF NodeOK
    <2>4. ActiveFirst(n)'
      BY <1>1, <1>4, ActiveFirstSame DEF NodeOK
    <2>5. ListenerOK(n)'
      BY <1>1, ListenerSame DEF NodeOK
    <2>6. CountOK(n)'
      BY <1>1, <1>2, <1>4, <2>1, CountSame DEF NodeOK
    <2> QED
      BY <2>2, <2>3, <2>4, <2>5, <2>6 DEF NodeOK
  <1> QED
    BY <1>3, <1>5, <1>6 DEF IInv

(* The main thread's start of the polling, and what it sends, keep it.        *)
LEMMA StartIInv ==
    ASSUME IInv, NEW n \in Node, Start(n)
    PROVE  IInv'
  <1>1. /\ TypeOK /\ \A k \in Node : NodeOK(k)
        /\ main[n] = n /\ listener[n] \in {"closed", "failed"}
        /\ main' = [main EXCEPT ![n] = -1]
        /\ stream' = [c \in Connection |->
              IF c[1] = n /\ c[2] \in Active(n) THEN Append(stream[c], "OTHER") ELSE stream[c]]
        /\ UNCHANGED <<listener, accepted, current, backlog, fdSocket, failures>>
    BY DEF IInv, Start, MayStart
  <1>2. failures \in Nat /\ accepted[n] \in Nat
    BY <1>1, Types
  <1>3. TypeOK'
    <2>1. stream' \in [Connection -> Seq(Msg)]
      <3>1. stream \in [Connection -> Seq(Msg)] /\ "OTHER" \in Msg
        BY <1>1 DEF TypeOK, Msg
      <3>2. \A q \in Seq(Msg) : Append(q, "OTHER") \in Seq(Msg)
        BY <3>1
      <3> QED
        BY <1>1, <3>1, <3>2
    <2>2. main' \in [Node -> Node \union {-1}]
      BY <1>1 DEF TypeOK
    <2> QED
      BY <1>1, <2>1, <2>2 DEF TypeOK
  <1>4. Fills
    BY <1>1 DEF Fills
  <1>5. ASSUME NEW k \in Node, k # n PROVE NodeOK(k)'
    <2>1. main'[k] = main[k]
      BY <1>1, <1>5 DEF TypeOK
    <2>2. Untouched(k)
      BY <1>1, <2>1 DEF Untouched
    <2> QED
      BY <1>1, <1>2, <1>4, <2>2, UntouchedOK
  <1>6. NodeOK(n)'
    <2>1. main'[n] = -1
      BY <1>1 DEF TypeOK
    <2>2. MainOK(n)'
      <3>1. \A l \in Active(n) : l < n
        BY DEF Active
      <3>2. -1 <= n
        BY Nodes
      <3> QED
        BY <1>1, <2>1, <3>1, <3>2 DEF NodeOK, MainOK
    <2>3. QueueOK(n)'
      BY <1>1, <1>4, QueueSame DEF NodeOK
    <2>4. ActiveFirst(n)'
      BY <1>1, <1>4, ActiveFirstSame DEF NodeOK
    <2>5. ListenerOK(n)'
      BY <1>1, ListenerSame DEF NodeOK
    <2>6. CountOK(n)'
      BY <1>1, <1>2, <1>4, CountSame DEF NodeOK
    <2> QED
      BY <2>2, <2>3, <2>4, <2>5, <2>6 DEF NodeOK
  <1> QED
    BY <1>3, <1>5, <1>6 DEF IInv

-----------------------------------------------------------------------------
(* The accepting thread.                                                      *)
LEMMA ListenIInv ==
    ASSUME IInv, NEW n \in Node, Listen(n)
    PROVE  IInv'
  <1>1. /\ TypeOK /\ \A k \in Node : NodeOK(k)
        /\ listener[n] = "bound"
        /\ listener' = [listener EXCEPT ![n] = IF Passive(n) = {} THEN "closed" ELSE "accepting"]
        /\ UNCHANGED <<main, accepted, current, backlog, fdSocket, stream, failures>>
    BY DEF IInv, Listen
  <1>2. failures \in Nat /\ accepted[n] \in Nat
    BY <1>1, Types
  <1>3. TypeOK'
    BY <1>1 DEF TypeOK
  <1>4. Fills
    BY <1>1 DEF Fills
  <1>5. ASSUME NEW k \in Node, k # n PROVE NodeOK(k)'
    <2>1. listener'[k] = listener[k]
      BY <1>1, <1>5 DEF TypeOK
    <2>2. Untouched(k)
      BY <1>1, <2>1 DEF Untouched
    <2> QED
      BY <1>1, <1>2, <1>4, <2>2, UntouchedOK
  <1>6. NodeOK(n)'
    <2>1. listener'[n] = IF Passive(n) = {} THEN "closed" ELSE "accepting"
      BY <1>1 DEF TypeOK
    <2>2. MainOK(n)'
      BY <1>1, <1>4, MainSame DEF NodeOK
    <2>3. QueueOK(n)'
      BY <1>1, <1>4, <2>1, QueueSame DEF NodeOK
    <2>4. ActiveFirst(n)'
      BY <1>1, <1>4, ActiveFirstSame DEF NodeOK
    <2>5. ListenerOK(n)'
      <3>1. IsFiniteSet(Passive(n)) /\ Cardinality(Passive(n)) \in Nat
        BY Nodes
      <3>2. Cardinality(Passive(n)) = 0 <=> Passive(n) = {}
        BY <3>1, FS_EmptySet
      <3>3. accepted'[n] = 0
        BY <1>1 DEF NodeOK, ListenerOK
      <3> QED
        BY <2>1, <3>1, <3>2, <3>3 DEF ListenerOK, Listens
    <2>6. CountOK(n)'
      BY <1>1, <1>2, <1>4, CountSame DEF NodeOK
    <2> QED
      BY <2>2, <2>3, <2>4, <2>5, <2>6 DEF NodeOK
  <1> QED
    BY <1>3, <1>5, <1>6 DEF IInv

(* So does the failure to listen: nobody has connected, and nobody will.      *)
LEMMA ListenFailsIInv ==
    ASSUME IInv, NEW n \in Node, ListenFails(n)
    PROVE  IInv'
  <1>1. /\ TypeOK /\ \A k \in Node : NodeOK(k)
        /\ listener[n] = "bound"
        /\ listener' = [listener EXCEPT ![n] = "failed"]
        /\ UNCHANGED <<main, accepted, current, backlog, fdSocket, stream, failures>>
    BY DEF IInv, ListenFails
  <1>2. failures \in Nat /\ accepted[n] \in Nat
    BY <1>1, Types
  <1>3. TypeOK'
    BY <1>1 DEF TypeOK
  <1>4. Fills
    BY <1>1 DEF Fills
  <1>5. ASSUME NEW k \in Node, k # n PROVE NodeOK(k)'
    <2>1. listener'[k] = listener[k]
      BY <1>1, <1>5 DEF TypeOK
    <2>2. Untouched(k)
      BY <1>1, <2>1 DEF Untouched
    <2> QED
      BY <1>1, <1>2, <1>4, <2>2, UntouchedOK
  <1>6. NodeOK(n)'
    <2>1. listener'[n] = "failed"
      BY <1>1 DEF TypeOK
    <2>2. MainOK(n)'
      BY <1>1, <1>4, MainSame DEF NodeOK
    <2>3. QueueOK(n)'
      BY <1>1, <1>4, <2>1, QueueSame DEF NodeOK
    <2>4. ActiveFirst(n)'
      BY <1>1, <1>4, ActiveFirstSame DEF NodeOK
    <2>5. ListenerOK(n)'
      <3>1. Got(n)' = Got(n)
        BY <1>1, GotSame
      <3> QED
        BY <1>1, <2>1, <3>1 DEF NodeOK, ListenerOK, Listens
    <2>6. CountOK(n)'
      BY <1>1, <1>2, <1>4, CountSame DEF NodeOK
    <2> QED
      BY <2>2, <2>3, <2>4, <2>5, <2>6 DEF NodeOK
  <1> QED
    BY <1>3, <1>5, <1>6 DEF IInv

(* Taking a connection from the queue keeps it: it is still awaited, once.    *)
LEMMA AcceptIInv ==
    ASSUME IInv, NEW n \in Node, Accept(n)
    PROVE  IInv'
  <1>1. /\ TypeOK /\ \A k \in Node : NodeOK(k)
        /\ listener[n] = "accepting" /\ backlog[n] # <<>>
        /\ current' = [current EXCEPT ![n] = Head(backlog[n])]
        /\ backlog' = [backlog EXCEPT ![n] = Tail(@)]
        /\ listener' = [listener EXCEPT ![n] = "reading"]
        /\ UNCHANGED <<main, accepted, fdSocket, stream, failures>>
    BY DEF IInv, Accept
  <1>2. /\ failures \in Nat /\ accepted[n] \in Nat /\ backlog[n] \in Seq(Connection)
        /\ Len(backlog[n]) \in Nat /\ Backlog \in Nat
    BY <1>1, Types, BacklogAssumption
  <1>3. /\ Len(backlog[n]) >= 1 /\ Head(backlog[n]) = backlog[n][1] /\ backlog[n][1] \in Connection
        /\ Tail(backlog[n]) \in Seq(Connection) /\ Len(Tail(backlog[n])) = Len(backlog[n]) - 1
        /\ \A i \in 1..(Len(backlog[n]) - 1) : Tail(backlog[n])[i] = backlog[n][i + 1]
    BY <1>1, <1>2
  <1>4. TypeOK'
    <2>1. backlog' \in [Node -> Seq(Connection)] /\ \A k \in Node : Len(backlog'[k]) <= Backlog
      BY <1>1, <1>2, <1>3 DEF TypeOK
    <2>2. current' \in [Node -> Connection \union {Unset}]
      BY <1>1, <1>3 DEF TypeOK
    <2> QED
      BY <1>1, <2>1, <2>2 DEF TypeOK
  <1>5. Fills
    BY <1>1 DEF Fills
  <1>6. ASSUME NEW k \in Node, k # n PROVE NodeOK(k)'
    <2>1. listener'[k] = listener[k] /\ current'[k] = current[k] /\ backlog'[k] = backlog[k]
      BY <1>1, <1>6 DEF TypeOK
    <2>2. Untouched(k)
      BY <1>1, <2>1 DEF Untouched
    <2> QED
      BY <1>1, <1>2, <1>5, <2>2, UntouchedOK
  <1>7. NodeOK(n)'
    <2>1. /\ listener'[n] = "reading" /\ current'[n] = backlog[n][1] /\ backlog'[n] = Tail(backlog[n])
          /\ QueueOK(n)
      BY <1>1, <1>3 DEF TypeOK, NodeOK
    <2>2. MainOK(n)'
      BY <1>1, <1>5, MainSame DEF NodeOK
    <2>3. QueueOK(n)'
      <3>1. \A c : Awaited(n, c) => Awaited(n, c)'
        BY <1>1 DEF Awaited
      <3>2. \A i \in 1..Len(backlog'[n]) :
               /\ i \in 1..(Len(backlog[n]) - 1) /\ i + 1 \in 1..Len(backlog[n])
               /\ backlog'[n][i] = backlog[n][i + 1] /\ i + 1 # 1
        BY <1>2, <1>3, <2>1
      <3>3. 1 \in 1..Len(backlog[n])
        BY <1>2, <1>3
      <3>4. \A i \in 1..Len(backlog'[n]) : Awaited(n, backlog[n][i])'
        <4> SUFFICES ASSUME NEW i \in 1..Len(backlog'[n]), NEW c, c = backlog'[n][i]
                     PROVE  Awaited(n, backlog[n][i])'
          OBVIOUS
        <4>1. Awaited(n, c)'
          BY <2>1, <3>1, <3>2 DEF QueueOK
        <4> QED
          BY <4>1 DEF Awaited
      <3>5. Awaited(n, current[n])'
        <4> SUFFICES ASSUME NEW c, c = current'[n] PROVE Awaited(n, current[n])'
          OBVIOUS
        <4>1. Awaited(n, c)'
          BY <2>1, <3>1, <3>3 DEF QueueOK
        <4> QED
          BY <4>1 DEF Awaited
      <3>6. \A i, j \in 1..Len(backlog'[n]) : backlog'[n][i] = backlog'[n][j] => i = j
        <4> SUFFICES ASSUME NEW i \in 1..Len(backlog'[n]), NEW j \in 1..Len(backlog'[n]),
                            backlog'[n][i] = backlog'[n][j]
                     PROVE  i = j
          OBVIOUS
        <4>1. /\ i + 1 \in 1..Len(backlog[n]) /\ backlog'[n][i] = backlog[n][i + 1]
              /\ j + 1 \in 1..Len(backlog[n]) /\ backlog'[n][j] = backlog[n][j + 1]
          BY <3>2
        <4>2. \A k, l \in 1..Len(backlog[n]) : backlog[n][k] = backlog[n][l] => k = l
          BY <2>1 DEF QueueOK
        <4>3. i + 1 = j + 1
          BY <4>1, <4>2
        <4>4. i \in Int /\ j \in Int
          OBVIOUS
        <4> QED
          BY <4>3, <4>4
      <3>7. \A i \in 1..Len(backlog'[n]) : backlog'[n][i] # current'[n]
        BY <2>1, <3>2, <3>3 DEF QueueOK
      <3> QED
        BY <3>4, <3>5, <3>6, <3>7 DEF QueueOK
    <2>4. ActiveFirst(n)'
      BY <1>1, <1>5, ActiveFirstSame DEF NodeOK
    <2>5. ListenerOK(n)'
      BY <1>1, <2>1 DEF NodeOK, ListenerOK, Listens
    <2>6. CountOK(n)'
      BY <1>1, <1>2, <1>5, CountSame DEF NodeOK
    <2> QED
      BY <2>2, <2>3, <2>4, <2>5, <2>6 DEF NodeOK
  <1> QED
    BY <1>4, <1>6, <1>7 DEF IInv

(* A turn of the loop is over.                                                *)
LEMMA TurnEnds ==
    ASSUME TypeOK, NEW n \in Node, ListenerOK(n), MainOK(n), Listens(n), EndOfTurn(n), Fills,
           main'[n] = main[n]
    PROVE  /\ accepted'[n] = accepted[n] + 1 /\ accepted' \in [Node -> Node]
           /\ listener' \in [Node -> {"bound", "accepting", "reading", "closed", "failed"}]
           /\ listener'[n] # "reading"
           /\ \A k \in Node : k # n => accepted'[k] = accepted[k] /\ listener'[k] = listener[k]
           /\ ListenerOK(n)' /\ MainOK(n)'
  <1>1. /\ accepted \in [Node -> Node] /\ listener \in [Node -> {"bound", "accepting", "reading", "closed", "failed"}]
        /\ accepted' = [accepted EXCEPT ![n] = @ + 1]
        /\ listener' = [listener EXCEPT ![n] =
              IF accepted[n] + 1 >= Cardinality(Passive(n)) THEN "closed" ELSE "accepting"]
    BY DEF TypeOK, EndOfTurn
  <1>2. accepted[n] \in Nat /\ Cardinality(Passive(n)) \in Node /\ accepted[n] < Cardinality(Passive(n))
    BY Types, Nodes DEF ListenerOK
  <1>3. accepted[n] + 1 \in Node /\ Cardinality(Passive(n)) \in Nat
    BY <1>2, Nodes DEF Node
  <1>4. /\ accepted'[n] = accepted[n] + 1 /\ accepted' \in [Node -> Node]
        /\ listener' \in [Node -> {"bound", "accepting", "reading", "closed", "failed"}]
        /\ listener'[n] = (IF accepted[n] + 1 >= Cardinality(Passive(n)) THEN "closed" ELSE "accepting")
        /\ \A k \in Node : k # n => accepted'[k] = accepted[k] /\ listener'[k] = listener[k]
    BY <1>1, <1>3
  <1>5. ListenerOK(n)'
    <2>1. CASE accepted[n] + 1 >= Cardinality(Passive(n))
      <3>1. accepted[n] + 1 = Cardinality(Passive(n))
        BY <1>2, <1>3, <2>1
      <3> QED
        BY <1>4, <2>1, <3>1 DEF ListenerOK, Listens
    <2>2. CASE ~(accepted[n] + 1 >= Cardinality(Passive(n)))
      BY <1>2, <1>3, <1>4, <2>2 DEF ListenerOK, Listens
    <2> QED
      BY <2>1, <2>2
  <1>6. MainOK(n)'
    BY MainSame DEF Listens
  <1> QED
    BY <1>4, <1>5, <1>6

(* A failed accept keeps it: the turn counts, and so does the failure.        *)
LEMMA AcceptFailsIInv ==
    ASSUME IInv, NEW n \in Node, AcceptFails(n)
    PROVE  IInv'
  <1>1. /\ TypeOK /\ \A k \in Node : NodeOK(k)
        /\ Listens(n) /\ failures < MaxFailures /\ failures' = failures + 1 /\ EndOfTurn(n)
        /\ UNCHANGED <<main, current, backlog, fdSocket, stream>>
    BY DEF IInv, AcceptFails, Listens
  <1>2. failures \in Nat /\ accepted[n] \in Nat /\ MaxFailures \in Nat /\ failures' \in Nat /\ failures <= failures'
    BY <1>1, Types, FailuresAssumption
  <1>3. Fills
    BY <1>1 DEF Fills
  <1>4. /\ accepted'[n] = accepted[n] + 1 /\ accepted' \in [Node -> Node]
        /\ listener' \in [Node -> {"bound", "accepting", "reading", "closed", "failed"}]
        /\ listener'[n] # "reading"
        /\ \A k \in Node : k # n => accepted'[k] = accepted[k] /\ listener'[k] = listener[k]
        /\ ListenerOK(n)' /\ MainOK(n)'
    BY <1>1, <1>3, TurnEnds DEF NodeOK
  <1>5. TypeOK'
    BY <1>1, <1>2, <1>4 DEF TypeOK
  <1>6. ASSUME NEW k \in Node, k # n PROVE NodeOK(k)'
    <2>1. Untouched(k)
      BY <1>1, <1>4, <1>6 DEF Untouched
    <2> QED
      BY <1>1, <1>2, <1>3, <2>1, UntouchedOK
  <1>7. NodeOK(n)'
    <2>1. QueueOK(n)'
      BY <1>1, <1>3, <1>4, QueueSame DEF NodeOK
    <2>2. ActiveFirst(n)'
      BY <1>1, <1>3, ActiveFirstSame DEF NodeOK
    <2>3. CountOK(n)'
      <3>1. Got(n)' = Got(n) /\ Cardinality(Got(n)) \in Nat
        BY <1>1, GotType DEF Got
      <3> QED
        BY <1>1, <1>2, <1>4, <3>1 DEF NodeOK, CountOK
    <2> QED
      BY <1>4, <2>1, <2>2, <2>3 DEF NodeOK
  <1> QED
    BY <1>5, <1>6, <1>7 DEF IInv

(* A Hello fills the socket of an SL that had none; anything else is thrown   *)
(* away.                                                                      *)
LEMMA ReadHelloIInv ==
    ASSUME IInv, NEW n \in Node, ReadHello(n)
    PROVE  IInv'
  <1> SUFFICES ASSUME NEW c, c = current[n] PROVE IInv'
    OBVIOUS
  <1>1. /\ TypeOK /\ \A k \in Node : NodeOK(k)
        /\ listener[n] = "reading" /\ Listens(n) /\ stream[c] # <<>>
        /\ stream' = [stream EXCEPT ![c] = Tail(@)]
        /\ UNCHANGED <<main, current, backlog, failures>>
    BY DEF IInv, ReadHello, Listens
  <1>2. failures \in Nat /\ accepted[n] \in Nat
    BY <1>1, Types
  <1>3. PICK m \in Passive(n) : c = <<m, n>> /\ fdSocket[n][m] = Unset /\ fdSocket[m][n] # Unset
    BY <1>1 DEF NodeOK, QueueOK, Awaited
  <1>4. m \in Node /\ c \in Connection /\ c # Unset /\ c[1] = m /\ m # n /\ n \notin Passive(m)
    <2>1. m \in Node /\ m > n /\ m \in Nat /\ n \in Nat
      BY <1>3, Nodes DEF Passive
    <2>2. c \in Connection /\ c # Unset
      BY <1>3, <2>1, Nodes DEF Connection
    <2> QED
      BY <1>3, <2>1, <2>2 DEF Passive
  <1>5. stream' \in [Connection -> Seq(Msg)]
    <2>1. stream \in [Connection -> Seq(Msg)] /\ stream[c] \in Seq(Msg)
      BY <1>1, <1>4 DEF TypeOK
    <2>2. Tail(stream[c]) \in Seq(Msg)
      BY <1>1, <2>1
    <2> QED
      BY <1>1, <2>1, <2>2
  <1>6. CASE Head(stream[c]) # "HELLO"
    <2>1. UNCHANGED <<fdSocket, accepted, listener>>
      BY <1>6 DEF ReadHello
    <2>2. Fills
      BY <2>1 DEF Fills
    <2>3. ASSUME NEW k \in Node PROVE NodeOK(k)'
      <3>1. Untouched(k)
        BY <1>1, <2>1 DEF Untouched
      <3> QED
        BY <1>1, <1>2, <2>2, <3>1, UntouchedOK
    <2> QED
      BY <1>1, <1>5, <2>1, <2>3 DEF IInv, TypeOK
  <1>7. CASE Head(stream[c]) = "HELLO"
    <2>1. fdSocket' = [fdSocket EXCEPT ![n][m] = c] /\ EndOfTurn(n)
      BY <1>4, <1>7 DEF ReadHello
    <2>2. /\ fdSocket'[n][m] = c
          /\ \A k, l \in Node : <<k, l>> # <<n, m>> => fdSocket'[k][l] = fdSocket[k][l]
          /\ fdSocket' \in [Node -> [Node -> Connection \union {Unset}]]
      BY <1>1, <1>4, <2>1 DEF TypeOK
    <2>3. Fills
      BY <1>4, <2>2 DEF Fills
    <2>4. /\ accepted'[n] = accepted[n] + 1 /\ accepted' \in [Node -> Node]
          /\ listener' \in [Node -> {"bound", "accepting", "reading", "closed", "failed"}]
          /\ listener'[n] # "reading"
          /\ \A k \in Node : k # n => accepted'[k] = accepted[k] /\ listener'[k] = listener[k]
          /\ ListenerOK(n)' /\ MainOK(n)'
      BY <1>1, <2>1, <2>3, TurnEnds DEF NodeOK
    <2>5. TypeOK'
      BY <1>1, <1>5, <2>2, <2>4 DEF TypeOK
    <2>6. ASSUME NEW k \in Node, k # n PROVE NodeOK(k)'
      <3>1. Untouched(k)
        BY <1>1, <1>4, <2>2, <2>4, <2>6 DEF Untouched
      <3> QED
        BY <1>1, <1>2, <2>3, <3>1, UntouchedOK
    <2>7. NodeOK(n)'
      <3>1. QueueOK(n)'
        <4>1. \A i \in 1..Len(backlog[n]) : Awaited(n, backlog[n][i]) /\ backlog[n][i] # c
          BY <1>1 DEF NodeOK, QueueOK
        <4>2. ASSUME NEW d, Awaited(n, d), d # c PROVE Awaited(n, d)'
          <5>1. PICK l \in Passive(n) : d = <<l, n>> /\ fdSocket[n][l] = Unset /\ fdSocket[l][n] # Unset
            BY <4>2 DEF Awaited
          <5>2. l \in Node /\ l # m
            BY <1>3, <4>2, <5>1, Nodes
          <5>3. fdSocket'[n][l] = Unset /\ fdSocket'[l][n] # Unset
            BY <2>2, <2>3, <5>1, <5>2 DEF Fills
          <5> QED
            BY <5>1, <5>3 DEF Awaited
        <4>3. \A i \in 1..Len(backlog'[n]) : Awaited(n, backlog[n][i])'
          <5> SUFFICES ASSUME NEW i \in 1..Len(backlog'[n]), NEW d, d = backlog'[n][i]
                       PROVE  Awaited(n, backlog[n][i])'
            OBVIOUS
          <5>1. Awaited(n, d)'
            BY <1>1, <4>1, <4>2
          <5> QED
            BY <5>1 DEF Awaited
        <4> QED
          BY <1>1, <2>4, <4>3 DEF NodeOK, QueueOK
      <3>2. ActiveFirst(n)'
        <4>1. \A l \in Passive(n) : l \in Node /\ l # n
          BY Nodes
        <4>2. \A l \in Passive(n) : fdSocket'[n][l] # Unset => fdSocket[l][n] # Unset
          BY <1>1, <1>3, <2>2, <4>1 DEF NodeOK, ActiveFirst
        <4> QED
          BY <2>3, <4>1, <4>2 DEF ActiveFirst, Fills
      <3>3. CountOK(n)'
        <4>1. Got(n)' = Got(n) \union {m} /\ m \notin Got(n)
          <5>1. \A l \in Passive(n) : l \in Node
            BY Nodes
          <5>2. \A l \in Passive(n) : l # m => fdSocket'[n][l] = fdSocket[n][l]
            BY <2>2, <5>1
          <5> QED
            BY <1>3, <1>4, <2>2, <5>2 DEF Got
        <4>2. Cardinality(Got(n)') = Cardinality(Got(n)) + 1
          <5>1. IsFiniteSet(Got(n))
            BY GotType
          <5> QED
            BY <4>1, <5>1, FS_AddElement
        <4>3. Cardinality(Got(n)) \in Nat
          BY GotType
        <4> QED
          BY <1>1, <1>2, <2>4, <4>2, <4>3 DEF NodeOK, CountOK
      <3> QED
        BY <2>4, <3>1, <3>2, <3>3 DEF NodeOK
    <2> QED
      BY <2>5, <2>6, <2>7 DEF IInv
  <1> QED
    BY <1>6, <1>7

-----------------------------------------------------------------------------
(* Every step keeps the invariant.                                            *)
LEMMA NextIInv == IInv /\ [Next]_vars => IInv'
  <1> SUFFICES ASSUME IInv, [Next]_vars PROVE IInv'
    OBVIOUS
  <1>1. ASSUME NEW n \in Node, Main(n) PROVE IInv'
    BY <1>1, ConnectIInv, SendHelloIInv, StartIInv DEF Main
  <1>2. ASSUME NEW n \in Node, Accepting(n) PROVE IInv'
    BY <1>2, ListenIInv, AcceptIInv, ReadHelloIInv DEF Accepting
  <1>3. ASSUME NEW n \in Node, ListenFails(n) \/ AcceptFails(n) PROVE IInv'
    BY <1>3, ListenFailsIInv, AcceptFailsIInv
  <1>4. CASE UNCHANGED vars
    <2>1. UNCHANGED <<main, listener, accepted, current, backlog, fdSocket, stream, failures>>
      BY <1>4 DEF vars
    <2>2. TypeOK'
      BY <2>1 DEF IInv, TypeOK
    <2>3. Fills
      BY <2>1 DEF Fills
    <2>4. ASSUME NEW k \in Node PROVE NodeOK(k)'
      <3>1. Untouched(k)
        BY <2>1 DEF Untouched
      <3>2. failures \in Nat
        BY Types DEF IInv
      <3> QED
        BY <2>1, <2>3, <3>1, <3>2, UntouchedOK DEF IInv
    <2> QED
      BY <2>2, <2>4 DEF IInv
  <1> QED
    BY <1>1, <1>2, <1>3, <1>4 DEF Next

(* The invariant holds of every behaviour of the constructors.                *)
THEOREM SpecIInv == Spec => []IInv
  BY InitIInv, NextIInv, PTL DEF Spec

(* The invariant means that sockets are lost to failed calls only.            *)
LEMMA OneSocketPerFailureHolds == IInv => OneSocketPerFailure
  <1> SUFFICES ASSUME IInv, NEW n \in Node, main[n] = -1
               PROVE  LET missing == {m \in Node \ {n} : fdSocket[n][m] = Unset}
                      IN  IF listener[n] = "failed" THEN missing = Passive(n)
                          ELSE Cardinality(missing) <= failures
    BY DEF OneSocketPerFailure
  <1> DEFINE missing == {m \in Node \ {n} : fdSocket[n][m] = Unset}
  <1>1. NodeOK(n) /\ accepted[n] \in Nat /\ failures \in Nat
    BY Types DEF IInv
  <1>2. missing = Passive(n) \ Got(n)
    <2>1. \A m \in Active(n) : fdSocket[n][m] # Unset
      BY <1>1 DEF NodeOK, MainOK
    <2> QED
      BY <2>1, Nodes DEF Got
  <1>3. IsFiniteSet(Passive(n)) /\ Got(n) \subseteq Passive(n) /\ Cardinality(Got(n)) \in Nat
    BY Nodes, GotType
  <1> HIDE DEF missing
  <1>4. CASE listener[n] = "failed"
    <2>1. Got(n) = {}
      BY <1>1, <1>4 DEF NodeOK, ListenerOK
    <2>2. missing = Passive(n)
      BY <1>2, <2>1
    <2> QED
      BY <1>4, <2>2 DEF missing
  <1>5. CASE listener[n] # "failed"
    <2>1. listener[n] = "closed"
      BY <1>1, <1>5 DEF NodeOK, MainOK
    <2>2. accepted[n] = Cardinality(Passive(n)) /\ accepted[n] <= Cardinality(Got(n)) + failures
      BY <1>1, <2>1 DEF NodeOK, ListenerOK, CountOK
    <2>3. Cardinality(missing) = Cardinality(Passive(n)) - Cardinality(Got(n))
      <3>1. Passive(n) \intersect Got(n) = Got(n)
        BY <1>3
      <3>2. Cardinality(Passive(n) \ Got(n)) = Cardinality(Passive(n)) - Cardinality(Passive(n) \intersect Got(n))
        BY <1>3, FS_Difference
      <3> QED
        BY <1>2, <3>1, <3>2
    <2>4. \A a, g, f \in Nat : a <= g + f => a - g <= f
      OBVIOUS
    <2>5. Cardinality(missing) <= failures
      BY <1>1, <1>3, <2>2, <2>3, <2>4
    <2> QED
      BY <1>5, <2>5 DEF missing
  <1> QED
    BY <1>4, <1>5

(* The types of Mesh: the turns of the accepting loop stay below the number   *)
(* of SLs, and the backlog within what the socket keeps.                      *)
THEOREM TypeCorrect == Spec => []TypeOK
  <1>1. IInv => TypeOK
    BY DEF IInv
  <1> QED
    BY <1>1, SpecIInv, PTL

(* An SL whose constructor has returned after it has listened lacks at most   *)
(* one socket for every accept that has failed: the accepting loop of         *)
(* listenForIncomingConnections takes a turn for every connection, and no SL  *)
(* takes two turns.  An SL that failed to listen has those it connected, all  *)
(* of them, and no other.                                                     *)
THEOREM SocketsComplete == Spec => []OneSocketPerFailure
  BY OneSocketPerFailureHolds, SpecIInv, PTL

-----------------------------------------------------------------------------
(* Byte orders.                                                                 *)
Orders == {"little", "big"}

(* A message of type t with the numbers a in its fields and w behind them: the *)
(* fields and participants as a machine of order h stores them, the rest as    *)
(* one of order g does.  In network byte order is what a "big" one stores.     *)
Counted(t, a) == IF t = "Preprepare" THEN a["numOfRound3Participants"] ELSE 0
Stored(h, g, t, a, w) ==
    [type |-> t,
     field |-> [f \in Fields(t) |-> Bytes(h, a[f])],
     words |-> [i \in 1..Len(w) |-> Bytes(IF i <= Counted(t, a) THEN h ELSE g, w[i])]]

(* What a machine of order h makes of one of order c is one of order d.        *)
Turns(h, c, d) == \A n \in Nat : Convert(h, Bytes(c, n)) = Bytes(d, n)

(* A field is the same number before and after its conversion.                 *)
LEMMA Conversions ==
    ASSUME NEW h \in Orders
    PROVE  Turns(h, h, "big") /\ Turns(h, "big", h) /\ \A n \in Nat : Value(h, Bytes(h, n)) = n
  <1>1. ASSUME NEW n \in Nat PROVE n % 256 = n - 256 * (n \div 256) /\ n \div 256 \in Nat
    OBVIOUS
  <1>2. h = "big" \/ h = "little"
    BY DEF Orders
  <1>3. ASSUME NEW n \in Nat
        PROVE  /\ Convert(h, Bytes(h, n)) = Bytes("big", n)
               /\ Convert(h, Bytes("big", n)) = Bytes(h, n)
    BY <1>2 DEF Convert, Bytes, Swapped
  <1>4. ASSUME NEW n \in Nat PROVE Value(h, Bytes(h, n)) = n
    <2> DEFINE x == n \div 256
               y == n % 256
    <2>1. Convert(h, Bytes(h, n)) = <<x, y>>
      BY <1>3 DEF Convert, Bytes
    <2>2. y = n - 256 * x /\ x \in Nat
      BY <1>1
    <2> HIDE DEF x, y
    <2>3. Value(h, Bytes(h, n)) = 256 * x + y
      BY <2>1 DEF Value
    <2> QED
      BY <2>2, <2>3
  <1> QED
    BY <1>3, <1>4 DEF Turns

(* Which fields there are, and that serialize converts each once.              *)
LEMMA FieldFacts ==
    ASSUME NEW t \in DOMAIN Serialized
    PROVE  /\ Fields(t) = Header \union Serialized[t]
           /\ Deserialized[t] = Serialized[t]
           /\ Header \intersect Serialized[t] = {}
           /\ "payloadLen" \in Fields(t)
           /\ t = "Preprepare" <=> "numOfRound3Participants" \in Serialized[t]
  <1>1. Deserialized = Serialized
    BY DEF Deserialized, Serialized
  <1>2. t \in {"Hello", "Request", "Preprepare", "PartialCommit", "FullCommit", "FetchRequest",
               "FetchResponse", "GeneralFetch", "FullMembership", "PreprepareBaseline",
               "PartialCommitBaseline", "FullCommitBaseline"}
    BY DEF Serialized
  <1>3. Header \intersect Serialized[t] = {}
    BY <1>2 DEF Serialized, Header
  <1>4. t = "Preprepare" <=> "numOfRound3Participants" \in Serialized[t]
    BY <1>2 DEF Serialized
  <1> QED
    BY <1>1, <1>3, <1>4 DEF Fields, Header

(* A conversion leaves the rest of the message alone.                          *)
LEMMA FieldsConverted ==
    ASSUME NEW h, NEW names, NEW t, NEW fs, NEW ws
    PROVE  ConvertFields(h, [type |-> t, field |-> fs, words |-> ws], names) =
               [type |-> t,
                field |-> [f \in DOMAIN fs |-> IF f \in names THEN Convert(h, fs[f]) ELSE fs[f]],
                words |-> ws]
  BY DEF ConvertFields

(* Nor does the conversion of the participants do anything else.                *)
LEMMA ParticipantsConverted ==
    ASSUME NEW h, NEW k, NEW t, NEW fs, NEW ws,
           Participants(h, [type |-> t, field |-> fs, words |-> ws]) = k
    PROVE  ConvertParticipants(h, [type |-> t, field |-> fs, words |-> ws]) =
               [type |-> t,
                field |-> fs,
                words |-> [i \in DOMAIN ws |-> IF i <= k THEN Convert(h, ws[i]) ELSE ws[i]]]
  BY DEF ConvertParticipants

(* There are as many participants as a machine of order h reads in the count.   *)
LEMMA CountIsRead ==
    ASSUME NEW h \in Orders, NEW t \in DOMAIN Serialized, NEW a \in [Fields(t) -> Nat],
           NEW m, m.type = t,
           t = "Preprepare" => m.field["numOfRound3Participants"] = Bytes(h, a["numOfRound3Participants"])
    PROVE  Participants(h, m) = Counted(t, a)
  <1>1. CASE t = "Preprepare"
    <2>1. a["numOfRound3Participants"] \in Nat
      BY <1>1, FieldFacts
    <2> QED
      BY <1>1, <2>1, Conversions DEF Participants, Counted
  <1>2. CASE t # "Preprepare"
    BY <1>2 DEF Participants, Counted
  <1> QED
    BY <1>1, <1>2

(* The sender's conversion: everything up to the participants in network order. *)
LEMMA SerializeStored ==
    ASSUME NEW g \in Orders, NEW t \in DOMAIN Serialized,
           NEW a \in [Fields(t) -> Nat], NEW w \in Seq(Nat)
    PROVE  serialize(g, Stored(g, g, t, a, w)) = Stored("big", g, t, a, w)
  <1> DEFINE k == Counted(t, a)
             first == Header \union (Serialized[t] \ Count)
             last == Serialized[t] \intersect Count
             f0 == [f \in Fields(t) |-> Bytes(g, a[f])]
             f1 == [f \in Fields(t) |-> Bytes(IF f \in first THEN "big" ELSE g, a[f])]
             f2 == [f \in Fields(t) |-> Bytes("big", a[f])]
             w0 == [i \in 1..Len(w) |-> Bytes(g, w[i])]
             w1 == [i \in 1..Len(w) |-> Bytes(IF i <= k THEN "big" ELSE g, w[i])]
  <1>1. \A n \in Nat : Convert(g, Bytes(g, n)) = Bytes("big", n)
    BY Conversions DEF Turns
  <1>2. (\A f \in Fields(t) : a[f] \in Nat) /\ (\A i \in 1..Len(w) : w[i] \in Nat)
    OBVIOUS
  <1>3. [f \in DOMAIN f0 |-> IF f \in first THEN Convert(g, f0[f]) ELSE f0[f]] = f1
    <2> HIDE DEF first
    <2> QED
      BY <1>1, <1>2
  <1>4. [i \in DOMAIN w0 |-> IF i <= k THEN Convert(g, w0[i]) ELSE w0[i]] = w1
    <2> HIDE DEF k
    <2> QED
      BY <1>1, <1>2
  <1>5. [f \in DOMAIN f1 |-> IF f \in last THEN Convert(g, f1[f]) ELSE f1[f]] = f2
    <2>1. \A f \in Fields(t) : f \in last <=> f \notin first
      BY FieldFacts DEF Header, Count
    <2> HIDE DEF first, last
    <2> QED
      BY <1>1, <1>2, <2>1
  <1>6. Participants(g, [type |-> t, field |-> f1, words |-> w0]) = k
    <2>1. t = "Preprepare" => f1["numOfRound3Participants"] = Bytes(g, a["numOfRound3Participants"])
      BY FieldFacts DEF Count, Header
    <2> HIDE DEF f1, w0
    <2> QED
      BY <2>1, CountIsRead
  <1>7. Stored(g, g, t, a, w) = [type |-> t, field |-> f0, words |-> w0]
    BY DEF Stored
  <1>8. Stored("big", g, t, a, w) = [type |-> t, field |-> f2, words |-> w1]
    BY DEF Stored
  <1> HIDE DEF first, last, f0, f1, f2, w0, w1, k
  <1>9. ConvertFields(g, [type |-> t, field |-> f0, words |-> w0], first) =
            [type |-> t, field |-> f1, words |-> w0]
    BY <1>3, FieldsConverted
  <1>10. ConvertParticipants(g, [type |-> t, field |-> f1, words |-> w0]) =
             [type |-> t, field |-> f1, words |-> w1]
    BY <1>4, <1>6, ParticipantsConverted
  <1>11. ConvertFields(g, [type |-> t, field |-> f1, words |-> w1], last) =
             [type |-> t, field |-> f2, words |-> w1]
    BY <1>5, FieldsConverted
  <1>12. serialize(g, [type |-> t, field |-> f0, words |-> w0]) =
             ConvertFields(g, ConvertParticipants(g,
                 ConvertFields(g, [type |-> t, field |-> f0, words |-> w0], first)), last)
    BY DEF serialize, first, last
  <1> QED
    BY <1>7, <1>8, <1>9, <1>10, <1>11, <1>12

(* What recvMessage makes of what it reads.                                     *)
HeaderRead(h, s) == ConvertFields(h, s, Header)
Arrived(h, s) ==
    partialDeserialize(h,
        [HeaderRead(h, s) EXCEPT !.words = SubSeq(@, 1, Value(h, HeaderRead(h, s).field["payloadLen"]))])

(* The words behind the fields are a sequence, and all of them are its words.   *)
LEMMA WordsFacts ==
    ASSUME NEW h, NEW g, NEW t, NEW a, NEW w \in Seq(Nat)
    PROVE  LET ws == Stored(h, g, t, a, w).words
           IN  Len(ws) = Len(w) /\ SubSeq(ws, 1, Len(w)) = ws /\ DOMAIN ws = 1..Len(w)
  <1> DEFINE o(i) == IF i <= Counted(t, a) THEN h ELSE g
             ws == [i \in 1..Len(w) |-> Bytes(o(i), w[i])]
  <1>1. ws = Stored(h, g, t, a, w).words
    BY DEF Stored
  <1>2. \A i \in 1..Len(w) : Bytes(o(i), w[i]) \in Int \X Int
    <2> HIDE DEF o
    <2> QED
      BY DEF Bytes, Convert, Swapped
  <1> HIDE DEF o
  <1>3. ws \in Seq(Int \X Int) /\ Len(ws) = Len(w)
    BY <1>2
  <1>4. SubSeq(ws, 1, Len(w)) = ws
    BY <1>3
  <1> QED
    BY <1>1, <1>3, <1>4

(* The receiver's conversion: everything up to the participants in its order.   *)
LEMMA DeserializeStored ==
    ASSUME NEW h \in Orders, NEW g, NEW t \in DOMAIN Serialized, NEW a \in [Fields(t) -> Nat],
           NEW w \in Seq(Nat), a["payloadLen"] = Len(w)
    PROVE  Arrived(h, Stored("big", g, t, a, w)) = Stored(h, g, t, a, w)
  <1> DEFINE k == Counted(t, a)
             rest == Serialized[t]
             f0 == [f \in Fields(t) |-> Bytes("big", a[f])]
             f1 == [f \in Fields(t) |-> Bytes(IF f \in Header THEN h ELSE "big", a[f])]
             f2 == [f \in Fields(t) |-> Bytes(h, a[f])]
             w0 == [i \in 1..Len(w) |-> Bytes(IF i <= k THEN "big" ELSE g, w[i])]
             w1 == [i \in 1..Len(w) |-> Bytes(IF i <= k THEN h ELSE g, w[i])]
  <1>1. \A n \in Nat : Convert(h, Bytes("big", n)) = Bytes(h, n)
    BY Conversions DEF Turns
  <1>2. (\A f \in Fields(t) : a[f] \in Nat) /\ (\A i \in 1..Len(w) : w[i] \in Nat)
    OBVIOUS
  <1>3. [f \in DOMAIN f0 |-> IF f \in Header THEN Convert(h, f0[f]) ELSE f0[f]] = f1
    BY <1>1, <1>2
  <1>4. [f \in DOMAIN f1 |-> IF f \in rest THEN Convert(h, f1[f]) ELSE f1[f]] = f2
    <2>1. \A f \in Fields(t) : f \in rest <=> f \notin Header
      BY FieldFacts
    <2> HIDE DEF rest
    <2> QED
      BY <1>1, <1>2, <2>1
  <1>5. [i \in DOMAIN w0 |-> IF i <= k THEN Convert(h, w0[i]) ELSE w0[i]] = w1
    <2> HIDE DEF k
    <2> QED
      BY <1>1, <1>2
  <1>6. Participants(h, [type |-> t, field |-> f2, words |-> w0]) = k
    <2>1. t = "Preprepare" => f2["numOfRound3Participants"] = Bytes(h, a["numOfRound3Participants"])
      BY FieldFacts
    <2> HIDE DEF f2, w0
    <2> QED
      BY <2>1, CountIsRead
  <1>7. Stored("big", g, t, a, w) = [type |-> t, field |-> f0, words |-> w0]
    BY DEF Stored
  <1>8. Stored(h, g, t, a, w) = [type |-> t, field |-> f2, words |-> w1]
    BY DEF Stored
  <1>9. Value(h, f1["payloadLen"]) = Len(w)
    <2>1. f1["payloadLen"] = Bytes(h, a["payloadLen"])
      BY FieldFacts DEF Header
    <2> QED
      BY <2>1, Conversions
  <1>10. SubSeq(w0, 1, Len(w)) = w0
    BY <1>7, WordsFacts
  <1> HIDE DEF rest, f0, f1, f2, w0, w1, k
  <1>11. HeaderRead(h, [type |-> t, field |-> f0, words |-> w0]) = [type |-> t, field |-> f1, words |-> w0]
    BY <1>3, FieldsConverted DEF HeaderRead
  <1>12. Arrived(h, [type |-> t, field |-> f0, words |-> w0]) =
             partialDeserialize(h, [type |-> t, field |-> f1, words |-> w0])
    <2> DEFINE s == [type |-> t, field |-> f0, words |-> w0]
               r == [type |-> t, field |-> f1, words |-> w0]
    <2>1. r.words = w0 /\ r.field = f1 /\ [r EXCEPT !.words = w0] = r
      OBVIOUS
    <2>2. HeaderRead(h, s) = r
      BY <1>11
    <2> HIDE DEF s, r
    <2>3. Arrived(h, s) =
              partialDeserialize(h,
                  [r EXCEPT !.words = SubSeq(r.words, 1, Value(h, r.field["payloadLen"]))])
      BY <2>2 DEF Arrived
    <2>4. SubSeq(r.words, 1, Value(h, r.field["payloadLen"])) = w0
      BY <1>9, <1>10, <2>1
    <2> QED
      BY <2>1, <2>3, <2>4 DEF s, r
  <1>13. ConvertFields(h, [type |-> t, field |-> f1, words |-> w0], rest) =
             [type |-> t, field |-> f2, words |-> w0]
    BY <1>4, FieldsConverted
  <1>14. ConvertParticipants(h, [type |-> t, field |-> f2, words |-> w0]) =
             [type |-> t, field |-> f2, words |-> w1]
    BY <1>5, <1>6, ParticipantsConverted
  <1>15. partialDeserialize(h, [type |-> t, field |-> f1, words |-> w0]) =
             ConvertParticipants(h,
                 ConvertFields(h, [type |-> t, field |-> f1, words |-> w0], rest))
    BY FieldFacts DEF partialDeserialize, rest
  <1> QED
    BY <1>7, <1>8, <1>12, <1>13, <1>14, <1>15

(* Sixteen bits hold natural numbers.                                           *)
LEMMA NumbersAreNat == Uint16 \subseteq Nat /\ Seq(Uint16) \subseteq Seq(Nat)
  <1>1. UINT16_MAX \in Int
    BY DEF UINT16_MAX
  <1> QED
    BY <1>1 DEF Uint16

(* A message that was composed is one of numbers in the order of its machine.   *)
LEMMA ComposedStored ==
    ASSUME NEW g \in Orders, NEW m \in Composed(g)
    PROVE  \E t \in DOMAIN Serialized : \E a \in [Fields(t) -> Nat], w \in Seq(Nat) :
               m = Stored(g, g, t, a, w) /\ a["payloadLen"] = Len(w)
  <1>0. PICK t \in DOMAIN Serialized, w \in Payload :
          m \in {[type |-> t,
                  field |-> [f \in Fields(t) |->
                                CASE f = "payloadLen" -> Bytes(g, Len(w))
                                  [] f = "numOfRound3Participants" -> Bytes(g, count)
                                  [] OTHER -> Bytes(g, n)],
                  words |-> [i \in DOMAIN w |-> Bytes(g, w[i])]]
                   : n \in FieldNum, count \in 0..(IF t = "Preprepare" THEN Len(w) ELSE 0)}
    BY DEF Composed
  <1>1. PICK n \in FieldNum, count \in 0..(IF t = "Preprepare" THEN Len(w) ELSE 0) :
          m = [type |-> t,
               field |-> [f \in Fields(t) |->
                             CASE f = "payloadLen" -> Bytes(g, Len(w))
                               [] f = "numOfRound3Participants" -> Bytes(g, count)
                               [] OTHER -> Bytes(g, n)],
               words |-> [i \in DOMAIN w |-> Bytes(g, w[i])]]
    BY <1>0
  <1>2. w \in Seq(Nat) /\ Len(w) \in Nat /\ n \in Nat /\ count \in Nat /\ DOMAIN w = 1..Len(w)
    <2>1. w \in Seq(Uint16)
      BY PayloadAssumption
    <2>2. w \in Seq(Nat) /\ Len(w) \in Nat /\ DOMAIN w = 1..Len(w)
      BY <2>1, NumbersAreNat
    <2>3. n \in Nat
      BY NumAssumption, NumbersAreNat
    <2> QED
      BY <2>2, <2>3
  <1> DEFINE num(f) == CASE f = "payloadLen" -> Len(w)
                         [] f = "numOfRound3Participants" -> count
                         [] OTHER -> n
             a == [f \in Fields(t) |-> num(f)]
  <1>3. \A f : num(f) \in Nat
    BY <1>2
  <1>4. a \in [Fields(t) -> Nat] /\ a["payloadLen"] = Len(w)
    BY <1>2, <1>3, FieldFacts
  <1>5. [f \in Fields(t) |-> CASE f = "payloadLen" -> Bytes(g, Len(w))
                               [] f = "numOfRound3Participants" -> Bytes(g, count)
                               [] OTHER -> Bytes(g, n)]
            = [f \in Fields(t) |-> Bytes(g, a[f])]
    OBVIOUS
  <1>6. [i \in DOMAIN w |-> Bytes(g, w[i])] =
            [i \in 1..Len(w) |-> Bytes(IF i <= Counted(t, a) THEN g ELSE g, w[i])]
    BY <1>2
  <1>7. m = Stored(g, g, t, a, w)
    BY <1>1, <1>5, <1>6 DEF Stored
  <1> QED
    BY <1>2, <1>4, <1>7

-----------------------------------------------------------------------------
(* Where a message is: composed in the buffer and converted there before the    *)
(* first receiver gets it.  What is in a socket is the converted message, and   *)
(* what was received is what came of it; both are gone before the next message. *)
InBuffer ==
    /\ at \in {"idle", "clone", "serialize", "send"}
    /\ at # "idle" => original \in Composed(senderHost) /\ totalLength = Length(original)
    /\ at \in {"clone", "serialize"} => element = original
    /\ at = "send" => element = serialize(senderHost, original)
OnTheWay ==
    /\ socket = [p \in Peer |-> socket[p]]
    /\ \A p \in Peer : socket[p] # None =>
          original \in Composed(senderHost) /\ socket[p] = serialize(senderHost, original)
Arrivals ==
    /\ received = [p \in Peer |-> received[p]]
    /\ \A p \in Peer : received[p] # None =>
          /\ original \in Composed(senderHost)
          /\ received[p] = Arrived(receiverHost, serialize(senderHost, original))

MessageIInv ==
    /\ senderHost \in Orders /\ receiverHost \in Orders
    /\ InBuffer /\ OnTheWay /\ Arrivals
    /\ OwnCopyAsComposed

(* The whole message is sent.                                                   *)
LEMMA AllIsSent ==
    ASSUME NEW g \in Orders, NEW m \in Composed(g)
    PROVE  LET s == serialize(g, m)
           IN  [s EXCEPT !.words = SubSeq(@, 1, Value(g, m.field["payloadLen"]))] = s
  <1>1. PICK t \in DOMAIN Serialized : \E a \in [Fields(t) -> Nat], w \in Seq(Nat) :
          m = Stored(g, g, t, a, w) /\ a["payloadLen"] = Len(w)
    BY ComposedStored
  <1>2. PICK a \in [Fields(t) -> Nat], w \in Seq(Nat) :
          m = Stored(g, g, t, a, w) /\ a["payloadLen"] = Len(w)
    BY <1>1
  <1>3. m.field["payloadLen"] = Bytes(g, Len(w))
    BY <1>2, FieldFacts DEF Stored
  <1>4. Value(g, m.field["payloadLen"]) = Len(w)
    BY <1>3, Conversions
  <1>5. serialize(g, m) = Stored("big", g, t, a, w)
    BY <1>2, SerializeStored
  <1>6. SubSeq(Stored("big", g, t, a, w).words, 1, Len(w)) = Stored("big", g, t, a, w).words
    BY WordsFacts
  <1>7. [Stored("big", g, t, a, w) EXCEPT !.words = Stored("big", g, t, a, w).words] =
            Stored("big", g, t, a, w)
    BY DEF Stored
  <1> QED
    BY <1>4, <1>5, <1>6, <1>7

(* Nothing is on the way at first.                                              *)
LEMMA MessageInitIInv == MessageInit => MessageIInv
  BY HostAssumption DEF MessageInit, MessageIInv, InBuffer, OnTheWay, Arrivals, OwnCopyAsComposed, Orders

(* Every step preserves the invariant.                                          *)
LEMMA MessageNextIInv == MessageIInv /\ [MessageNext]_messageVars => MessageIInv'
  <1> SUFFICES ASSUME MessageIInv, [MessageNext]_messageVars PROVE MessageIInv'
    OBVIOUS
  <1> USE DEF hosts
  <1>1. CASE Dequeue
    <2>1. /\ original' \in Composed(senderHost)
          /\ totalLength' = Value(senderHost, original'.field["payloadLen"])
          /\ element' = original' /\ at' = "clone" /\ own' = None
          /\ received' = [p \in Peer |-> None] /\ socket' = socket
          /\ senderHost' = senderHost /\ receiverHost' = receiverHost
          /\ \A p \in Peer : socket[p] = None
      BY <1>1 DEF Dequeue, Length
    <2>2. Composed(senderHost)' = Composed(senderHost)
      BY <2>1
    <2>3. InBuffer'
      BY <2>1, <2>2 DEF InBuffer, Length
    <2>4. OnTheWay' /\ Arrivals' /\ OwnCopyAsComposed'
      BY <2>1 DEF MessageIInv, OnTheWay, Arrivals, OwnCopyAsComposed
    <2> QED
      BY <2>1, <2>3, <2>4 DEF MessageIInv
  <1>2. CASE EnqueueCopy
    <2>1. /\ at = "clone" /\ at' = "serialize" /\ (own' = element \/ own' = None)
          /\ senderHost' = senderHost /\ receiverHost' = receiverHost /\ original' = original
          /\ element' = element /\ totalLength' = totalLength /\ socket' = socket /\ received' = received
      BY <1>2 DEF EnqueueCopy, Clone
    <2>2. InBuffer' /\ OwnCopyAsComposed'
      BY <2>1 DEF MessageIInv, InBuffer, OwnCopyAsComposed, Length
    <2>3. OnTheWay' /\ Arrivals'
      BY <2>1 DEF MessageIInv, OnTheWay, Arrivals
    <2> QED
      BY <2>1, <2>2, <2>3 DEF MessageIInv
  <1>3. CASE Serialize
    <2>1. /\ at = "serialize" /\ at' = "send" /\ element' = serialize(senderHost, element) /\ own' = own
          /\ senderHost' = senderHost /\ receiverHost' = receiverHost /\ original' = original
          /\ totalLength' = totalLength /\ socket' = socket /\ received' = received
      BY <1>3 DEF Serialize
    <2>2. InBuffer' /\ OwnCopyAsComposed'
      BY <2>1 DEF MessageIInv, InBuffer, OwnCopyAsComposed, Length
    <2>3. OnTheWay' /\ Arrivals'
      BY <2>1 DEF MessageIInv, OnTheWay, Arrivals
    <2> QED
      BY <2>1, <2>2, <2>3 DEF MessageIInv
  <1>4. CASE Send
    <2>1. /\ at = "send" /\ at' \in {"idle", "send"} /\ own' = own /\ element' = element
          /\ senderHost' = senderHost /\ receiverHost' = receiverHost /\ original' = original
          /\ totalLength' = totalLength /\ received' = received
      BY <1>4 DEF Send
    <2>2. InBuffer' /\ Arrivals' /\ OwnCopyAsComposed'
      BY <2>1 DEF MessageIInv, InBuffer, Arrivals, OwnCopyAsComposed, Length
    <2>3. \/ socket' = socket
          \/ \E q \in upPeers :
                socket' = [socket EXCEPT ![q] = [element EXCEPT !.words = SubSeq(@, 1, totalLength)]]
      BY <1>4 DEF Send
    <2>4. /\ original \in Composed(senderHost) /\ element = serialize(senderHost, original)
          /\ totalLength = Value(senderHost, original.field["payloadLen"])
      BY <2>1 DEF MessageIInv, InBuffer, Length
    <2>5. [element EXCEPT !.words = SubSeq(@, 1, totalLength)] = element
      BY <2>4, AllIsSent DEF MessageIInv
    <2>6. /\ socket' = [p \in Peer |-> socket'[p]]
          /\ \A p \in Peer : socket'[p] = socket[p] \/ socket'[p] = element
      BY <2>3, <2>5 DEF MessageIInv, OnTheWay
    <2>7. OnTheWay'
      BY <2>1, <2>4, <2>6 DEF MessageIInv, OnTheWay
    <2> QED
      BY <2>1, <2>2, <2>7 DEF MessageIInv
  <1>5. ASSUME NEW q \in Peer, Receive(q) PROVE MessageIInv'
    <2>1. /\ socket[q] # None /\ socket' = [socket EXCEPT ![q] = None]
          /\ received' = [received EXCEPT ![q] = Arrived(receiverHost, socket[q])]
          /\ at' = at /\ own' = own /\ element' = element
          /\ senderHost' = senderHost /\ receiverHost' = receiverHost /\ original' = original
          /\ totalLength' = totalLength
      BY <1>5 DEF Receive, Arrived, HeaderRead
    <2>2. InBuffer' /\ OwnCopyAsComposed'
      BY <2>1 DEF MessageIInv, InBuffer, OwnCopyAsComposed, Length
    <2>3. OnTheWay'
      BY <2>1 DEF MessageIInv, OnTheWay
    <2>4. /\ original \in Composed(senderHost)
          /\ Arrived(receiverHost, socket[q]) = Arrived(receiverHost, serialize(senderHost, original))
      BY <2>1 DEF MessageIInv, OnTheWay
    <2>5. /\ received' = [p \in Peer |-> received'[p]]
          /\ \A p \in Peer : received'[p] = received[p] \/ received'[p] = Arrived(receiverHost, socket[q])
      BY <2>1 DEF MessageIInv, Arrivals
    <2>6. Arrivals'
      BY <2>1, <2>4, <2>5 DEF MessageIInv, Arrivals
    <2> QED
      BY <2>1, <2>2, <2>3, <2>6 DEF MessageIInv
  <1>6. CASE UNCHANGED messageVars
    BY <1>6 DEF messageVars, MessageIInv, InBuffer, OnTheWay, Arrivals, OwnCopyAsComposed, Length
  <1> QED
    BY <1>1, <1>2, <1>3, <1>4, <1>5, <1>6 DEF MessageNext

(* The strengthened invariant is one of the specification.                      *)
LEMMA MessageInvariant == MessageSpec => []MessageIInv
  BY MessageInitIInv, MessageNextIInv, PTL DEF MessageSpec

(* What arrives is the message, field by field and word by word.                *)
LEMMA RoundTrip ==
    ASSUME NEW g \in Orders, NEW h \in Orders, NEW m \in Composed(g),
           NEW r, r = Arrived(h, serialize(g, m))
    PROVE  /\ \A f \in DOMAIN m.field : Value(h, r.field[f]) = Value(g, m.field[f])
           /\ Len(r.words) = Len(m.words)
           /\ \A i \in DOMAIN m.words :
                 IF i <= Participants(g, m)
                 THEN Value(h, r.words[i]) = Value(g, m.words[i])
                 ELSE r.words[i] = m.words[i]
  <1>1. PICK t \in DOMAIN Serialized : \E a \in [Fields(t) -> Nat], w \in Seq(Nat) :
          m = Stored(g, g, t, a, w) /\ a["payloadLen"] = Len(w)
    BY ComposedStored
  <1>2. PICK a \in [Fields(t) -> Nat], w \in Seq(Nat) :
          m = Stored(g, g, t, a, w) /\ a["payloadLen"] = Len(w)
    BY <1>1
  <1>3. r = Stored(h, g, t, a, w)
    BY <1>2, SerializeStored, DeserializeStored
  <1>4. (\A f \in Fields(t) : a[f] \in Nat) /\ (\A i \in 1..Len(w) : w[i] \in Nat)
    OBVIOUS
  <1>5. /\ m.field = [f \in Fields(t) |-> Bytes(g, a[f])]
        /\ r.field = [f \in Fields(t) |-> Bytes(h, a[f])]
    <2>1. /\ Stored(g, g, t, a, w).field = [f \in Fields(t) |-> Bytes(g, a[f])]
          /\ Stored(h, g, t, a, w).field = [f \in Fields(t) |-> Bytes(h, a[f])]
      BY DEF Stored
    <2> QED
      BY <1>2, <1>3, <2>1, Zenon
  <1>6. \A f \in DOMAIN m.field : Value(h, r.field[f]) = Value(g, m.field[f])
    BY <1>4, <1>5, Conversions
  <1>7. Len(r.words) = Len(w) /\ Len(m.words) = Len(w) /\ DOMAIN m.words = 1..Len(w)
    BY <1>2, <1>3, WordsFacts
  <1>8. Participants(g, m) = Counted(t, a)
    <2>1. /\ m.type = t
          /\ t = "Preprepare" =>
                m.field["numOfRound3Participants"] = Bytes(g, a["numOfRound3Participants"])
      BY <1>2, <1>5, FieldFacts DEF Stored
    <2> QED
      BY <2>1, CountIsRead
  <1>9. ASSUME NEW i \in DOMAIN m.words
        PROVE  IF i <= Participants(g, m)
               THEN Value(h, r.words[i]) = Value(g, m.words[i])
               ELSE r.words[i] = m.words[i]
    <2> DEFINE k == Counted(t, a)
    <2>1. /\ r.words[i] = Bytes(IF i <= k THEN h ELSE g, w[i])
          /\ m.words[i] = Bytes(IF i <= k THEN g ELSE g, w[i])
      <3>1. /\ r.words = [j \in 1..Len(w) |-> Bytes(IF j <= k THEN h ELSE g, w[j])]
            /\ m.words = [j \in 1..Len(w) |-> Bytes(IF j <= k THEN g ELSE g, w[j])]
        <4>1. /\ Stored(h, g, t, a, w).words = [j \in 1..Len(w) |-> Bytes(IF j <= k THEN h ELSE g, w[j])]
              /\ Stored(g, g, t, a, w).words = [j \in 1..Len(w) |-> Bytes(IF j <= k THEN g ELSE g, w[j])]
          BY DEF Stored
        <4> QED
          BY <1>2, <1>3, <4>1, Zenon
      <3> HIDE DEF k
      <3> QED
        BY <1>7, <3>1
    <2> HIDE DEF k
    <2>2. CASE i <= k
      BY <1>4, <1>7, <1>8, <2>1, <2>2, Conversions DEF k
    <2>3. CASE ~ (i <= k)
      BY <1>8, <2>1, <2>3 DEF k
    <2> QED
      BY <2>2, <2>3
  <1> QED
    BY <1>6, <1>7, <1>9

(* Every receiver, of either byte order, reads the numbers the sender composed  *)
(* (toBE, fromBE), and finds what is not converted as it was.                   *)
THEOREM FieldsArrive == MessageSpec => []ArrivesAsSent
  <1>1. MessageIInv => ArrivesAsSent
    BY RoundTrip DEF MessageIInv, Arrivals, ArrivesAsSent
  <1> QED
    BY <1>1, MessageInvariant, PTL

(* The copy of the sender itself is made before the buffer is converted.        *)
THEOREM OwnCopyIsComposed == MessageSpec => []OwnCopyAsComposed
  <1>1. MessageIInv => OwnCopyAsComposed
    BY DEF MessageIInv
  <1> QED
    BY <1>1, MessageInvariant, PTL

==============================================================================
