---------------------------- MODULE TransportProofs ----------------------------
(* Proofs about Transport, for any number of SLs, any capacity of the sockets *)
(* and whatever they send: an SL has its own copy first, no listener completes*)
(* a header with the wrong payload, and threads and sockets together are the  *)
(* channels that the dispatchers rely on.                                     *)
EXTENDS Transport, FiniteSetTheorems, WellFoundedInduction, TLAPS

(* The elements whose copy to oneself has arrived, if there is to be one.     *)
Owned == {e \in Message : e.from \in e.to => e \in Received(e.from)}

(* What waits for the sender of n was made at n.                              *)
QueuesOK(n) ==
    /\ \A i \in DOMAIN clientQueue[n] : clientQueue[n][i].from = n
    /\ \A i \in DOMAIN sendQueue[n] : sendQueue[n][i].from = n

(* What the sender works on: an element and the receivers it still has.       *)
SenderOK(n) ==
    /\ element[n] = None <=> upPeers[n] = <<>>
    /\ element[n] = None => ~half[n]
    /\ element[n] # None => element[n].from = n /\ element[n] \in Owned
    /\ \A i, j \in 1..Len(upPeers[n]) : upPeers[n][i] = upPeers[n][j] => i = j

(* The sender of n has written a header to m, and the listener of m has read  *)
(* one from n, whose payload is still to come.                                *)
Writes(n, m) == half[n] /\ Head(upPeers[n]) = m
Reads(n, m) == reading[m] # None /\ Slot(m) = n

(* The pieces in a socket: headers and payloads take turns, each payload      *)
(* after its header; what is missing at either end is being read or written.  *)
Alternates(q) == \A i \in 1..Len(q) : q[i].part = "payload" <=> (i + Begun(q)) % 2 = 0

Framing(n, m) ==
    LET q == socket[n][m]
    IN  /\ Alternates(q)
        /\ \A i \in 1..Len(q) : q[i].message.from = n /\ q[i].message \in Owned
        /\ \A i \in 1..(Len(q) - 1) : q[i].part = "header" => q[i + 1].message = q[i].message
        /\ q # <<>> => /\ Reads(n, m) <=> q[1].part = "payload"
                       /\ Reads(n, m) => q[1].message = reading[m]
                       /\ Writes(n, m) <=> q[Len(q)].part = "header"
                       /\ Writes(n, m) => q[Len(q)].message = element[n]
        /\ q = <<>> => /\ Reads(n, m) <=> Writes(n, m)
                       /\ Reads(n, m) => reading[m] = element[n]

IInv ==
    /\ TypeOK
    /\ \A n \in Node : QueuesOK(n) /\ SenderOK(n)
    /\ \A n \in Node : reading[n] # None => revents[n] # {}
    /\ \A n, m \in Node : Framing(n, m)
    /\ \A n \in Node : Received(n) \subseteq Owned

------------------------------------------------------------------------------
(* Sequences of pieces.                                                       *)

(* The arithmetic of every other piece.                                       *)
LEMMA Halves ==
    \A x \in Nat : /\ x % 2 # 0 <=> (x + 1) % 2 = 0
                   /\ (x + 2) % 2 = x % 2
                   /\ x % 2 = 0 => (x + 1) \div 2 = x \div 2 /\ 2 * (x \div 2) = x
                   /\ x % 2 # 0 => (x + 1) \div 2 = x \div 2 + 1
                   /\ 2 * (x \div 2) <= x /\ x \div 2 \in Nat
  OBVIOUS

(* Whole is a sequence of messages, one for every two pieces.                 *)
LEMMA WholeType ==
    ASSUME NEW q \in Seq(Piece)
    PROVE  /\ Begun(q) \in {0, 1}
           /\ Whole(q) \in Seq(Message)
           /\ Len(Whole(q)) = (Len(q) + Begun(q)) \div 2
           /\ \A i \in 1..Len(Whole(q)) : Whole(q)[i] = q[2 * i - Begun(q)].message
  <1>1. Begun(q) \in {0, 1} /\ Len(q) \in Nat
    BY DEF Begun
  <1> DEFINE k == (Len(q) + Begun(q)) \div 2
  <1>2. k \in Nat /\ \A i \in 1..k : 2 * i - Begun(q) \in 1..Len(q)
    <2>1. CASE Begun(q) = 0
      <3>1. k \in Nat /\ 2 * k <= Len(q)
        BY <1>1, <2>1
      <3> HIDE DEF k
      <3> QED
        BY <1>1, <2>1, <3>1
    <2>2. CASE Begun(q) = 1
      <3>1. k \in Nat /\ 2 * k <= Len(q) + 1
        BY <1>1, <2>2
      <3> HIDE DEF k
      <3> QED
        BY <1>1, <2>2, <3>1
    <2> QED
      BY <1>1, <2>1, <2>2
  <1>3. Whole(q) = [i \in 1..k |-> q[2 * i - Begun(q)].message]
    BY DEF Whole
  <1> HIDE DEF k
  <1>4. \A i \in 1..k : q[2 * i - Begun(q)].message \in Message
    <2>1. \A i \in 1..k : q[2 * i - Begun(q)] \in Piece
      BY <1>2
    <2> QED
      BY <2>1 DEF Piece
  <1>5. Whole(q) \in [1..k -> Message]
    BY <1>3, <1>4
  <1>6. Whole(q) \in Seq(Message) /\ Len(Whole(q)) = k
    BY <1>2, <1>5
  <1> QED
    BY <1>1, <1>3, <1>6 DEF k

(* Nothing is whole in an empty socket.                                       *)
LEMMA WholeEmpty == Whole(<<>>) = <<>>
  <1>1. <<>> \in Seq(Piece) /\ Begun(<<>>) = 0 /\ Len(<<>>) = 0
    BY DEF Begun
  <1>2. Whole(<<>>) \in Seq(Message) /\ Len(Whole(<<>>)) = 0
    <2>1. Whole(<<>>) \in Seq(Message) /\ Len(Whole(<<>>)) = (0 + 0) \div 2
      BY <1>1, WholeType
    <2> QED
      BY <2>1
  <1> QED
    BY <1>2

(* Writing a header completes nothing, writing a payload one message.         *)
LEMMA WholeAppend ==
    ASSUME NEW q \in Seq(Piece), Alternates(q), NEW p \in Piece,
           q # <<>> => p.part # q[Len(q)].part
    PROVE  /\ Append(q, p) \in Seq(Piece)
           /\ Begun(Append(q, p)) = IF q = <<>> /\ p.part = "payload" THEN 1 ELSE Begun(q)
           /\ Alternates(Append(q, p))
           /\ p.part = "header" => Whole(Append(q, p)) = Whole(q)
           /\ p.part = "payload" => Whole(Append(q, p)) = Append(Whole(q), p.message)
  <1> DEFINE r == Append(q, p)
             l == Len(q)
             b == Begun(q)
  <1>1. /\ l \in Nat /\ b \in {0, 1} /\ r \in Seq(Piece) /\ Len(r) = l + 1
        /\ \A i \in 1..l : r[i] = q[i]
        /\ r[l + 1] = p
        /\ p.part \in {"header", "payload"}
    BY DEF Begun, Piece
  <1>2. q = <<>> => l = 0 /\ b = 0
    BY DEF Begun
  <1>3. Begun(r) = IF q = <<>> /\ p.part = "payload" THEN 1 ELSE b
    <2>1. CASE q = <<>>
      BY <1>1, <1>2, <2>1 DEF Begun
    <2>2. CASE q # <<>>
      <3>1. l >= 1 /\ r[1] = q[1]
        BY <1>1, <2>2
      <3> QED
        BY <1>1, <2>2, <3>1 DEF Begun
    <2> QED
      BY <2>1, <2>2
  <1>4. q # <<>> => l >= 1 /\ (q[l].part = "payload" <=> (l + b) % 2 = 0) /\ q[l].part \in {"header", "payload"}
    <2> SUFFICES ASSUME q # <<>>
                 PROVE  l >= 1 /\ (q[l].part = "payload" <=> (l + b) % 2 = 0) /\ q[l].part \in {"header", "payload"}
      OBVIOUS
    <2>1. l \in 1..Len(q)
      BY <1>1
    <2>2. q[l] \in Piece
      BY <2>1
    <2> QED
      BY <2>1, <2>2 DEF Alternates, Piece
  <1>5. p.part = "payload" <=> (l + 1 + Begun(r)) % 2 = 0
    <2>1. CASE q = <<>>
      BY <1>1, <1>2, <1>3, <2>1
    <2>2. CASE q # <<>>
      <3>1. p.part = "payload" <=> (l + b) % 2 # 0
        BY <1>1, <1>4, <2>2
      <3>2. (l + b) % 2 # 0 <=> (l + 1 + b) % 2 = 0
        <4>1. l + b \in Nat /\ l + 1 + b = (l + b) + 1
          BY <1>1
        <4> HIDE DEF l, b
        <4> QED
          BY <4>1, Halves
      <3> QED
        BY <1>3, <2>2, <3>1, <3>2
    <2> QED
      BY <2>1, <2>2
  <1>6. Alternates(r)
    <2> SUFFICES ASSUME NEW i \in 1..(l + 1)
                 PROVE  r[i].part = "payload" <=> (i + Begun(r)) % 2 = 0
      BY <1>1 DEF Alternates
    <2>1. CASE i = l + 1
      BY <1>1, <1>5, <2>1
    <2>2. CASE i \in 1..l
      <3>1. r[i] = q[i] /\ Begun(r) = b
        BY <1>1, <1>2, <1>3, <2>2
      <3> QED
        BY <1>1, <2>2, <3>1 DEF Alternates
    <2> QED
      BY <1>1, <2>1, <2>2
  <1>7. /\ Whole(q) \in Seq(Message) /\ Len(Whole(q)) = (l + b) \div 2
        /\ \A i \in 1..Len(Whole(q)) : Whole(q)[i] = q[2 * i - b].message
    BY WholeType
  <1>8. /\ Whole(r) \in Seq(Message) /\ Len(Whole(r)) = (l + 1 + Begun(r)) \div 2
        /\ \A i \in 1..Len(Whole(r)) : Whole(r)[i] = r[2 * i - Begun(r)].message
    BY <1>1, WholeType
  <1>9. ASSUME p.part = "header" PROVE Whole(r) = Whole(q)
    <2>1. Begun(r) = b /\ (l + 1 + b) % 2 # 0
      BY <1>3, <1>5, <1>9
    <2>2. (l + 1 + b) \div 2 = (l + b) \div 2 /\ 2 * ((l + b) \div 2) <= l + b
      <3>1. l + b \in Nat /\ l + 1 + b = (l + b) + 1
        BY <1>1
      <3> HIDE DEF l, b
      <3> QED
        BY <2>1, <3>1, Halves
    <2>3. Len(Whole(r)) = Len(Whole(q)) /\ 2 * Len(Whole(q)) <= l + b /\ Len(Whole(q)) \in Nat
      BY <1>1, <1>7, <1>8, <2>1, <2>2
    <2>4. ASSUME NEW i \in 1..Len(Whole(q)) PROVE Whole(r)[i] = Whole(q)[i]
      <3>1. 2 * i - b \in 1..l
        BY <1>1, <2>3
      <3> QED
        BY <1>1, <1>7, <1>8, <2>1, <2>3, <3>1
    <2> QED
      BY <1>7, <1>8, <2>3, <2>4
  <1>10. ASSUME p.part = "payload" PROVE Whole(r) = Append(Whole(q), p.message)
    <2>1. (l + 1 + Begun(r)) % 2 = 0
      BY <1>5, <1>10
    <2>2. /\ Len(Whole(r)) = Len(Whole(q)) + 1 /\ 2 * Len(Whole(r)) = l + 1 + Begun(r)
          /\ Len(Whole(q)) \in Nat
      <3>1. CASE q = <<>>
        <4>1. l = 0 /\ b = 0 /\ Begun(r) = 1
          BY <1>2, <1>3, <1>10, <3>1
        <4> QED
          BY <1>7, <1>8, <4>1
      <3>2. CASE q # <<>>
        <4>1. Begun(r) = b /\ (l + 1 + b) % 2 = 0
          BY <1>3, <2>1, <3>2
        <4>2. (l + 1 + b) \div 2 = (l + b) \div 2 + 1 /\ 2 * ((l + 1 + b) \div 2) = l + 1 + b
          BY <1>1, <4>1
        <4> QED
          BY <1>1, <1>7, <1>8, <4>1, <4>2
      <3> QED
        BY <3>1, <3>2
    <2>3. ASSUME NEW i \in 1..Len(Whole(q)) PROVE Whole(r)[i] = Whole(q)[i]
      <3>1. q # <<>>
        <4>1. q = <<>> => Len(Whole(q)) = 0
          BY <1>2, <1>7
        <4> QED
          BY <4>1
      <3>2. Begun(r) = b
        BY <1>3, <3>1
      <3>3. 2 * i - b \in 1..l
        BY <1>1, <2>2, <3>2
      <3>4. i \in 1..Len(Whole(r))
        BY <2>2
      <3>5. Whole(r)[i] = r[2 * i - b].message
        BY <1>8, <3>2, <3>4
      <3> QED
        BY <1>1, <1>7, <3>3, <3>5
    <2>4. Whole(r)[Len(Whole(r))] = p.message
      <3>1. Len(Whole(r)) \in 1..Len(Whole(r)) /\ 2 * Len(Whole(r)) - Begun(r) = l + 1
        BY <1>1, <1>3, <2>2
      <3> QED
        BY <1>1, <1>8, <3>1
    <2>5. p.message \in Message
      BY DEF Piece
    <2> HIDE DEF r
    <2> QED
      BY <1>7, <1>8, <2>2, <2>3, <2>4, <2>5
  <1> QED
    BY <1>1, <1>3, <1>6, <1>9, <1>10

(* Reading a header takes nothing away, reading a payload the first message.  *)
LEMMA WholeTail ==
    ASSUME NEW q \in Seq(Piece), q # <<>>, Alternates(q)
    PROVE  /\ Tail(q) \in Seq(Piece) /\ Len(Tail(q)) = Len(q) - 1
           /\ \A i \in 1..(Len(q) - 1) : Tail(q)[i] = q[i + 1]
           /\ Alternates(Tail(q))
           /\ Tail(q) # <<>> => (Tail(q)[1].part = "payload" <=> q[1].part = "header")
           /\ q[1].part = "header" => Whole(Tail(q)) = Whole(q)
           /\ q[1].part = "payload" => /\ Whole(q) # <<>> /\ Head(Whole(q)) = q[1].message
                                       /\ Whole(Tail(q)) = Tail(Whole(q))
  <1> DEFINE r == Tail(q)
             l == Len(q)
             b == Begun(q)
  <1>1. /\ l \in Nat \ {0} /\ b \in {0, 1} /\ r \in Seq(Piece) /\ Len(r) = l - 1
        /\ \A i \in 1..(l - 1) : r[i] = q[i + 1]
        /\ q[1].part \in {"header", "payload"}
        /\ b = 1 <=> q[1].part = "payload"
        /\ b = 0 <=> q[1].part = "header"
    <2>1. l \in Nat \ {0} /\ 1 \in 1..l
      OBVIOUS
    <2>2. q[1] \in Piece
      BY <2>1
    <2> QED
      BY <2>1, <2>2 DEF Begun, Piece
  <1>2. \A i \in 1..l : q[i].part = "payload" <=> (i + b) % 2 = 0
    BY DEF Alternates
  <1>3. Begun(r) = IF r = <<>> THEN 0 ELSE 1 - b
    <2>1. CASE r = <<>>
      BY <2>1 DEF Begun
    <2>2. CASE r # <<>>
      <3>1. 2 \in 1..l /\ r[1] = q[2]
        BY <1>1, <2>2
      <3>2. q[2].part = "payload" <=> (2 + b) % 2 = 0
        BY <1>2, <3>1
      <3>3. (2 + b) % 2 = 0 <=> b = 0
        BY <1>1
      <3> QED
        BY <1>1, <2>2, <3>1, <3>2, <3>3 DEF Begun
    <2> QED
      BY <2>1, <2>2
  <1>4. Alternates(r)
    <2> SUFFICES ASSUME NEW i \in 1..(l - 1)
                 PROVE  r[i].part = "payload" <=> (i + Begun(r)) % 2 = 0
      BY <1>1 DEF Alternates
    <2>1. r # <<>> /\ i + 1 \in 1..l /\ i \in Nat
      <3>1. l - 1 > 0 /\ i \in Nat /\ i + 1 \in 1..l
        BY <1>1
      <3> HIDE DEF r
      <3> QED
        BY <1>1, <3>1
    <2>2. r[i].part = "payload" <=> (i + 1 + b) % 2 = 0
      BY <1>1, <1>2, <2>1
    <2>3. (i + 1 + b) % 2 = 0 <=> (i + (1 - b)) % 2 = 0
      BY <1>1, <2>1
    <2> QED
      BY <1>3, <2>1, <2>2, <2>3
  <1>5. r # <<>> => (r[1].part = "payload" <=> q[1].part = "header")
    BY <1>1, <1>3 DEF Begun
  <1>6. /\ Whole(q) \in Seq(Message) /\ Len(Whole(q)) = (l + b) \div 2
        /\ \A i \in 1..Len(Whole(q)) : Whole(q)[i] = q[2 * i - b].message
    BY WholeType
  <1>7. /\ Whole(r) \in Seq(Message) /\ Len(Whole(r)) = (l - 1 + Begun(r)) \div 2
        /\ \A i \in 1..Len(Whole(r)) : Whole(r)[i] = r[2 * i - Begun(r)].message
    BY <1>1, WholeType
  <1>8. ASSUME q[1].part = "header" PROVE Whole(r) = Whole(q)
    <2>1. b = 0
      BY <1>1, <1>8
    <2>2. CASE r = <<>>
      <3>1. l = 1 /\ Begun(r) = 0
        <4>1. Len(r) = 0 /\ Begun(r) = 0
          BY <1>3, <2>2
        <4> HIDE DEF r
        <4> QED
          BY <1>1, <4>1
      <3>2. Len(Whole(q)) = 0 /\ Len(Whole(r)) = 0
        BY <1>6, <1>7, <2>1, <3>1
      <3> QED
        BY <1>6, <1>7, <3>2
    <2>3. CASE r # <<>>
      <3>1. Begun(r) = 1
        BY <1>3, <2>1, <2>3
      <3>2. Len(Whole(r)) = Len(Whole(q)) /\ 2 * Len(Whole(q)) <= l /\ Len(Whole(q)) \in Nat
        BY <1>1, <1>6, <1>7, <2>1, <3>1
      <3>3. ASSUME NEW i \in 1..Len(Whole(q)) PROVE Whole(r)[i] = Whole(q)[i]
        <4>1. 2 * i - 1 \in 1..(l - 1) /\ 2 * i - 1 + 1 = 2 * i
          BY <1>1, <3>2
        <4>2. Whole(r)[i] = r[2 * i - 1].message
          BY <1>7, <3>1, <3>2
        <4>3. Whole(q)[i] = q[2 * i].message
          BY <1>6, <2>1
        <4> QED
          BY <1>1, <4>1, <4>2, <4>3
      <3> HIDE DEF r
      <3>4. Whole(r) \in Seq(Message) /\ Whole(q) \in Seq(Message)
        BY <1>6, <1>7
      <3> QED
        BY <3>2, <3>3, <3>4
    <2> QED
      BY <2>2, <2>3
  <1>9. ASSUME q[1].part = "payload"
        PROVE  Whole(q) # <<>> /\ Head(Whole(q)) = q[1].message /\ Whole(r) = Tail(Whole(q))
    <2>1. b = 1 /\ Begun(r) = 0
      BY <1>1, <1>3, <1>9
    <2>2. /\ Len(Whole(q)) = Len(Whole(r)) + 1 /\ 2 * Len(Whole(q)) <= l + 1
          /\ Len(Whole(r)) \in Nat
      BY <1>1, <1>6, <1>7, <2>1
    <2>3. Whole(q)[1] = q[1].message
      BY <1>6, <2>1, <2>2
    <2>4. ASSUME NEW i \in 1..Len(Whole(r)) PROVE Whole(r)[i] = Whole(q)[i + 1]
      <3>1. 2 * i \in 1..(l - 1) /\ 2 * (i + 1) - 1 = 2 * i + 1 /\ i + 1 \in 1..Len(Whole(q))
        BY <1>1, <2>2
      <3>2. Whole(r)[i] = r[2 * i].message
        <4>1. Whole(r)[i] = r[2 * i - Begun(r)].message
          BY <1>7
        <4>2. 2 * i - Begun(r) = 2 * i
          BY <2>1
        <4> QED
          BY <4>1, <4>2
      <3>3. Whole(q)[i + 1] = q[2 * i + 1].message
        BY <1>6, <2>1, <3>1
      <3> QED
        BY <1>1, <3>1, <3>2, <3>3
    <2> HIDE DEF r
    <2> QED
      BY <1>6, <1>7, <2>2, <2>3, <2>4
  <1> QED
    BY <1>1, <1>4, <1>5, <1>8, <1>9

------------------------------------------------------------------------------
(* The operators of the model.                                                *)

(* What clients and dispatchers enqueue are messages with a sender and        *)
(* receivers; None is not one.                                                *)
LEMMA ElementTypes ==
    /\ None \notin Message
    /\ \A e \in Message : e.from \in Node /\ e.to \in SUBSET Node
    /\ \A n \in Node : \A i \in 1..Len(Requests[n]) :
          [queue |-> "client", from |-> n, seq |-> i, to |-> Requests[n][i]] \in Message
    /\ \A n \in Node : \A i \in 1..Len(Sends[n]) :
          [queue |-> "send", from |-> n, seq |-> i, to |-> Sends[n][i]] \in Message
  <1>1. \A n \in Node : Requests[n] \in Seq(SUBSET Node) /\ Sends[n] \in Seq(SUBSET Node)
    BY WorkAssumption
  <1>2. \A n \in Node : /\ DOMAIN Requests[n] = 1..Len(Requests[n]) /\ DOMAIN Sends[n] = 1..Len(Sends[n])
                        /\ \A i \in 1..Len(Requests[n]) : Requests[n][i] \in SUBSET Node
                        /\ \A i \in 1..Len(Sends[n]) : Sends[n][i] \in SUBSET Node
    BY <1>1
  <1>3. ASSUME NEW n \in Node, NEW e \in Elements(n)
        PROVE  e.from = n /\ e.to \in SUBSET Node /\ e.queue \in {"client", "send"}
    BY <1>2 DEF Elements
  <1>4. \A n \in Node : \A i \in 1..Len(Requests[n]) :
          [queue |-> "client", from |-> n, seq |-> i, to |-> Requests[n][i]] \in Elements(n)
    BY <1>2 DEF Elements
  <1>5. \A n \in Node : \A i \in 1..Len(Sends[n]) :
          [queue |-> "send", from |-> n, seq |-> i, to |-> Sends[n][i]] \in Elements(n)
    BY <1>2 DEF Elements
  <1>6. None.queue = "none"
    BY DEF None
  <1> QED
    BY <1>3, <1>4, <1>5, <1>6 DEF Message

(* There are finitely many SLs.                                               *)
LEMMA FiniteNode == IsFiniteSet(Node)
  BY NumNodeAssumption, FS_Interval DEF Node

(* A listener that has polled has a slot to serve: the first.                 *)
LEMMA FirstSlot ==
    ASSUME NEW S \in SUBSET Node, S # {}
    PROVE  \E m \in S : \A o \in S : m <= o
  <1> DEFINE Without == {U \in SUBSET Node : U # {} /\ ~\E m \in U : \A o \in U : m <= o}
  <1> SUFFICES ASSUME Without # {} PROVE FALSE
    OBVIOUS
  <1>1. FiniteSubsetsOf(Node) = SUBSET Node
    BY FiniteNode, FS_FiniteSubsetsOfFinite
  <1>2. IsWellFoundedOn(StrictSubsetOrdering(Node), SUBSET Node)
    BY <1>1, FS_StrictSubsetOrderingWellFounded
  <1>3. PICK U \in Without : \A V \in Without : ~(<<V, U>> \in StrictSubsetOrdering(Node))
    <2> HIDE DEF Without
    <2>1. Without \subseteq SUBSET Node
      BY DEF Without
    <2> QED
      BY <1>2, <2>1, WFMin
  <1>4. PICK x \in U : TRUE
    OBVIOUS
  <1> DEFINE V == U \ {x}
  <1>5. <<V, U>> \in StrictSubsetOrdering(Node)
    BY DEF StrictSubsetOrdering
  <1>6. V \notin Without /\ V \in SUBSET Node
    BY <1>3, <1>5
  <1>7. U \in SUBSET Node /\ \A m \in Node : m \in Nat
    BY DEF Node
  <1>8. CASE V = {}
    BY <1>7, <1>8
  <1>9. CASE V # {}
    <2>1. PICK m \in V : \A o \in V : m <= o
      BY <1>6, <1>9
    <2>2. CASE m <= x
      BY <2>1, <2>2
    <2>3. CASE x < m
      BY <1>7, <2>1, <2>3
    <2> QED
      BY <1>7, <2>2, <2>3
  <1> QED
    BY <1>8, <1>9

(* The slot that a listener serves is one of those the poll found.            *)
LEMMA SlotReady ==
    ASSUME TypeOK, NEW n \in Node, revents[n] # {}
    PROVE  Slot(n) \in revents[n] /\ Slot(n) \in Node
  <1>1. revents[n] \in SUBSET Node
    BY DEF TypeOK
  <1>2. \E m \in revents[n] : \A o \in revents[n] : m <= o
    BY <1>1, FirstSlot
  <1>3. Slot(n) \in revents[n]
    BY <1>2 DEF Slot
  <1> QED
    BY <1>1, <1>3

(* A list of the receivers has each of them once.                             *)
LEMMA OrderOfSet ==
    ASSUME NEW S \in SUBSET Node, NEW q \in Orders(S)
    PROVE  /\ q \in Seq(Node)
           /\ \A i, j \in 1..Len(q) : q[i] = q[j] => i = j
           /\ \A m : m \in S <=> \E i \in 1..Len(q) : q[i] = m
           /\ q = <<>> <=> S = {}
  <1> DEFINE k == Cardinality(S)
  <1>1. IsFiniteSet(S) /\ k \in Nat
    BY FiniteNode, FS_Subset, FS_CardinalityType
  <1>2. IsFiniteSet(1..k) /\ Cardinality(1..k) = k
    BY <1>1, FS_Interval
  <1>3. q \in [1..k -> S] /\ \A i, j \in 1..k : i # j => q[i] # q[j]
    BY DEF Orders
  <1>4. q \in Injection(1..k, S)
    BY <1>3 DEF Injection, IsInjective
  <1>5. q \in Surjection(1..k, S)
    BY <1>1, <1>2, <1>4, FS_Injection
  <1>6. \A m \in S : \E i \in 1..k : q[i] = m
    BY <1>5 DEF Surjection
  <1> HIDE DEF k
  <1>7. q \in Seq(Node) /\ Len(q) = k
    BY <1>1, <1>3
  <1>8. \A m : m \in S <=> \E i \in 1..k : q[i] = m
    BY <1>3, <1>6
  <1>9. q = <<>> <=> S = {}
    <2>1. q = <<>> => k = 0
      BY <1>7
    <2>2. k # 0 => 1 \in 1..k
      BY <1>1
    <2>3. q # <<>> => k # 0
      BY <1>7
    <2> QED
      BY <1>1, <1>8, <2>1, <2>2, <2>3
  <1> QED
    BY <1>3, <1>7, <1>8, <1>9

------------------------------------------------------------------------------
(* What the actions have in common.                                           *)

(* The pieces between two SLs stay in order when neither end of their socket  *)
(* moves.                                                                     *)
LEMMA FramingSame ==
    ASSUME NEW n \in Node, NEW m \in Node, Framing(n, m),
           socket'[n][m] = socket[n][m],
           Reads(n, m)' <=> Reads(n, m), Reads(n, m) => reading'[m] = reading[m],
           Writes(n, m)' <=> Writes(n, m), Writes(n, m) => element'[n] = element[n],
           Owned \subseteq Owned'
    PROVE  Framing(n, m)'
  BY DEF Framing

(* A message that was received stays received.                                *)
LEMMA ReceivedAppend ==
    ASSUME TypeOK, NEW n \in Node, NEW e \in Message,
           recvQueue' = [recvQueue EXCEPT ![n] = Append(@, e)]
    PROVE  /\ Received(n)' = Received(n) \union {e}
           /\ \A m \in Node \ {n} : Received(m)' = Received(m)
           /\ recvQueue' \in [Node -> Seq(Message)]
           /\ Owned \subseteq Owned'
  <1>1. recvQueue \in [Node -> Seq(Message)]
    BY DEF TypeOK
  <1>2. recvQueue' \in [Node -> Seq(Message)] /\ recvQueue'[n] = Append(recvQueue[n], e)
    BY <1>1
  <1>3. \A m \in Node \ {n} : recvQueue'[m] = recvQueue[m]
    BY <1>1
  <1>4. \A m \in Node \ {n} : Received(m)' = Received(m)
    BY <1>3 DEF Received
  <1>5. Received(n)' = Received(n) \union {e}
    <2> DEFINE q == recvQueue[n]
               r == recvQueue'[n]
    <2>1. q \in Seq(Message) /\ r = Append(q, e)
      BY <1>1, <1>2
    <2>2. Received(n) = {q[i] : i \in DOMAIN q} /\ Received(n)' = {r[i] : i \in DOMAIN r}
      BY DEF Received
    <2> HIDE DEF q, r
    <2>3. /\ DOMAIN q = 1..Len(q) /\ DOMAIN r = 1..(Len(q) + 1) /\ Len(q) \in Nat
          /\ \A i \in 1..Len(q) : r[i] = q[i]
          /\ r[Len(q) + 1] = e
      BY <2>1
    <2> QED
      BY <2>2, <2>3
  <1>6. Owned \subseteq Owned'
    BY <1>4, <1>5, ElementTypes DEF Owned
  <1> QED
    BY <1>2, <1>4, <1>5, <1>6

(* Who receives nothing has received what he had.                             *)
LEMMA ReceivedSame ==
    ASSUME recvQueue' = recvQueue
    PROVE  Owned' = Owned /\ \A m \in Node : Received(m)' = Received(m)
  <1>1. \A m : Received(m)' = Received(m)
    BY DEF Received
  <1> QED
    BY <1>1 DEF Owned

(* The pieces between n and m become s.                                       *)
Becomes(n, m, s) == socket' = [socket EXCEPT ![n][m] = s]

(* A step that changes one socket leaves all others alone.                    *)
LEMMA SocketUpdate ==
    ASSUME TypeOK, NEW n \in Node, NEW m \in Node, NEW s \in Seq(Piece), Len(s) <= Capacity,
           Becomes(n, m, s)
    PROVE  /\ socket'[n][m] = s
           /\ \A k, l \in Node : k # n \/ l # m => socket'[k][l] = socket[k][l]
           /\ socket' \in [Node -> [Node -> Seq(Piece)]]
           /\ \A k, l \in Node : Len(socket'[k][l]) <= Capacity
  <1>1. socket \in [Node -> [Node -> Seq(Piece)]] /\ \A k, l \in Node : Len(socket[k][l]) <= Capacity
    BY DEF TypeOK
  <1>0. socket' = [socket EXCEPT ![n][m] = s]
    BY DEF Becomes
  <1>2. socket'[n] = [socket[n] EXCEPT ![m] = s] /\ \A k \in Node \ {n} : socket'[k] = socket[k]
    BY <1>0, <1>1
  <1>3. socket'[n][m] = s
    BY <1>1, <1>2
  <1>4. \A k, l \in Node : k # n \/ l # m => socket'[k][l] = socket[k][l]
    BY <1>1, <1>2
  <1>5. socket' \in [Node -> [Node -> Seq(Piece)]]
    BY <1>0, <1>1
  <1> QED
    BY <1>1, <1>3, <1>4, <1>5

(* Enqueueing, dying and doing nothing move no element and no piece.          *)
Still == UNCHANGED <<element, upPeers, half, revents, reading, socket, recvQueue>>

(* Such a step keeps the invariant if it keeps types and queues.              *)
LEMMA StillKeeps ==
    ASSUME IInv, Still, TypeOK', \A n \in Node : QueuesOK(n)'
    PROVE  IInv'
  <1>1. Owned' = Owned /\ \A n \in Node : Received(n)' = Received(n)
    BY ReceivedSame DEF Still
  <1>2. \A n \in Node : SenderOK(n)'
    BY <1>1 DEF IInv, Still, SenderOK
  <1>3. ASSUME NEW n \in Node, NEW m \in Node PROVE Framing(n, m)'
    <2>1. (Reads(n, m)' <=> Reads(n, m)) /\ (Writes(n, m)' <=> Writes(n, m))
      BY DEF Still, Reads, Writes, Slot
    <2> QED
      BY <1>1, <2>1, FramingSame DEF IInv, Still
  <1> QED
    BY <1>1, <1>2, <1>3 DEF IInv, Still

(* A request enters the queue of its own SL.                                  *)
LEMMA ClientRequestKeeps ==
    ASSUME IInv, NEW n \in Node, ClientRequest(n)
    PROVE  IInv' /\ Still
  <1> DEFINE e == [queue |-> "client", from |-> n, seq |-> requested[n] + 1, to |-> Requests[n][requested[n] + 1]]
  <1>1. /\ requested[n] \in Nat /\ requested'[n] = requested[n] + 1
        /\ requested' \in [Node -> Nat] /\ requested[n] < Len(Requests[n])
    BY DEF IInv, TypeOK, ClientRequest
  <1>2. e \in Message /\ e.from = n
    <2>1. Requests[n] \in Seq(SUBSET Node)
      BY WorkAssumption
    <2>2. requested[n] + 1 \in 1..Len(Requests[n])
      BY <1>1, <2>1
    <2> QED
      BY <2>2, ElementTypes
  <1>3. clientQueue' = [clientQueue EXCEPT ![n] = Append(@, e)]
    BY <1>1 DEF ClientRequest
  <1> HIDE DEF e
  <1>4. clientQueue \in [Node -> Seq(Message)]
    BY DEF IInv, TypeOK
  <1>5. /\ clientQueue' \in [Node -> Seq(Message)]
        /\ clientQueue'[n] = Append(clientQueue[n], e)
        /\ \A k \in Node \ {n} : clientQueue'[k] = clientQueue[k]
    BY <1>2, <1>3, <1>4
  <1>6. TypeOK'
    BY <1>1, <1>5 DEF IInv, TypeOK, ClientRequest, listenerVars
  <1>7. Still
    BY DEF Still, ClientRequest, listenerVars
  <1>8. \A k \in Node : QueuesOK(k)'
    <2>1. \A i \in DOMAIN clientQueue'[n] : clientQueue'[n][i].from = n
      <3>1. \A i \in DOMAIN clientQueue[n] : clientQueue[n][i].from = n
        BY DEF IInv, QueuesOK
      <3> QED
        BY <1>2, <1>4, <1>5, <3>1
    <2>2. sendQueue' = sendQueue
      BY DEF ClientRequest
    <2> QED
      BY <1>5, <2>1, <2>2 DEF IInv, QueuesOK
  <1> QED
    BY <1>6, <1>7, <1>8, StillKeeps

(* What the dispatcher sends enters the queue of its own SL.                  *)
LEMMA DispatcherSendKeeps ==
    ASSUME IInv, NEW n \in Node, DispatcherSend(n)
    PROVE  IInv' /\ Still
  <1> DEFINE e == [queue |-> "send", from |-> n, seq |-> sent[n] + 1, to |-> Sends[n][sent[n] + 1]]
  <1>1. /\ sent[n] \in Nat /\ sent'[n] = sent[n] + 1
        /\ sent' \in [Node -> Nat] /\ sent[n] < Len(Sends[n])
    BY DEF IInv, TypeOK, DispatcherSend
  <1>2. e \in Message /\ e.from = n
    <2>1. Sends[n] \in Seq(SUBSET Node)
      BY WorkAssumption
    <2>2. sent[n] + 1 \in 1..Len(Sends[n])
      BY <1>1, <2>1
    <2> QED
      BY <2>2, ElementTypes
  <1>3. sendQueue' = [sendQueue EXCEPT ![n] = Append(@, e)]
    BY <1>1 DEF DispatcherSend
  <1> HIDE DEF e
  <1>4. sendQueue \in [Node -> Seq(Message)]
    BY DEF IInv, TypeOK
  <1>5. /\ sendQueue' \in [Node -> Seq(Message)]
        /\ sendQueue'[n] = Append(sendQueue[n], e)
        /\ \A k \in Node \ {n} : sendQueue'[k] = sendQueue[k]
    BY <1>2, <1>3, <1>4
  <1>6. TypeOK'
    BY <1>1, <1>5 DEF IInv, TypeOK, DispatcherSend, listenerVars
  <1>7. Still
    BY DEF Still, DispatcherSend, listenerVars
  <1>8. \A k \in Node : QueuesOK(k)'
    <2>1. \A i \in DOMAIN sendQueue'[n] : sendQueue'[n][i].from = n
      <3>1. \A i \in DOMAIN sendQueue[n] : sendQueue[n][i].from = n
        BY DEF IInv, QueuesOK
      <3> QED
        BY <1>2, <1>4, <1>5, <3>1
    <2>2. clientQueue' = clientQueue
      BY DEF DispatcherSend
    <2> QED
      BY <1>5, <2>1, <2>2 DEF IInv, QueuesOK
  <1> QED
    BY <1>6, <1>7, <1>8, StillKeeps

(* A death is seen by nobody at once.                                         *)
LEMMA DeadKeeps ==
    ASSUME IInv, NEW n \in Node, WriteToDead(n) \/ Kill(n)
    PROVE  IInv' /\ Still
  <1>1. Still /\ UNCHANGED <<requested, sent, clientQueue, sendQueue>> /\ dead' = dead \union {n}
    BY DEF WriteToDead, Kill, Still, senderVars, listenerVars
  <1>2. TypeOK'
    BY <1>1 DEF IInv, TypeOK, Still
  <1>3. \A k \in Node : QueuesOK(k)'
    BY <1>1 DEF IInv, QueuesOK
  <1> QED
    BY <1>1, <1>2, <1>3, StillKeeps

(* A listener polls when it has read no header.                               *)
LEMMA PollKeeps ==
    ASSUME IInv, NEW n \in Node, Poll(n)
    PROVE  IInv'
  <1>1. /\ revents[n] = {} /\ reading[n] = None
        /\ revents' = [revents EXCEPT ![n] = Readable(n)] /\ Readable(n) \in SUBSET Node
        /\ UNCHANGED <<senderVars, reading, socket, recvQueue, dead>>
    BY DEF IInv, Poll, Readable
  <1>2. TypeOK'
    BY <1>1 DEF IInv, TypeOK, senderVars
  <1>3. revents'[n] = Readable(n) /\ \A k \in Node \ {n} : revents'[k] = revents[k]
    BY <1>1 DEF IInv, TypeOK
  <1>4. Owned' = Owned /\ \A k \in Node : Received(k)' = Received(k)
    BY <1>1, ReceivedSame
  <1>5. \A k \in Node : SenderOK(k)' /\ QueuesOK(k)'
    BY <1>1, <1>4 DEF IInv, senderVars, SenderOK, QueuesOK
  <1>6. ASSUME NEW k \in Node, NEW m \in Node PROVE Framing(k, m)'
    <2>1. Reads(k, m)' <=> Reads(k, m)
      BY <1>1, <1>3 DEF Reads, Slot
    <2>2. Writes(k, m)' <=> Writes(k, m)
      BY <1>1 DEF Writes, senderVars
    <2> QED
      BY <1>1, <1>4, <2>1, <2>2, FramingSame DEF IInv, senderVars
  <1>7. \A k \in Node : reading'[k] # None => revents'[k] # {}
    BY <1>1, <1>3 DEF IInv
  <1> QED
    BY <1>2, <1>4, <1>5, <1>6, <1>7 DEF IInv

(* A piece is appended to them, or the first is taken.                        *)
Put(n, m, p) == socket' = [socket EXCEPT ![n][m] = Append(@, p)]
Drop(n, m) == socket' = [socket EXCEPT ![n][m] = Tail(@)]

(* The sender of n appends the piece where it stands: a payload after the     *)
(* header of the same element, a header after a payload.                      *)
Adds(n, m, p) ==
    /\ Len(socket[n][m]) < Capacity /\ Put(n, m, p)
    /\ p.message = element[n] /\ p.message.from = n /\ p.message \in Owned
    /\ p.part = "payload" <=> Writes(n, m)
    /\ Writes(n, m)' <=> p.part = "header"
    /\ p.part = "header" => element'[n] = element[n]
    /\ Reads(n, m)' <=> Reads(n, m)
    /\ reading' = reading /\ Owned' = Owned

(* It keeps the pieces in order, and completes a message if it is a payload.  *)
LEMMA FramingAppend ==
    ASSUME IInv, NEW n \in Node, NEW m \in Node, NEW p \in Piece, Adds(n, m, p)
    PROVE  /\ Framing(n, m)'
           /\ socket'[n][m] = Append(socket[n][m], p)
           /\ \A k, l \in Node : k # n \/ l # m => socket'[k][l] = socket[k][l]
           /\ socket' \in [Node -> [Node -> Seq(Piece)]]
           /\ \A k, l \in Node : Len(socket'[k][l]) <= Capacity
           /\ p.part = "header" => Whole(socket'[n][m]) = Whole(socket[n][m])
           /\ p.part = "payload" => Whole(socket'[n][m]) = Append(Whole(socket[n][m]), element[n])
  <1> USE DEF Adds
  <1> DEFINE q == socket[n][m]
             r == socket'[n][m]
  <1>1. q \in Seq(Piece) /\ TypeOK /\ Framing(n, m) /\ socket \in [Node -> [Node -> Seq(Piece)]]
    <2>1. TypeOK /\ Framing(n, m)
      BY DEF IInv
    <2>2. socket \in [Node -> [Node -> Seq(Piece)]]
      BY <2>1 DEF TypeOK
    <2> QED
      BY <2>1, <2>2
  <1>2. /\ Append(q, p) \in Seq(Piece) /\ Len(Append(q, p)) <= Capacity
        /\ Becomes(n, m, Append(q, p))
    BY <1>1, CapacityAssumption DEF Put, Becomes
  <1>3. /\ r = Append(q, p)
        /\ \A k, l \in Node : k # n \/ l # m => socket'[k][l] = socket[k][l]
        /\ socket' \in [Node -> [Node -> Seq(Piece)]]
        /\ \A k, l \in Node : Len(socket'[k][l]) <= Capacity
    <2>1. PICK t \in Seq(Piece) : t = Append(q, p)
      BY <1>2
    <2>2. Len(t) <= Capacity /\ Becomes(n, m, t)
      BY <1>2, <2>1
    <2> HIDE DEF q, r
    <2>3. /\ socket'[n][m] = t
          /\ \A k, l \in Node : k # n \/ l # m => socket'[k][l] = socket[k][l]
          /\ socket' \in [Node -> [Node -> Seq(Piece)]]
          /\ \A k, l \in Node : Len(socket'[k][l]) <= Capacity
      BY <1>1, <2>2, SocketUpdate
    <2> QED
      BY <2>1, <2>3 DEF r
  <1>4. /\ Alternates(q)
        /\ \A i \in 1..Len(q) : q[i].message.from = n /\ q[i].message \in Owned
        /\ \A i \in 1..(Len(q) - 1) : q[i].part = "header" => q[i + 1].message = q[i].message
        /\ q # <<>> => /\ Reads(n, m) <=> q[1].part = "payload"
                       /\ Reads(n, m) => q[1].message = reading[m]
                       /\ Writes(n, m) <=> q[Len(q)].part = "header"
                       /\ Writes(n, m) => q[Len(q)].message = element[n]
        /\ q = <<>> => /\ Reads(n, m) <=> Writes(n, m)
                       /\ Reads(n, m) => reading[m] = element[n]
    BY <1>1 DEF Framing
  <1>5. p.part \in {"header", "payload"}
    BY DEF Piece
  <1> HIDE DEF q, r
  <1>6. q # <<>> => p.part # q[Len(q)].part
    BY <1>4, <1>5
  <1>7. /\ Alternates(r)
        /\ p.part = "header" => Whole(r) = Whole(q)
        /\ p.part = "payload" => Whole(r) = Append(Whole(q), element[n])
    BY <1>1, <1>3, <1>4, <1>6, WholeAppend
  <1>8. /\ Len(q) \in Nat /\ Len(r) = Len(q) + 1 /\ r[Len(r)] = p /\ r # <<>>
        /\ \A i \in 1..Len(q) : r[i] = q[i]
        /\ q # <<>> <=> Len(q) # 0
    <2>1. q # <<>> <=> Len(q) # 0
      BY <1>1
    <2>2. r = Append(q, p)
      BY <1>3
    <2>3. Len(q) \in Nat /\ Len(r) = Len(q) + 1 /\ \A i \in 1..Len(q) : r[i] = q[i]
      BY <1>1, <2>2
    <2>4. r[Len(q) + 1] = p
      BY <1>1, <2>2
    <2>5. r # <<>>
      <3>1. Len(r) # 0
        BY <2>3
      <3> QED
        BY <3>1
    <2> QED
      BY <2>1, <2>3, <2>4, <2>5
  <1>9. \A i \in 1..Len(r) : r[i].message.from = n /\ r[i].message \in Owned'
    <2>1. \A i \in 1..Len(r) : i \in 1..Len(q) \/ i = Len(r)
      BY <1>8
    <2> QED
      BY <1>4, <1>8, <2>1
  <1>10. \A i \in 1..(Len(r) - 1) : r[i].part = "header" => r[i + 1].message = r[i].message
    <2> SUFFICES ASSUME NEW i \in 1..Len(q), q[i].part = "header"
                 PROVE  r[i + 1].message = q[i].message
      BY <1>8
    <2>1. CASE i = Len(q)
      <3>1. q # <<>> /\ Writes(n, m) /\ q[Len(q)].message = element[n]
        BY <1>4, <1>8, <2>1
      <3> QED
        BY <1>8, <2>1, <3>1
    <2>2. CASE i \in 1..(Len(q) - 1)
      BY <1>4, <1>8, <2>2
    <2> QED
      BY <1>8, <2>1, <2>2
  <1>11. /\ Reads(n, m)' <=> r[1].part = "payload"
         /\ Reads(n, m)' => r[1].message = reading'[m]
    <2>1. CASE q = <<>>
      <3>1. r[1] = p
        BY <1>8, <2>1
      <3> QED
        BY <1>4, <1>5, <2>1, <3>1
    <2>2. CASE q # <<>>
      <3>1. r[1] = q[1]
        BY <1>8, <2>2
      <3> QED
        BY <1>4, <2>2, <3>1
    <2> QED
      BY <2>1, <2>2
  <1>12. /\ Writes(n, m)' <=> r[Len(r)].part = "header"
         /\ Writes(n, m)' => r[Len(r)].message = element'[n]
    BY <1>8
  <1>13. Framing(n, m)'
    BY <1>7, <1>8, <1>9, <1>10, <1>11, <1>12 DEF Framing, r
  <1> QED
    BY <1>3, <1>7, <1>13 DEF q, r

(* A piece that is taken where the listener of m stands.                      *)
Takes(n, m) ==
    /\ socket[n][m] # <<>> /\ Drop(n, m)
    /\ Reads(n, m)' <=> socket[n][m][1].part = "header"
    /\ Reads(n, m)' => reading'[m] = socket[n][m][1].message
    /\ Writes(n, m)' <=> Writes(n, m)
    /\ element' = element /\ Owned \subseteq Owned'

(* It keeps the pieces in order, and takes a message away if it is a payload. *)
LEMMA FramingTail ==
    ASSUME IInv, NEW n \in Node, NEW m \in Node, Takes(n, m)
    PROVE  /\ Framing(n, m)'
           /\ \A k, l \in Node : k # n \/ l # m => socket'[k][l] = socket[k][l]
           /\ socket' \in [Node -> [Node -> Seq(Piece)]]
           /\ \A k, l \in Node : Len(socket'[k][l]) <= Capacity
           /\ ~Reads(n, m) => Whole(socket'[n][m]) = Whole(socket[n][m])
           /\ Reads(n, m) => /\ Whole(socket[n][m]) # <<>>
                             /\ Head(Whole(socket[n][m])) = socket[n][m][1].message
                             /\ Whole(socket'[n][m]) = Tail(Whole(socket[n][m]))
           /\ Reads(n, m) <=> socket[n][m][1].part = "payload"
           /\ socket[n][m][1] \in Piece
           /\ socket[n][m][1].message \in Owned
           /\ Reads(n, m) => socket[n][m][1].message = reading[m]
  <1> USE DEF Takes
  <1> DEFINE q == socket[n][m]
             r == socket'[n][m]
  <1>1. q \in Seq(Piece) /\ TypeOK /\ Framing(n, m) /\ socket \in [Node -> [Node -> Seq(Piece)]]
    <2>1. TypeOK /\ Framing(n, m)
      BY DEF IInv
    <2>2. socket \in [Node -> [Node -> Seq(Piece)]]
      BY <2>1 DEF TypeOK
    <2> QED
      BY <2>1, <2>2
  <1>2. /\ Tail(q) \in Seq(Piece) /\ Len(Tail(q)) <= Capacity
        /\ Becomes(n, m, Tail(q))
    <2>1. Len(q) <= Capacity
      BY DEF IInv, TypeOK
    <2> QED
      BY <1>1, <2>1, CapacityAssumption DEF Drop, Becomes
  <1>3. /\ r = Tail(q)
        /\ \A k, l \in Node : k # n \/ l # m => socket'[k][l] = socket[k][l]
        /\ socket' \in [Node -> [Node -> Seq(Piece)]]
        /\ \A k, l \in Node : Len(socket'[k][l]) <= Capacity
    <2>1. PICK t \in Seq(Piece) : t = Tail(q)
      BY <1>2
    <2>2. Len(t) <= Capacity /\ Becomes(n, m, t)
      BY <1>2, <2>1
    <2> HIDE DEF q, r
    <2>3. /\ socket'[n][m] = t
          /\ \A k, l \in Node : k # n \/ l # m => socket'[k][l] = socket[k][l]
          /\ socket' \in [Node -> [Node -> Seq(Piece)]]
          /\ \A k, l \in Node : Len(socket'[k][l]) <= Capacity
      BY <1>1, <2>2, SocketUpdate
    <2> QED
      BY <2>1, <2>3 DEF r
  <1>4. /\ Alternates(q)
        /\ \A i \in 1..Len(q) : q[i].message.from = n /\ q[i].message \in Owned
        /\ \A i \in 1..(Len(q) - 1) : q[i].part = "header" => q[i + 1].message = q[i].message
        /\ Reads(n, m) <=> q[1].part = "payload"
        /\ Reads(n, m) => q[1].message = reading[m]
        /\ Writes(n, m) <=> q[Len(q)].part = "header"
        /\ Writes(n, m) => q[Len(q)].message = element[n]
    BY <1>1 DEF Framing
  <1>5. 1 \in 1..Len(q) /\ Len(q) \in Nat
    BY <1>1
  <1>6. q[1] \in Piece
    BY <1>1, <1>5
  <1>7. q[1].part \in {"header", "payload"}
    BY <1>6 DEF Piece
  <1>8. q # <<>>
    OBVIOUS
  <1> HIDE DEF q, r
  <1>9. /\ Len(r) = Len(q) - 1
        /\ \A i \in 1..(Len(q) - 1) : r[i] = q[i + 1]
        /\ Alternates(r)
        /\ r # <<>> => (r[1].part = "payload" <=> q[1].part = "header")
        /\ q[1].part = "header" => Whole(r) = Whole(q)
        /\ q[1].part = "payload" => /\ Whole(q) # <<>> /\ Head(Whole(q)) = q[1].message
                                    /\ Whole(r) = Tail(Whole(q))
    BY <1>1, <1>3, <1>4, <1>8, WholeTail
  <1>10. \A i \in 1..Len(r) : r[i].message.from = n /\ r[i].message \in Owned'
    BY <1>4, <1>5, <1>9
  <1>11. \A i \in 1..(Len(r) - 1) : r[i].part = "header" => r[i + 1].message = r[i].message
    BY <1>4, <1>5, <1>9
  <1>12. r # <<>> => /\ Reads(n, m)' <=> r[1].part = "payload"
                     /\ Reads(n, m)' => r[1].message = reading'[m]
                     /\ Writes(n, m)' <=> r[Len(r)].part = "header"
                     /\ Writes(n, m)' => r[Len(r)].message = element'[n]
    <2> SUFFICES ASSUME r # <<>>
                 PROVE  /\ Reads(n, m)' <=> r[1].part = "payload"
                        /\ Reads(n, m)' => r[1].message = reading'[m]
                        /\ Writes(n, m)' <=> r[Len(r)].part = "header"
                        /\ Writes(n, m)' => r[Len(r)].message = element'[n]
      OBVIOUS
    <2>1. Len(q) - 1 >= 1 /\ r[1] = q[2] /\ r[Len(r)] = q[Len(q)]
      <3>1. Len(r) # 0
        BY <1>2, <1>3
      <3> QED
        BY <1>5, <1>9, <3>1
    <2>2. q[1].part = "header" => q[2].message = q[1].message
      <3>1. 1 \in 1..(Len(q) - 1)
        BY <1>5, <2>1
      <3> QED
        BY <1>4, <3>1
    <2>3. Reads(n, m)' => reading'[m] = q[1].message
      BY DEF q
    <2>4. Reads(n, m)' <=> q[1].part = "header"
      BY DEF q
    <2> QED
      BY <1>4, <1>9, <2>1, <2>2, <2>3, <2>4
  <1>13. r = <<>> => /\ Reads(n, m)' <=> Writes(n, m)'
                     /\ Reads(n, m)' => reading'[m] = element'[n]
    <2> SUFFICES ASSUME r = <<>>
                 PROVE  /\ Reads(n, m)' <=> Writes(n, m)'
                        /\ Reads(n, m)' => reading'[m] = element'[n]
      OBVIOUS
    <2>1. Len(q) = 1
      BY <1>5, <1>9
    <2>2. (Reads(n, m)' <=> q[1].part = "header") /\ (Reads(n, m)' => reading'[m] = q[1].message)
      BY DEF q
    <2> QED
      BY <1>4, <2>1, <2>2
  <1>14. Framing(n, m)'
    BY <1>9, <1>10, <1>11, <1>12, <1>13 DEF Framing, r
  <1>15. Reads(n, m) \/ q[1].part = "header"
    BY <1>4, <1>7
  <1>16. q[1].message \in Owned
    BY <1>4, <1>5
  <1> QED
    BY <1>3, <1>4, <1>6, <1>9, <1>14, <1>15, <1>16 DEF q, r

------------------------------------------------------------------------------
(* The actions that move an element or a piece.                               *)

(* A step that the channels do not see.                                       *)
Same == \A k, m \in Node : OnTheWay(k, m)' = OnTheWay(k, m)

(* What is on its way depends on the socket, the element and its receivers.   *)
LEMMA OnTheWaySame ==
    ASSUME NEW k \in Node, NEW m \in Node,
           Whole(socket'[k][m]) = Whole(socket[k][m]),
           upPeers'[k] = upPeers[k], element'[k] = element[k]
    PROVE  OnTheWay(k, m)' = OnTheWay(k, m)
  BY DEF OnTheWay, ToWrite

(* A sender with an element has a receiver to write to.                       *)
LEMMA FirstPeer ==
    ASSUME IInv, NEW n \in Node, element[n] # None
    PROVE  /\ upPeers[n] \in Seq(Node) /\ upPeers[n] # <<>>
           /\ Head(upPeers[n]) = upPeers[n][1] /\ Head(upPeers[n]) \in Node
           /\ Len(upPeers[n]) \in Nat \ {0}
           /\ element[n] \in Owned /\ element[n] \in Message /\ element[n].from = n
  <1>1. upPeers[n] \in Seq(Node) /\ upPeers[n] # <<>>
    BY DEF IInv, TypeOK, SenderOK
  <1>2. element[n] \in Owned /\ element[n].from = n /\ element[n] \in Message
    BY DEF IInv, SenderOK, Owned
  <1> QED
    BY <1>1, <1>2

(* Writing a header sends nothing new.                                        *)
LEMMA WriteHeaderKeeps ==
    ASSUME IInv, NEW n \in Node, WriteHeader(n)
    PROVE  IInv' /\ Same /\ recvQueue' = recvQueue
  <1>0. element[n] # None /\ [message |-> element[n], part |-> "header"] \in Piece
    <2>1. element[n] # None
      BY DEF WriteHeader, HasRoom
    <2> QED
      BY <2>1, FirstPeer DEF Piece
  <1> PICK h \in Node : h = Head(upPeers[n])
    BY <1>0, FirstPeer
  <1> PICK p \in Piece : p = [message |-> element[n], part |-> "header"]
    BY <1>0
  <1>1. /\ element[n] # None /\ Len(socket[n][h]) < Capacity /\ ~half[n]
        /\ Put(n, h, p)
        /\ half' = [half EXCEPT ![n] = TRUE]
        /\ UNCHANGED <<requested, sent, clientQueue, sendQueue, element, upPeers, revents, reading,
                       recvQueue, dead>>
    BY DEF WriteHeader, HasRoom, Write, Put, listenerVars
  <1>2. /\ element[n] \in Owned /\ element[n] \in Message /\ element[n].from = n
    BY <1>1, FirstPeer
  <1>3. p.message = element[n] /\ p.part = "header"
    OBVIOUS
  <1>4. Owned' = Owned /\ \A k \in Node : Received(k)' = Received(k)
    BY <1>1, ReceivedSame
  <1>5. /\ half' \in [Node -> BOOLEAN] /\ half'[n] /\ \A k \in Node \ {n} : half'[k] = half[k]
    BY <1>1 DEF IInv, TypeOK
  <1>6. \A k, m \in Node : Reads(k, m)' <=> Reads(k, m)
    BY <1>1 DEF Reads, Slot
  <1>7. \A k, m \in Node : k # n \/ m # h => (Writes(k, m)' <=> Writes(k, m))
    BY <1>1, <1>5 DEF Writes
  <1>8. ~Writes(n, h) /\ Writes(n, h)'
    BY <1>1, <1>5 DEF Writes
  <1>adds. Adds(n, h, p)
    BY <1>1, <1>2, <1>3, <1>4, <1>6, <1>8 DEF Adds
  <1>9. /\ Framing(n, h)'
        /\ \A k, l \in Node : k # n \/ l # h => socket'[k][l] = socket[k][l]
        /\ socket' \in [Node -> [Node -> Seq(Piece)]]
        /\ \A k, l \in Node : Len(socket'[k][l]) <= Capacity
        /\ Whole(socket'[n][h]) = Whole(socket[n][h])
    <2>1. /\ Framing(n, h)'
          /\ \A k, l \in Node : k # n \/ l # h => socket'[k][l] = socket[k][l]
          /\ socket' \in [Node -> [Node -> Seq(Piece)]]
          /\ \A k, l \in Node : Len(socket'[k][l]) <= Capacity
          /\ p.part = "header" => Whole(socket'[n][h]) = Whole(socket[n][h])
          /\ p.part = "payload" => Whole(socket'[n][h]) = Append(Whole(socket[n][h]), element[n])
      BY <1>adds, FramingAppend
    <2> QED
      BY <1>3, <2>1
  <1>10. \A k, m \in Node : Framing(k, m)'
    <2> SUFFICES ASSUME NEW k \in Node, NEW m \in Node, k # n \/ m # h
                 PROVE  Framing(k, m)'
      BY <1>9
    <2> QED
      BY <1>1, <1>4, <1>6, <1>7, <1>9, FramingSame DEF IInv
  <1>11. TypeOK'
    BY <1>1, <1>5, <1>9 DEF IInv, TypeOK
  <1>12. \A k \in Node : QueuesOK(k)' /\ SenderOK(k)'
    BY <1>1, <1>4, <1>5 DEF IInv, QueuesOK, SenderOK
  <1>13. Same
    <2> SUFFICES ASSUME NEW k \in Node, NEW m \in Node PROVE OnTheWay(k, m)' = OnTheWay(k, m)
      BY DEF Same
    <2>1. Whole(socket'[k][m]) = Whole(socket[k][m])
      BY <1>9
    <2> QED
      BY <1>1, <2>1, OnTheWaySame
  <1> QED
    BY <1>1, <1>4, <1>10, <1>11, <1>12, <1>13 DEF IInv

(* Writing a payload moves a message from the sender into the socket.         *)
LEMMA WritePayloadKeeps ==
    ASSUME IInv, NEW n \in Node, WritePayload(n)
    PROVE  IInv' /\ Same /\ recvQueue' = recvQueue
  <1>0. element[n] # None /\ [message |-> element[n], part |-> "payload"] \in Piece
    <2>1. element[n] # None
      BY DEF WritePayload, HasRoom
    <2> QED
      BY <2>1, FirstPeer DEF Piece
  <1> PICK u \in Seq(Node) : u = upPeers[n]
    BY <1>0, FirstPeer
  <1> PICK h \in Node : h = Head(u)
    BY <1>0, FirstPeer
  <1> PICK p \in Piece : p = [message |-> element[n], part |-> "payload"]
    BY <1>0
  <1>1. /\ element[n] # None /\ Len(socket[n][h]) < Capacity /\ half[n]
        /\ Put(n, h, p)
        /\ half' = [half EXCEPT ![n] = FALSE]
        /\ upPeers' = [upPeers EXCEPT ![n] = Tail(u)]
        /\ element' = [element EXCEPT ![n] = IF Len(u) = 1 THEN None ELSE element[n]]
        /\ UNCHANGED <<requested, sent, clientQueue, sendQueue, revents, reading, recvQueue, dead>>
    <2>1. TypeOK
      BY DEF IInv
    <2> QED
      BY <2>1 DEF WritePayload, HasRoom, Write, Put, listenerVars, TypeOK
  <1>2. /\ element[n] \in Owned /\ element[n] \in Message /\ element[n].from = n
        /\ h = u[1] /\ Len(u) \in Nat \ {0} /\ u # <<>>
    BY <1>1, FirstPeer
  <1>3. p.message = element[n] /\ p.part = "payload"
    OBVIOUS
  <1>4. Owned' = Owned /\ \A k \in Node : Received(k)' = Received(k)
    BY <1>1, ReceivedSame
  <1>5. /\ half' \in [Node -> BOOLEAN] /\ ~half'[n] /\ \A k \in Node \ {n} : half'[k] = half[k]
        /\ upPeers'[n] = Tail(u) /\ \A k \in Node \ {n} : upPeers'[k] = upPeers[k]
        /\ \A k \in Node \ {n} : element'[k] = element[k]
        /\ element'[n] = IF Len(u) = 1 THEN None ELSE element[n]
    BY <1>1 DEF IInv, TypeOK
  <1>6. \A i, j \in 1..Len(u) : u[i] = u[j] => i = j
    BY DEF IInv, SenderOK
  <1>7. upPeers' \in [Node -> Seq(Node)] /\ element' \in [Node -> Message \union {None}]
    <2>1. upPeers \in [Node -> Seq(Node)] /\ element \in [Node -> Message \union {None}]
      BY DEF IInv, TypeOK
    <2>2. Tail(u) \in Seq(Node)
      BY <1>2
    <2> QED
      BY <1>1, <1>2, <2>1, <2>2
  <1>8. \A k, m \in Node : Reads(k, m)' <=> Reads(k, m)
    BY <1>1 DEF Reads, Slot
  <1>9. \A k, m \in Node : k # n => (Writes(k, m)' <=> Writes(k, m))
    BY <1>5 DEF Writes
  <1>10. /\ \A m \in Node : ~Writes(n, m)'
         /\ \A m \in Node : Writes(n, m) <=> m = h
    BY <1>1, <1>5 DEF Writes
  <1>adds. Adds(n, h, p)
    BY <1>1, <1>2, <1>3, <1>4, <1>8, <1>10 DEF Adds
  <1>11. /\ Framing(n, h)'
         /\ \A k, l \in Node : k # n \/ l # h => socket'[k][l] = socket[k][l]
         /\ socket' \in [Node -> [Node -> Seq(Piece)]]
         /\ \A k, l \in Node : Len(socket'[k][l]) <= Capacity
         /\ Whole(socket'[n][h]) = Append(Whole(socket[n][h]), element[n])
    <2>1. /\ Framing(n, h)'
          /\ \A k, l \in Node : k # n \/ l # h => socket'[k][l] = socket[k][l]
          /\ socket' \in [Node -> [Node -> Seq(Piece)]]
          /\ \A k, l \in Node : Len(socket'[k][l]) <= Capacity
          /\ p.part = "header" => Whole(socket'[n][h]) = Whole(socket[n][h])
          /\ p.part = "payload" => Whole(socket'[n][h]) = Append(Whole(socket[n][h]), element[n])
      BY <1>adds, FramingAppend
    <2> QED
      BY <1>3, <2>1
  <1>12. \A k, m \in Node : Framing(k, m)'
    <2> SUFFICES ASSUME NEW k \in Node, NEW m \in Node, k # n \/ m # h
                 PROVE  Framing(k, m)'
      BY <1>11
    <2>1. (Writes(k, m)' <=> Writes(k, m)) /\ (Writes(k, m) => element'[k] = element[k])
      BY <1>5, <1>9, <1>10
    <2> QED
      BY <1>1, <1>4, <1>8, <1>11, <2>1, FramingSame DEF IInv
  <1>13. TypeOK'
    BY <1>1, <1>5, <1>7, <1>11 DEF IInv, TypeOK
  <1>14. \A k \in Node : QueuesOK(k)'
    BY <1>1 DEF IInv, QueuesOK
  <1>15. /\ Tail(u) \in Seq(Node) /\ Len(Tail(u)) = Len(u) - 1
         /\ \A i \in 1..(Len(u) - 1) : Tail(u)[i] = u[i + 1]
         /\ Tail(u) = <<>> <=> Len(u) = 1
    <2>1. Tail(u) \in Seq(Node) /\ Len(Tail(u)) = Len(u) - 1
          /\ \A i \in 1..(Len(u) - 1) : Tail(u)[i] = u[i + 1]
      BY <1>2
    <2>2. \A t \in Seq(Node) : t = <<>> <=> Len(t) = 0
      OBVIOUS
    <2>3. Tail(u) = <<>> <=> Len(Tail(u)) = 0
      BY <2>1, <2>2
    <2> QED
      BY <1>2, <2>1, <2>3
  <1>16. SenderOK(n)'
    <2>1. \A i, j \in 1..Len(Tail(u)) : Tail(u)[i] = Tail(u)[j] => i = j
      BY <1>2, <1>6, <1>15
    <2>2. half'[n] = FALSE /\ upPeers'[n] = Tail(u) /\ Owned' = Owned
      BY <1>4, <1>5
    <2>3. element'[n] = None <=> upPeers'[n] = <<>>
      BY <1>1, <1>5, <1>15
    <2>4. element'[n] # None => element'[n].from = n /\ element'[n] \in Owned'
      BY <1>2, <1>4, <1>5
    <2> QED
      BY <2>1, <2>2, <2>3, <2>4 DEF SenderOK
  <1>17. \A k \in Node \ {n} : SenderOK(k)'
    BY <1>4, <1>5 DEF IInv, SenderOK
  <1>18. ASSUME NEW m \in Node PROVE OnTheWay(n, m)' = OnTheWay(n, m)
    <2>1. ToWrite(n, m) <=> \E i \in 1..Len(u) : u[i] = m
      BY <1>2 DEF ToWrite
    <2>2. ToWrite(n, m)' <=> \E i \in 1..(Len(u) - 1) : u[i + 1] = m
      <3>1. DOMAIN Tail(u) = 1..(Len(u) - 1) /\ upPeers'[n] = Tail(u)
        BY <1>5, <1>15
      <3>2. ToWrite(n, m)' <=> \E i \in DOMAIN Tail(u) : Tail(u)[i] = m
        BY <3>1 DEF ToWrite
      <3> QED
        BY <1>15, <3>1, <3>2
    <2>3. CASE m = h
      <3>1. ToWrite(n, m)
        BY <1>2, <2>1, <2>3
      <3>2. ~ToWrite(n, m)'
        BY <1>2, <1>6, <2>2, <2>3
      <3> QED
        BY <1>11, <2>3, <3>1, <3>2 DEF OnTheWay
    <2>4. CASE m # h
      <3>1. ToWrite(n, m)' <=> ToWrite(n, m)
        <4>1. ASSUME NEW i \in 1..Len(u), u[i] = m PROVE \E j \in 1..(Len(u) - 1) : u[j + 1] = m
          <5>1. i - 1 \in 1..(Len(u) - 1) /\ i - 1 + 1 = i
            BY <1>2, <2>4, <4>1
          <5> QED
            BY <4>1, <5>1
        <4>2. ASSUME NEW j \in 1..(Len(u) - 1), u[j + 1] = m PROVE \E i \in 1..Len(u) : u[i] = m
          <5>1. j + 1 \in 1..Len(u)
            BY <1>2
          <5> QED
            BY <4>2, <5>1
        <4> QED
          BY <2>1, <2>2, <4>1, <4>2
      <3>2. ToWrite(n, m)' => element'[n] = element[n]
        BY <1>2, <1>5, <2>2
      <3>3. socket'[n][m] = socket[n][m]
        BY <1>11, <2>4
      <3> QED
        BY <3>1, <3>2, <3>3 DEF OnTheWay
    <2> QED
      BY <2>3, <2>4
  <1>19. ASSUME NEW k \in Node \ {n}, NEW m \in Node PROVE OnTheWay(k, m)' = OnTheWay(k, m)
    BY <1>5, <1>11, OnTheWaySame
  <1>20. Same
    BY <1>18, <1>19 DEF Same
  <1> QED
    BY <1>1, <1>4, <1>12, <1>13, <1>14, <1>16, <1>17, <1>20 DEF IInv

(* Reading a header delivers nothing yet.                                     *)
LEMMA ReadHeaderKeeps ==
    ASSUME IInv, NEW n \in Node, ReadHeader(n)
    PROVE  IInv' /\ Same /\ recvQueue' = recvQueue
  <1>1. revents[n] # {} /\ reading[n] = None /\ Slot(n) \in Node
    BY SlotReady DEF IInv, ReadHeader
  <1> PICK m \in Node : m = Slot(n)
    BY <1>1
  <1>2. /\ socket[m][n] # <<>> /\ Drop(m, n)
        /\ reading' = [reading EXCEPT ![n] = Head(socket[m][n]).message]
        /\ UNCHANGED <<senderVars, revents, recvQueue, dead>>
    BY DEF ReadHeader, Drop
  <1> PICK q \in Seq(Piece) : q = socket[m][n]
    BY DEF IInv, TypeOK
  <1>3. q # <<>> /\ Head(q) = q[1] /\ 1 \in 1..Len(q) /\ q[1] \in Piece
    <2>1. q # <<>> /\ Head(q) = q[1] /\ 1 \in 1..Len(q)
      BY <1>2
    <2> QED
      BY <2>1
  <1>4. q[1].message \in Message /\ q[1].message # None
    BY <1>3, ElementTypes DEF Piece
  <1>5. /\ reading'[n] = q[1].message /\ \A k \in Node \ {n} : reading'[k] = reading[k]
        /\ reading' \in [Node -> Message \union {None}]
    <2>1. reading \in [Node -> Message \union {None}]
      BY DEF IInv, TypeOK
    <2> QED
      BY <1>2, <1>3, <1>4, <2>1
  <1>6. Owned' = Owned /\ \A k \in Node : Received(k)' = Received(k)
    BY <1>2, ReceivedSame
  <1>7. \A k, l \in Node : Writes(k, l)' <=> Writes(k, l)
    BY <1>2 DEF Writes, senderVars
  <1>8. /\ \A k, l \in Node : l # n => (Reads(k, l)' <=> Reads(k, l))
        /\ \A k \in Node : ~Reads(k, n)
        /\ \A k \in Node : Reads(k, n)' <=> k = m
    BY <1>1, <1>2, <1>4, <1>5 DEF Reads, Slot
  <1>9. Framing(m, n)
    BY DEF IInv
  <1>10. q[1].part = "header"
    <2>1. q[1].part # "payload"
      BY <1>3, <1>8, <1>9 DEF Framing
    <2> QED
      BY <1>3, <2>1 DEF Piece
  <1>11. Takes(m, n)
    BY <1>2, <1>3, <1>5, <1>6, <1>7, <1>8, <1>10 DEF Takes, senderVars
  <1>12. /\ Framing(m, n)'
         /\ \A k, l \in Node : k # m \/ l # n => socket'[k][l] = socket[k][l]
         /\ socket' \in [Node -> [Node -> Seq(Piece)]]
         /\ \A k, l \in Node : Len(socket'[k][l]) <= Capacity
         /\ Whole(socket'[m][n]) = Whole(socket[m][n])
    BY <1>8, <1>11, FramingTail
  <1>13. \A k, l \in Node : Framing(k, l)'
    <2> SUFFICES ASSUME NEW k \in Node, NEW l \in Node, k # m \/ l # n
                 PROVE  Framing(k, l)'
      BY <1>12
    <2>1. /\ Framing(k, l) /\ socket'[k][l] = socket[k][l]
          /\ Reads(k, l)' <=> Reads(k, l)
          /\ Reads(k, l) => reading'[l] = reading[l]
      BY <1>5, <1>8, <1>12 DEF IInv
    <2>2. element' = element
      BY <1>2 DEF senderVars
    <2> QED
      BY <1>6, <1>7, <2>1, <2>2, FramingSame
  <1>14. TypeOK'
    BY <1>2, <1>5, <1>12 DEF IInv, TypeOK, senderVars
  <1>15. \A k \in Node : QueuesOK(k)' /\ SenderOK(k)'
    BY <1>2, <1>6 DEF IInv, QueuesOK, SenderOK, senderVars
  <1>16. Same
    <2> SUFFICES ASSUME NEW k \in Node, NEW l \in Node PROVE OnTheWay(k, l)' = OnTheWay(k, l)
      BY DEF Same
    <2>1. Whole(socket'[k][l]) = Whole(socket[k][l])
      BY <1>12
    <2>2. upPeers' = upPeers /\ element' = element
      BY <1>2 DEF senderVars
    <2> QED
      BY <2>1, <2>2, OnTheWaySame
  <1>17. \A k \in Node : reading'[k] # None => revents'[k] # {}
    BY <1>1, <1>2, <1>5 DEF IInv
  <1> QED
    BY <1>2, <1>6, <1>13, <1>14, <1>15, <1>16, <1>17 DEF IInv

(* Reading a payload delivers the first message of one channel.               *)
LEMMA ReadPayloadKeeps ==
    ASSUME IInv, NEW n \in Node, ReadPayload(n)
    PROVE  /\ IInv'
           /\ \E m \in Node :
                 /\ OnTheWay(m, n) # <<>>
                 /\ recvQueue' = [recvQueue EXCEPT ![n] = Append(@, Head(OnTheWay(m, n)))]
                 /\ OnTheWay(m, n)' = Tail(OnTheWay(m, n))
                 /\ \A k, l \in Node : k # m \/ l # n => OnTheWay(k, l)' = OnTheWay(k, l)
  <1>1. revents[n] # {} /\ reading[n] # None /\ Slot(n) \in Node
    BY SlotReady DEF IInv, ReadPayload
  <1> PICK m \in Node : m = Slot(n)
    BY <1>1
  <1>2. /\ socket[m][n] # <<>> /\ Drop(m, n)
        /\ recvQueue' = [recvQueue EXCEPT ![n] = Append(@, Head(socket[m][n]).message)]
        /\ revents' = [revents EXCEPT ![n] = @ \ {m}]
        /\ reading' = [reading EXCEPT ![n] = None]
        /\ UNCHANGED <<senderVars, dead>>
    BY DEF ReadPayload, PayloadSlot, Drop
  <1> PICK q \in Seq(Piece) : q = socket[m][n]
    BY DEF IInv, TypeOK
  <1>3. q # <<>> /\ Head(q) = q[1] /\ 1 \in 1..Len(q) /\ q[1] \in Piece
    <2>1. q # <<>> /\ Head(q) = q[1] /\ 1 \in 1..Len(q)
      BY <1>2
    <2> QED
      BY <2>1
  <1> PICK e \in Message : e = q[1].message
    BY <1>3 DEF Piece
  <1>4. recvQueue' = [recvQueue EXCEPT ![n] = Append(@, e)]
    BY <1>2, <1>3
  <1>5. /\ Received(n)' = Received(n) \union {e}
        /\ \A k \in Node \ {n} : Received(k)' = Received(k)
        /\ recvQueue' \in [Node -> Seq(Message)]
        /\ Owned \subseteq Owned'
    BY <1>4, ReceivedAppend DEF IInv
  <1>6. /\ reading'[n] = None /\ \A k \in Node \ {n} : reading'[k] = reading[k]
        /\ reading' \in [Node -> Message \union {None}]
        /\ revents' \in [Node -> SUBSET Node]
        /\ \A k \in Node \ {n} : revents'[k] = revents[k]
    <2>1. reading \in [Node -> Message \union {None}] /\ revents \in [Node -> SUBSET Node]
      BY DEF IInv, TypeOK
    <2> QED
      BY <1>2, <2>1
  <1>7. \A k, l \in Node : Writes(k, l)' <=> Writes(k, l)
    BY <1>2 DEF Writes, senderVars
  <1>8. /\ \A k, l \in Node : l # n => (Reads(k, l)' <=> Reads(k, l))
        /\ \A k \in Node : ~Reads(k, n)'
        /\ \A k \in Node : Reads(k, n) <=> k = m
    BY <1>1, <1>6 DEF Reads, Slot
  <1>9. Framing(m, n)
    BY DEF IInv
  <1>10. q[1].part = "payload"
    BY <1>3, <1>8, <1>9 DEF Framing
  <1>11. Takes(m, n)
    BY <1>2, <1>3, <1>5, <1>7, <1>8, <1>10 DEF Takes, senderVars
  <1>12. /\ Framing(m, n)'
         /\ \A k, l \in Node : k # m \/ l # n => socket'[k][l] = socket[k][l]
         /\ socket' \in [Node -> [Node -> Seq(Piece)]]
         /\ \A k, l \in Node : Len(socket'[k][l]) <= Capacity
         /\ Whole(q) # <<>> /\ Head(Whole(q)) = e
         /\ Whole(socket'[m][n]) = Tail(Whole(q))
         /\ e \in Owned
    BY <1>8, <1>11, FramingTail
  <1>13. \A k, l \in Node : Framing(k, l)'
    <2> SUFFICES ASSUME NEW k \in Node, NEW l \in Node, k # m \/ l # n
                 PROVE  Framing(k, l)'
      BY <1>12
    <2>1. /\ Framing(k, l) /\ socket'[k][l] = socket[k][l]
          /\ Reads(k, l)' <=> Reads(k, l)
          /\ Reads(k, l) => reading'[l] = reading[l]
      BY <1>6, <1>8, <1>12 DEF IInv
    <2>2. element' = element
      BY <1>2 DEF senderVars
    <2> QED
      BY <1>5, <1>7, <2>1, <2>2, FramingSame
  <1>14. TypeOK'
    BY <1>2, <1>5, <1>6, <1>12 DEF IInv, TypeOK, senderVars
  <1>15. \A k \in Node : QueuesOK(k)' /\ SenderOK(k)'
    BY <1>2, <1>5 DEF IInv, QueuesOK, SenderOK, senderVars
  <1>16. \A k \in Node : reading'[k] # None => revents'[k] # {}
    BY <1>6 DEF IInv
  <1>17. ASSUME NEW k \in Node PROVE Received(k)' \subseteq Owned'
    <2>1. Received(k) \subseteq Owned
      BY DEF IInv
    <2> QED
      BY <1>5, <1>12, <2>1
  <1>18. IInv'
    BY <1>13, <1>14, <1>15, <1>16, <1>17 DEF IInv
  <1>19. upPeers' = upPeers /\ element' = element /\ (ToWrite(m, n)' <=> ToWrite(m, n))
    BY <1>2 DEF senderVars, ToWrite
  <1>20. /\ OnTheWay(m, n) # <<>> /\ Head(OnTheWay(m, n)) = e
         /\ OnTheWay(m, n)' = Tail(OnTheWay(m, n))
    <2>1. Whole(q) \in Seq(Message)
      BY WholeType
    <2>2. PICK w \in Seq(Message) : w = Whole(q)
      BY <2>1
    <2>3. CASE ~ToWrite(m, n)
      BY <1>12, <1>19, <2>3 DEF OnTheWay
    <2>4. CASE ToWrite(m, n)
      <3>1. PICK a : a = element[m]
        OBVIOUS
      <3>2. OnTheWay(m, n) = Append(w, a) /\ OnTheWay(m, n)' = Append(Tail(w), a)
        BY <1>12, <1>19, <2>2, <2>4, <3>1 DEF OnTheWay
      <3>3. w # <<>> /\ Head(w) = e
        BY <1>12, <2>2
      <3>4. a \in Message \union {None}
        BY <3>1 DEF IInv, TypeOK
      <3>5. w \in Seq(Message \union {None})
        OBVIOUS
      <3>6. \A s \in Seq(Message \union {None}) : \A x \in Message \union {None} :
               s # <<>> => /\ Append(s, x) # <<>> /\ Head(Append(s, x)) = Head(s)
                           /\ Tail(Append(s, x)) = Append(Tail(s), x)
        OBVIOUS
      <3> QED
        BY <3>2, <3>3, <3>4, <3>5, <3>6
    <2> QED
      BY <2>3, <2>4
  <1>21. \A k, l \in Node : k # m \/ l # n => OnTheWay(k, l)' = OnTheWay(k, l)
    BY <1>12, <1>19, OnTheWaySame
  <1> QED
    BY <1>4, <1>18, <1>20, <1>21

(* Taking an element sends it: its own copy is received at once, all others   *)
(* are still to be written.                                                   *)
LEMMA TakeKeeps ==
    ASSUME IInv, NEW n \in Node, Take(n)
    PROVE  /\ IInv'
           /\ \E e \in Message :
                 /\ e.from = n
                 /\ recvQueue' = IF n \in e.to THEN [recvQueue EXCEPT ![n] = Append(@, e)] ELSE recvQueue
                 /\ \A k, m \in Node : OnTheWay(k, m)' =
                       IF k = n /\ m \in e.to \ {n} THEN Append(OnTheWay(k, m), e) ELSE OnTheWay(k, m)
  <1>1. /\ clientQueue \in [Node -> Seq(Message)] /\ sendQueue \in [Node -> Seq(Message)]
        /\ element \in [Node -> Message \union {None}] /\ upPeers \in [Node -> Seq(Node)]
    BY DEF IInv, TypeOK
  <1>2. \A s \in Seq(Message) : s # <<>> =>
           /\ Head(s) \in Message /\ Tail(s) \in Seq(Message) /\ Head(s) = s[1] /\ 1 \in DOMAIN s
           /\ \A i \in DOMAIN Tail(s) : i + 1 \in DOMAIN s /\ Tail(s)[i] = s[i + 1]
    OBVIOUS
  <1>3. PICK e \in Message :
           /\ e.from = n /\ TakeElement(n, e)
           /\ clientQueue' \in [Node -> Seq(Message)] /\ sendQueue' \in [Node -> Seq(Message)]
           /\ \A k \in Node : QueuesOK(k)'
    <2>1. \A k \in Node : QueuesOK(k)
      BY DEF IInv
    <2>2. CASE clientQueue[n] # <<>>
      <3>1. /\ TakeElement(n, Head(clientQueue[n])) /\ sendQueue' = sendQueue
            /\ clientQueue' = [clientQueue EXCEPT ![n] = Tail(@)]
        BY <2>2 DEF Take
      <3>2. /\ Head(clientQueue[n]) \in Message /\ Head(clientQueue[n]).from = n
            /\ clientQueue' \in [Node -> Seq(Message)]
            /\ clientQueue'[n] = Tail(clientQueue[n])
            /\ \A k \in Node \ {n} : clientQueue'[k] = clientQueue[k]
        BY <1>1, <1>2, <2>1, <2>2, <3>1 DEF QueuesOK
      <3>3. \A i \in DOMAIN clientQueue'[n] : clientQueue'[n][i].from = n
        BY <1>1, <1>2, <2>1, <2>2, <3>2 DEF QueuesOK
      <3>4. \A k \in Node : QueuesOK(k)'
        BY <2>1, <3>1, <3>2, <3>3 DEF QueuesOK
      <3> QED
        BY <1>1, <3>1, <3>2, <3>4
    <2>3. CASE clientQueue[n] = <<>>
      <3>1. /\ TakeElement(n, Head(sendQueue[n])) /\ clientQueue' = clientQueue
            /\ sendQueue' = [sendQueue EXCEPT ![n] = Tail(@)] /\ sendQueue[n] # <<>>
        BY <2>3 DEF Take
      <3>2. /\ Head(sendQueue[n]) \in Message /\ Head(sendQueue[n]).from = n
            /\ sendQueue' \in [Node -> Seq(Message)]
            /\ sendQueue'[n] = Tail(sendQueue[n])
            /\ \A k \in Node \ {n} : sendQueue'[k] = sendQueue[k]
        BY <1>1, <1>2, <2>1, <3>1 DEF QueuesOK
      <3>3. \A i \in DOMAIN sendQueue'[n] : sendQueue'[n][i].from = n
        BY <1>1, <1>2, <2>1, <3>1, <3>2 DEF QueuesOK
      <3>4. \A k \in Node : QueuesOK(k)'
        BY <2>1, <3>1, <3>2, <3>3 DEF QueuesOK
      <3> QED
        BY <1>1, <3>1, <3>2, <3>4
    <2> QED
      BY <2>2, <2>3
  <1>4. e.to \in SUBSET Node
    BY ElementTypes
  <1>5. PICK u \in Orders(e.to \ {n}) : upPeers' = [upPeers EXCEPT ![n] = u]
    BY <1>3 DEF TakeElement
  <1>6. /\ u \in Seq(Node)
        /\ \A i, j \in 1..Len(u) : u[i] = u[j] => i = j
        /\ \A m : m \in e.to \ {n} <=> \E i \in 1..Len(u) : u[i] = m
        /\ u = <<>> <=> e.to \ {n} = {}
    <2>1. e.to \ {n} \in SUBSET Node
      BY <1>4
    <2> QED
      BY <2>1, OrderOfSet
  <1>7. /\ element[n] = None /\ upPeers[n] = <<>> /\ ~half[n]
        /\ UNCHANGED <<requested, sent, half, revents, reading, socket, dead>>
    BY <1>3 DEF Take, TakeElement, IInv, SenderOK, listenerVars
  <1>8. /\ upPeers' \in [Node -> Seq(Node)] /\ upPeers'[n] = u
        /\ \A k \in Node \ {n} : upPeers'[k] = upPeers[k]
    BY <1>1, <1>5, <1>6
  <1>9. /\ element' \in [Node -> Message \union {None}]
        /\ element'[n] = IF e.to \subseteq {n} THEN None ELSE e
        /\ \A k \in Node \ {n} : element'[k] = element[k]
    BY <1>1, <1>3 DEF TakeElement
  <1>10. recvQueue' = IF n \in e.to THEN [recvQueue EXCEPT ![n] = Append(@, e)] ELSE recvQueue
    BY <1>3 DEF TakeElement
  <1>11. /\ recvQueue' \in [Node -> Seq(Message)] /\ Owned \subseteq Owned' /\ e \in Owned'
         /\ \A k \in Node : Received(k)' \subseteq Received(k) \union {e}
    <2>1. CASE n \in e.to
      <3>1. recvQueue' = [recvQueue EXCEPT ![n] = Append(@, e)]
        BY <1>10, <2>1
      <3>2. /\ Received(n)' = Received(n) \union {e}
            /\ \A m \in Node \ {n} : Received(m)' = Received(m)
            /\ recvQueue' \in [Node -> Seq(Message)]
            /\ Owned \subseteq Owned'
        BY <3>1, ReceivedAppend DEF IInv
      <3>3. e \in Owned'
        BY <1>3, <3>2 DEF Owned
      <3> QED
        BY <3>2, <3>3
    <2>2. CASE n \notin e.to
      <3>1. recvQueue' = recvQueue
        BY <1>10, <2>2
      <3>2. Owned' = Owned /\ \A m \in Node : Received(m)' = Received(m)
        BY <3>1, ReceivedSame
      <3>3. e \in Owned'
        BY <1>3, <2>2 DEF Owned
      <3>4. recvQueue' \in [Node -> Seq(Message)]
        BY <3>1 DEF IInv, TypeOK
      <3> QED
        BY <3>2, <3>3, <3>4
    <2> QED
      BY <2>1, <2>2
  <1>12. SenderOK(n)'
    <2>1. element'[n] = None <=> upPeers'[n] = <<>>
      BY <1>6, <1>8, <1>9, ElementTypes
    <2>2. element'[n] # None => element'[n].from = n /\ element'[n] \in Owned'
      BY <1>3, <1>9, <1>11
    <2>3. half'[n] = half[n]
      BY <1>7
    <2> QED
      BY <1>6, <1>7, <1>8, <2>1, <2>2, <2>3 DEF SenderOK
  <1>13. ASSUME NEW k \in Node \ {n} PROVE SenderOK(k)'
    <2>1. SenderOK(k)
      BY DEF IInv
    <2>2. half' = half /\ element'[k] = element[k] /\ upPeers'[k] = upPeers[k] /\ Owned \subseteq Owned'
      BY <1>7, <1>8, <1>9, <1>11
    <2> QED
      BY <2>1, <2>2 DEF SenderOK
  <1>14. ASSUME NEW k \in Node, NEW m \in Node PROVE Framing(k, m)'
    <2>1. Framing(k, m) /\ socket'[k][m] = socket[k][m] /\ reading'[m] = reading[m]
      BY <1>7 DEF IInv
    <2>2. Reads(k, m)' <=> Reads(k, m)
      BY <1>7 DEF Reads, Slot
    <2>3. (Writes(k, m)' <=> Writes(k, m)) /\ (Writes(k, m) => element'[k] = element[k])
      BY <1>7, <1>8, <1>9 DEF Writes
    <2> QED
      BY <1>11, <2>1, <2>2, <2>3, FramingSame
  <1>15. TypeOK'
    BY <1>3, <1>7, <1>8, <1>9, <1>11 DEF IInv, TypeOK
  <1>16. ASSUME NEW k \in Node PROVE Received(k)' \subseteq Owned'
    <2>1. Received(k) \subseteq Owned
      BY DEF IInv
    <2> QED
      BY <1>11, <2>1
  <1>17. \A k \in Node : reading'[k] # None => revents'[k] # {}
    BY <1>7 DEF IInv
  <1>18. IInv'
    BY <1>3, <1>12, <1>13, <1>14, <1>15, <1>16, <1>17 DEF IInv
  <1>19. ASSUME NEW m \in Node
         PROVE  OnTheWay(n, m)' = IF m \in e.to \ {n} THEN Append(OnTheWay(n, m), e) ELSE OnTheWay(n, m)
    <2>1. ~ToWrite(n, m)
      <3>1. DOMAIN upPeers[n] = {}
        <4>1. DOMAIN <<>> = {}
          OBVIOUS
        <4> QED
          BY <1>7, <4>1
      <3> QED
        BY <3>1 DEF ToWrite
    <2>2. ToWrite(n, m)' <=> m \in e.to \ {n}
      <3>1. DOMAIN u = 1..Len(u)
        BY <1>6
      <3>2. ToWrite(n, m)' <=> \E i \in DOMAIN u : u[i] = m
        BY <1>8 DEF ToWrite
      <3> QED
        BY <1>6, <3>1, <3>2
    <2>3. m \in e.to \ {n} => element'[n] = e
      BY <1>9
    <2> QED
      BY <1>7, <2>1, <2>2, <2>3 DEF OnTheWay
  <1>20. \A k, m \in Node : k # n => OnTheWay(k, m)' = OnTheWay(k, m)
    BY <1>7, <1>8, <1>9, OnTheWaySame
  <1> QED
    BY <1>3, <1>10, <1>18, <1>19, <1>20

------------------------------------------------------------------------------
(* The invariant.                                                             *)

(* The invariant holds at first.                                              *)
LEMMA InitIInv == Init => IInv
  <1> SUFFICES ASSUME Init PROVE IInv
    OBVIOUS
  <1> USE DEF Init
  <1>1. /\ <<>> \in Seq(Message) /\ <<>> \in Seq(Node) /\ <<>> \in Seq(Piece)
        /\ Len(<<>>) = 0 /\ DOMAIN <<>> = {}
    OBVIOUS
  <1>2. TypeOK
    <2>1. \A n, m \in Node : Len(socket[n][m]) <= Capacity
      BY <1>1, CapacityAssumption
    <2> QED
      BY <1>1, <2>1 DEF TypeOK
  <1>3. \A n \in Node : QueuesOK(n) /\ SenderOK(n)
    BY <1>1 DEF QueuesOK, SenderOK
  <1>4. \A n, m \in Node : Framing(n, m)
    <2> SUFFICES ASSUME NEW n \in Node, NEW m \in Node PROVE Framing(n, m)
      OBVIOUS
    <2>1. socket[n][m] = <<>> /\ ~Reads(n, m) /\ ~Writes(n, m)
      BY DEF Reads, Writes
    <2>2. 1..Len(<<>>) = {} /\ 1..(Len(<<>>) - 1) = {}
      BY <1>1
    <2>3. Alternates(<<>>)
      BY <2>2 DEF Alternates
    <2> QED
      BY <2>1, <2>2, <2>3 DEF Framing
  <1>5. \A n \in Node : Received(n) \subseteq Owned
    BY <1>1 DEF Received
  <1> QED
    BY <1>2, <1>3, <1>4, <1>5 DEF IInv

(* It holds when nothing happens.                                             *)
LEMMA Stutter ==
    ASSUME IInv, UNCHANGED vars
    PROVE  IInv' /\ Still
  <1>1. Still /\ UNCHANGED <<requested, sent, clientQueue, sendQueue, dead>>
    BY DEF Still, vars, senderVars, listenerVars
  <1>2. TypeOK'
    BY <1>1 DEF IInv, TypeOK, Still
  <1>3. \A k \in Node : QueuesOK(k)'
    BY <1>1 DEF IInv, QueuesOK
  <1> QED
    BY <1>1, <1>2, <1>3, StillKeeps

(* Every step keeps it.                                                       *)
LEMMA NextIInv == IInv /\ [Next]_vars => IInv'
  <1> SUFFICES ASSUME IInv, [Next]_vars PROVE IInv'
    OBVIOUS
  <1>1. CASE UNCHANGED vars
    BY <1>1, Stutter
  <1>2. ASSUME NEW n \in Node, ClientRequest(n) PROVE IInv'
    BY <1>2, ClientRequestKeeps
  <1>3. ASSUME NEW n \in Node, DispatcherSend(n) PROVE IInv'
    BY <1>3, DispatcherSendKeeps
  <1>4. ASSUME NEW n \in Node, Take(n) PROVE IInv'
    BY <1>4, TakeKeeps
  <1>5. ASSUME NEW n \in Node, WriteHeader(n) PROVE IInv'
    BY <1>5, WriteHeaderKeeps
  <1>6. ASSUME NEW n \in Node, WritePayload(n) PROVE IInv'
    BY <1>6, WritePayloadKeeps
  <1>7. ASSUME NEW n \in Node, WriteToDead(n) \/ Kill(n) PROVE IInv'
    BY <1>7, DeadKeeps
  <1>8. ASSUME NEW n \in Node, Poll(n) PROVE IInv'
    BY <1>8, PollKeeps
  <1>9. ASSUME NEW n \in Node, ReadHeader(n) PROVE IInv'
    BY <1>9, ReadHeaderKeeps
  <1>10. ASSUME NEW n \in Node, ReadPayload(n) PROVE IInv'
    BY <1>10, ReadPayloadKeeps
  <1> QED
    BY <1>1, <1>2, <1>3, <1>4, <1>5, <1>6, <1>7, <1>8, <1>9, <1>10 DEF Next, Sender, Listener

(* No behaviour leaves the invariant.                                         *)
THEOREM Invariant == Spec => []IInv
  BY InitIInv, NextIInv, PTL DEF Spec

(* Every variable keeps to its type, and no socket holds more than Capacity   *)
(* pieces.                                                                    *)
THEOREM TypeCorrect == Spec => []TypeOK
  <1>1. IInv => TypeOK
    BY DEF IInv
  <1> QED
    BY <1>1, Invariant, PTL

(* What an SL sends to all, itself included, is in its own recvQueue before   *)
(* it is in anybody else's.                                                   *)
THEOREM OwnCopyComesFirst == Spec => []OwnCopyFirst
  <1>1. IInv => OwnCopyFirst
    BY DEF IInv, OwnCopyFirst, Owned
  <1> QED
    BY <1>1, Invariant, PTL

(* A header that was read is completed by its own payload: the listener reads *)
(* the rest of the message it has begun, whatever else is written to its      *)
(* sockets (recvMessage_caller_free_mem).                                     *)
HeaderMeetsItsPayload ==
    \A n \in Node : reading[n] # None /\ socket[Slot(n)][n] # <<>> =>
        Head(socket[Slot(n)][n]) = [message |-> reading[n], part |-> "payload"]

(* The payload a listener reads belongs to the header it has read.            *)
THEOREM HeadersMeetTheirPayloads == Spec => []HeaderMeetsItsPayload
  <1>1. IInv => HeaderMeetsItsPayload
    <2> SUFFICES ASSUME IInv, NEW n \in Node, reading[n] # None, socket[Slot(n)][n] # <<>>
                 PROVE  Head(socket[Slot(n)][n]) = [message |-> reading[n], part |-> "payload"]
      BY DEF HeaderMeetsItsPayload
    <2>1. Slot(n) \in Node
      BY SlotReady DEF IInv
    <2>2. PICK m \in Node : m = Slot(n)
      BY <2>1
    <2>3. PICK q \in Seq(Piece) : q = socket[m][n]
      BY DEF IInv, TypeOK
    <2>4. q # <<>> /\ Head(q) = q[1] /\ 1 \in 1..Len(q) /\ q[1] \in Piece
      <3>1. q # <<>> /\ Head(q) = q[1] /\ 1 \in 1..Len(q)
        BY <2>2, <2>3
      <3> QED
        BY <3>1
    <2>5. Reads(m, n) /\ Framing(m, n)
      BY <2>2 DEF Reads, IInv
    <2>6. q[1].part = "payload" /\ q[1].message = reading[n]
      BY <2>3, <2>4, <2>5 DEF Framing
    <2> QED
      BY <2>2, <2>3, <2>4, <2>6 DEF Piece
  <1> QED
    BY <1>1, Invariant, PTL

------------------------------------------------------------------------------
(* The refinement.                                                            *)

(* At first nothing is on its way.                                            *)
LEMMA InitMaps == Init => Abstract!Init
  <1> SUFFICES ASSUME Init, NEW n \in Node, NEW m \in Node PROVE OnTheWay(n, m) = <<>>
    BY DEF Init, Abstract!Init
  <1>1. socket[n][m] = <<>> /\ upPeers[n] = <<>>
    BY DEF Init
  <1>2. DOMAIN <<>> = {}
    OBVIOUS
  <1>3. ~ToWrite(n, m)
    BY <1>1, <1>2 DEF ToWrite
  <1> QED
    BY <1>1, <1>3, WholeEmpty DEF OnTheWay

(* A step that sends and delivers nothing is a stutter of the channels.       *)
LEMMA StutterMaps ==
    ASSUME Same, recvQueue' = recvQueue
    PROVE  UNCHANGED Abstract!vars
  BY DEF Same, Abstract!vars

(* So is one that moves no element and no piece.                              *)
LEMMA StillMaps ==
    ASSUME Still
    PROVE  UNCHANGED Abstract!vars
  <1>1. Same /\ recvQueue' = recvQueue
    BY OnTheWaySame DEF Still, Same
  <1> QED
    BY <1>1, StutterMaps

(* Taking an element is sending it.                                           *)
LEMMA TakeMaps ==
    ASSUME IInv, NEW n \in Node, Take(n)
    PROVE  Abstract!Next
  <1>1. PICK e \in Message :
           /\ e.from = n
           /\ recvQueue' = IF n \in e.to THEN [recvQueue EXCEPT ![n] = Append(@, e)] ELSE recvQueue
           /\ \A k, m \in Node : OnTheWay(k, m)' =
                 IF k = n /\ m \in e.to \ {n} THEN Append(OnTheWay(k, m), e) ELSE OnTheWay(k, m)
    BY TakeKeeps
  <1>2. Abstract!Send(e)
    BY <1>1 DEF Abstract!Send
  <1> QED
    BY <1>2 DEF Abstract!Next

(* Reading a payload is delivering its message.                               *)
LEMMA ReadPayloadMaps ==
    ASSUME IInv, NEW n \in Node, ReadPayload(n)
    PROVE  Abstract!Next
  <1>1. PICK m \in Node :
           /\ OnTheWay(m, n) # <<>>
           /\ recvQueue' = [recvQueue EXCEPT ![n] = Append(@, Head(OnTheWay(m, n)))]
           /\ OnTheWay(m, n)' = Tail(OnTheWay(m, n))
           /\ \A k, l \in Node : k # m \/ l # n => OnTheWay(k, l)' = OnTheWay(k, l)
    BY ReadPayloadKeeps
  <1> DEFINE chan == [k \in Node |-> [l \in Node |-> OnTheWay(k, l)]]
             next == [k \in Node |-> [l \in Node |-> OnTheWay(k, l)']]
  <1>2. next = [chan EXCEPT ![m][n] = Tail(chan[m][n])]
    <2>1. ASSUME NEW k \in Node, NEW l \in Node
          PROVE  next[k][l] = [chan EXCEPT ![m][n] = Tail(chan[m][n])][k][l]
      BY <1>1
    <2> QED
      BY <2>1
  <1>3. Abstract!Deliver(m, n)
    BY <1>1, <1>2 DEF Abstract!Deliver
  <1> QED
    BY <1>3 DEF Abstract!Next

(* Every step is one of the channels or a stutter.                            *)
LEMMA NextMaps == IInv /\ [Next]_vars => [Abstract!Next]_Abstract!vars
  <1> SUFFICES ASSUME IInv, [Next]_vars PROVE Abstract!Next \/ UNCHANGED Abstract!vars
    OBVIOUS
  <1>1. CASE UNCHANGED vars
    BY <1>1, Stutter, StillMaps
  <1>2. ASSUME NEW n \in Node, ClientRequest(n) PROVE UNCHANGED Abstract!vars
    BY <1>2, ClientRequestKeeps, StillMaps
  <1>3. ASSUME NEW n \in Node, DispatcherSend(n) PROVE UNCHANGED Abstract!vars
    BY <1>3, DispatcherSendKeeps, StillMaps
  <1>4. ASSUME NEW n \in Node, Take(n) PROVE Abstract!Next
    BY <1>4, TakeMaps
  <1>5. ASSUME NEW n \in Node, WriteHeader(n) PROVE UNCHANGED Abstract!vars
    BY <1>5, WriteHeaderKeeps, StutterMaps
  <1>6. ASSUME NEW n \in Node, WritePayload(n) PROVE UNCHANGED Abstract!vars
    BY <1>6, WritePayloadKeeps, StutterMaps
  <1>7. ASSUME NEW n \in Node, WriteToDead(n) \/ Kill(n) PROVE UNCHANGED Abstract!vars
    BY <1>7, DeadKeeps, StillMaps
  <1>8. ASSUME NEW n \in Node, Poll(n) PROVE UNCHANGED Abstract!vars
    <2>1. Same /\ recvQueue' = recvQueue
      BY <1>8, OnTheWaySame DEF Poll, Same, senderVars
    <2> QED
      BY <2>1, StutterMaps
  <1>9. ASSUME NEW n \in Node, ReadHeader(n) PROVE UNCHANGED Abstract!vars
    BY <1>9, ReadHeaderKeeps, StutterMaps
  <1>10. ASSUME NEW n \in Node, ReadPayload(n) PROVE Abstract!Next
    BY <1>10, ReadPayloadMaps
  <1> QED
    BY <1>1, <1>2, <1>3, <1>4, <1>5, <1>6, <1>7, <1>8, <1>9, <1>10 DEF Next, Sender, Listener

(* The sender and listener threads and the sockets are the channels that the  *)
(* dispatchers rely on: every message reaches every receiver once, whole, and *)
(* in the order in which it was taken up, whoever is killed and when.         *)
THEOREM ChannelsImplemented == Spec => ImplementsChannels
  <1>1. Spec => Abstract!Init /\ [][Abstract!Next]_Abstract!vars
    BY InitMaps, NextMaps, Invariant, PTL DEF Spec
  <1> QED
    BY <1>1 DEF ImplementsChannels, Abstract!Spec
==============================================================================
