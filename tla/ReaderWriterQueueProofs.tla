------------------------ MODULE ReaderWriterQueueProofs ------------------------
(* Proofs about ReaderWriterQueue, for every size of the blocks and every       *)
(* number of values: it is a FIFO queue, whatever the two threads have read of  *)
(* each other's indices, and who has a count of the semaphore finds a value.    *)
(*                                                                              *)
(* The blocks in use are a chain in the circle, from the front block to the one *)
(* the producer has written to last.  All but the front block hold something,   *)
(* and each continues with the value after the last of the one before it.       *)
EXTENDS ReaderWriterQueue, TLAPS

(* How far it is from one index to another in a block of s slots.               *)
Dist(f, t, s) == IF f <= t THEN t - f ELSE t - f + s

(* What a block holds, what the consumer has seen of it and what the producer   *)
(* believes it to hold.                                                         *)
Held(b) == Dist(front[b], tail[b], size[b])
Seen(b) == Dist(front[b], localTail[b], size[b])
Busy(b) == Dist(localFront[b], tail[b], size[b])

(* The slot i after the front.                                                  *)
At(b, i) == IF front[b] + i < size[b] THEN front[b] + i ELSE front[b] + i - size[b]

(* The block written to last, and the last value there; a block that was        *)
(* entered is written to before it is the tail block.                           *)
Last == IF producer = "advance" THEN next[tailBlock] ELSE tailBlock
Latest == IF producer = "advance" THEN enqueued ELSE Published

(* The blocks in use, and the value before the first of such a block.           *)
Chain == {b \in Block : size[b] > 0 /\ (b = frontBlock \/ Held(b) > 0)}
First(b) == IF b = frontBlock THEN dequeued ELSE data[b][front[b]] - 1

Index == 0..(MaxSize - 1)

Types ==
    /\ size \in [Block -> {0} \union Power]
    /\ front \in [Block -> Index] /\ localTail \in [Block -> Index]
    /\ tail \in [Block -> Index] /\ localFront \in [Block -> Index]
    /\ next \in [Block -> Block]
    /\ data \in [Block -> [Index -> 0..MaxValue]]
    /\ frontBlock \in Block /\ tailBlock \in Block /\ ahead \in Block
    /\ largestBlockSize \in Power /\ largestBlockSize <= MaxSize
    /\ enqueued \in 0..MaxValue /\ result \in 0..MaxValue /\ dequeued \in 0..MaxValue
    /\ producer \in {"idle", "write", "publish", "full", "reuse", "publishNext", "link", "advance", "signal"}
    /\ consumer \in {"idle", "look", "checkTail", "recheck", "next", "enter", "move", "read", "release"}
    /\ sema \in Nat

Indices ==
    \A b \in Block :
        IF size[b] > 0
        THEN /\ size[b] <= MaxSize
             /\ front[b] < size[b] /\ localTail[b] < size[b]
             /\ tail[b] < size[b] /\ localFront[b] < size[b]
        ELSE front[b] = 0 /\ localTail[b] = 0 /\ tail[b] = 0 /\ localFront[b] = 0

(* The blocks that were made: the first m, no more than one for each value.     *)
Made(m) == m <= Latest + 1 /\ \A b \in Block : size[b] > 0 <=> b <= m

Circle ==
    /\ \A b \in Block : IF size[b] > 0 THEN size[next[b]] > 0 ELSE next[b] = b
    /\ \A a, b \in Block : next[a] = next[b] => a = b

Ends == frontBlock \in Chain /\ Last \in Chain /\ First(Last) + Held(Last) = Latest

Continued ==
    \A b \in Chain \ {Last} : next[b] \in Chain \ {frontBlock} /\ First(next[b]) = First(b) + Held(b)

Reached == \A b \in Chain \ {frontBlock} : \E a \in Chain \ {Last} : next[a] = b

Filled == \A b \in Chain : \A i \in 0..(Held(b) - 1) : data[b][At(b, i)] = First(b) + i + 1

(* The producer underestimates the room in its block, enters none in use, and   *)
(* has written what it is about to publish.                                     *)
Producing ==
    /\ size[tailBlock] > 0
    /\ Held(Last) <= Busy(Last)
    /\ producer \in {"write", "publish"} => Busy(tailBlock) < size[tailBlock] - 1
    /\ producer = "publish" => data[tailBlock][tail[tailBlock]] = enqueued
    /\ producer \in {"reuse", "publishNext"} => next[tailBlock] \notin Chain
    /\ producer = "publishNext" =>
          LET b == next[tailBlock] IN data[b][tail[b]] = enqueued /\ localFront[b] = front[b]
    /\ producer = "advance" => next[tailBlock] # frontBlock /\ Held(next[tailBlock]) = 1

(* The consumer underestimates what is in its block, leaves only an empty one   *)
(* behind the producer, and reads only what it has seen.                        *)
Consuming ==
    /\ Seen(frontBlock) <= Held(frontBlock)
    /\ consumer \in {"checkTail", "recheck", "next", "enter", "move"} => frontBlock # tailBlock
    /\ consumer \in {"next", "enter", "move"} => Held(frontBlock) = 0
    /\ consumer \in {"enter", "move"} => ahead = next[frontBlock]
    /\ consumer = "move" => 0 < Seen(ahead) /\ Seen(ahead) <= Held(ahead)
    /\ consumer \in {"read", "release"} => 0 < Seen(frontBlock)
    /\ consumer = "release" => result = dequeued + 1

(* The semaphore, with the counts about to be given and those taken, counts     *)
(* what is in the queue.                                                        *)
Counted ==
    sema + (IF consumer = "idle" THEN 0 ELSE 1) + (IF producer = "signal" THEN 1 ELSE 0)
        = Published - dequeued

Chained == Ends /\ Continued /\ Reached /\ Filled

IInv ==
    /\ Types /\ Indices
    /\ \E m \in Block : Made(m)
    /\ Circle /\ Chained
    /\ Producing /\ Consuming /\ Counted

-----------------------------------------------------------------------------
(* Indices.                                                                     *)

(* The sizes of blocks.                                                         *)
LEMMA Powers == \A s \in Power : s \in Nat /\ s >= 2
  BY DEF Power

(* The next index of a block.                                                   *)
LEMMA Inc ==
    ASSUME NEW s \in Power, NEW x \in 0..(s - 1)
    PROVE  (x + 1) % s = IF x + 1 = s THEN 0 ELSE x + 1
  <1>1. CASE s = 2 \/ s = 4 \/ s = 8
    BY <1>1
  <1>2. CASE s = 16 \/ s = 32 \/ s = 64
    BY <1>2
  <1>3. CASE s = 128 \/ s = 256
    BY <1>3
  <1>4. CASE s = 512 \/ s = 1024
    BY <1>4
  <1> QED
    BY <1>1, <1>2, <1>3, <1>4 DEF Power

(* What moving one end of a part of a block does to its length.                 *)
LEMMA DistStep ==
    ASSUME NEW s \in Power, NEW f \in 0..(s - 1), NEW t \in 0..(s - 1)
    PROVE  /\ Dist(f, t, s) \in 0..(s - 1)
           /\ Dist(f, t, s) = 0 <=> f = t
           /\ (t + 1) % s \in 0..(s - 1)
           /\ (t + 1) % s = f <=> Dist(f, t, s) = s - 1
           /\ Dist(f, t, s) < s - 1 => Dist(f, (t + 1) % s, s) = Dist(f, t, s) + 1
           /\ Dist(f, t, s) > 0 => Dist((f + 1) % s, t, s) = Dist(f, t, s) - 1
  <1>1. s \in Nat /\ s >= 2
    BY Powers
  <1>2. (t + 1) % s = IF t + 1 = s THEN 0 ELSE t + 1
    BY Inc
  <1>3. (f + 1) % s = IF f + 1 = s THEN 0 ELSE f + 1
    BY Inc
  <1> QED
    BY <1>1, <1>2, <1>3 DEF Dist

(* A block that was made.                                                       *)
LEMMA BlockTypes ==
    ASSUME Types, Indices, NEW b \in Block, size[b] > 0
    PROVE  /\ size[b] \in Power /\ size[b] \in Nat /\ size[b] >= 2 /\ size[b] <= MaxSize
           /\ front[b] \in 0..(size[b] - 1) /\ tail[b] \in 0..(size[b] - 1)
           /\ localFront[b] \in 0..(size[b] - 1) /\ localTail[b] \in 0..(size[b] - 1)
  <1>1. size[b] \in Power
    BY DEF Types
  <1>2. front[b] \in Nat /\ tail[b] \in Nat /\ localFront[b] \in Nat /\ localTail[b] \in Nat
    BY DEF Types, Index
  <1> QED
    BY <1>1, <1>2, Powers DEF Indices

(* Its slots in use, before its tail.                                           *)
LEMMA SlotsHeld ==
    ASSUME Types, Indices, NEW b \in Block, size[b] > 0
    PROVE  /\ Held(b) \in 0..(size[b] - 1)
           /\ Seen(b) \in 0..(size[b] - 1)
           /\ Busy(b) \in 0..(size[b] - 1)
           /\ At(b, 0) = front[b] /\ At(b, Held(b)) = tail[b]
           /\ \A i \in 0..(Held(b) - 1) : At(b, i) \in 0..(size[b] - 1) /\ At(b, i) # tail[b]
           /\ Held(b) > 0 => 0 \in 0..(Held(b) - 1)
  <1>1. /\ size[b] \in Nat /\ size[b] >= 2
        /\ front[b] \in 0..(size[b] - 1) /\ tail[b] \in 0..(size[b] - 1)
        /\ localFront[b] \in 0..(size[b] - 1) /\ localTail[b] \in 0..(size[b] - 1)
    BY BlockTypes
  <1> QED
    BY <1>1 DEF Held, Seen, Busy, At, Dist

(* Blocks in use were made.                                                     *)
LEMMA InUse ==
    ASSUME Types, Indices, NEW b \in Chain
    PROVE  b \in Block /\ size[b] > 0 /\ size[b] \in Power /\ (b # frontBlock => Held(b) > 0)
  BY BlockTypes DEF Chain

-----------------------------------------------------------------------------
(* A step that moves no front and no tail, no block and no value in use, leaves *)
(* the chain as it is.                                                          *)
LEMMA SameChain ==
    ASSUME Types, Indices, Chained,
           front' = front, tail' = tail, size' = size, next' = next,
           frontBlock' = frontBlock, dequeued' = dequeued, Last' = Last, Latest' = Latest,
           \A b \in Chain : \A i \in 0..(Held(b) - 1) : data'[b][At(b, i)] = data[b][At(b, i)]
    PROVE  Chained' /\ Chain' = Chain
  <1>1. \A b : Held(b)' = Held(b) /\ \A i : At(b, i)' = At(b, i)
    BY DEF Held, At
  <1>2. Chain' = Chain
    BY <1>1 DEF Chain
  <1>3. ASSUME NEW b \in Chain PROVE First(b)' = First(b)
    <2>1. CASE b = frontBlock
      BY <2>1 DEF First
    <2>2. CASE b # frontBlock
      <3>1. Held(b) > 0 /\ b \in Block /\ size[b] > 0
        BY <2>2, InUse
      <3>2. data'[b][front[b]] = data[b][front[b]]
        BY <3>1, SlotsHeld
      <3> QED
        BY <2>2, <3>2 DEF First
    <2> QED
      BY <2>1, <2>2
  <1>4. Ends'
    BY <1>1, <1>2, <1>3 DEF Chained, Ends
  <1>5. Continued'
    <2> SUFFICES ASSUME NEW b \in Chain, b # Last
                 PROVE  next[b] \in Chain \ {frontBlock} /\ First(next[b])' = First(b)' + Held(b)'
      BY <1>2 DEF Continued
    <2>1. next[b] \in Chain \ {frontBlock} /\ First(next[b]) = First(b) + Held(b)
      BY DEF Chained, Continued
    <2> QED
      BY <1>1, <1>3, <2>1
  <1>6. Reached'
    BY <1>2 DEF Chained, Reached
  <1>7. Filled'
    <2> SUFFICES ASSUME NEW b \in Chain, NEW i \in 0..(Held(b) - 1)
                 PROVE  data'[b][At(b, i)] = First(b)' + i + 1
      BY <1>1, <1>2 DEF Filled
    <2> QED
      BY <1>3 DEF Chained, Filled
  <1> QED
    BY <1>2, <1>4, <1>5, <1>6, <1>7 DEF Chained

(* Where the last block and the value in it are, by where the producer is.      *)
LEMMA Lasts ==
    ASSUME Types
    PROVE  /\ producer # "advance" => Last = tailBlock /\ Latest = Published
           /\ producer = "advance" => Last = next[tailBlock] /\ Latest = enqueued /\ Published = enqueued - 1
           /\ producer \in {"idle", "signal"} => Published = enqueued
           /\ producer \notin {"idle", "signal"} => Published = enqueued - 1
           /\ Published \in Int /\ Latest \in Int
  BY DEF Types, Last, Latest, Published

-----------------------------------------------------------------------------
(* The chain starts as the first block, empty.                                  *)
LEMMA InitIInv == Init => IInv
  <1> SUFFICES ASSUME Init PROVE IInv
    OBVIOUS
  <1>1. /\ MaxValue \in Nat /\ FirstSize \in Power /\ MaxSize \in Power /\ FirstSize <= MaxSize
        /\ 1 \in Block /\ 0 \in Index /\ FirstSize \in Nat /\ FirstSize >= 2 /\ MaxSize \in Nat
    BY SizeAssumption, MaxValueAssumption, Powers DEF Block, Index
  <1>2. /\ \A b \in Block : /\ front[b] = 0 /\ localTail[b] = 0 /\ tail[b] = 0 /\ localFront[b] = 0
                            /\ next[b] = b /\ size[b] = IF b = 1 THEN FirstSize ELSE 0
        /\ frontBlock = 1 /\ tailBlock = 1 /\ enqueued = 0 /\ dequeued = 0 /\ sema = 0
        /\ producer = "idle" /\ consumer = "idle"
    BY DEF Init, Zeroes
  <1>3. Types
    <2>1. size \in [Block -> {0} \union Power]
      BY <1>1 DEF Init, Zeroes
    <2>2. /\ front \in [Block -> Index] /\ localTail \in [Block -> Index]
          /\ tail \in [Block -> Index] /\ localFront \in [Block -> Index]
      BY <1>1 DEF Init, Zeroes
    <2>3. next \in [Block -> Block] /\ data \in [Block -> [Index -> 0..MaxValue]]
      BY <1>1 DEF Init, Index
    <2> QED
      BY <1>1, <2>1, <2>2, <2>3 DEF Init, Types
  <1>4. Indices
    BY <1>1, <1>2 DEF Indices
  <1>5. Last = 1 /\ Latest = 0 /\ Published = 0
    BY <1>2, <1>3, Lasts
  <1>6. \A b \in Block : Held(b) = 0 /\ Seen(b) = 0 /\ Busy(b) = 0
    BY <1>2 DEF Held, Seen, Busy, Dist
  <1>7. Chain = {1}
    BY <1>1, <1>2, <1>6 DEF Chain
  <1>8. Made(1)
    BY <1>1, <1>2, <1>5 DEF Made, Block
  <1>9. Circle
    BY <1>2 DEF Circle
  <1>10. Chained
    <2>1. First(1) = 0
      BY <1>2 DEF First
    <2> QED
      BY <1>1, <1>2, <1>5, <1>6, <1>7, <2>1 DEF Chained, Ends, Continued, Reached, Filled
  <1>11. Producing /\ Consuming /\ Counted
    BY <1>1, <1>2, <1>5, <1>6 DEF Producing, Consuming, Counted
  <1> QED
    BY <1>1, <1>3, <1>4, <1>8, <1>9, <1>10, <1>11 DEF IInv

-----------------------------------------------------------------------------
(* A step of the consumer that takes nothing leaves the producer's side as it is. *)
LEMMA ConsumerLooks ==
    ASSUME IInv, UNCHANGED <<producerVars, front, frontBlock, dequeued>>
    PROVE  (\E m \in Block : Made(m)') /\ Circle' /\ Chained' /\ Producing'
  <1>1. /\ tail' = tail /\ localFront' = localFront /\ next' = next /\ data' = data /\ size' = size
        /\ tailBlock' = tailBlock /\ enqueued' = enqueued /\ producer' = producer
        /\ front' = front /\ frontBlock' = frontBlock /\ dequeued' = dequeued
    BY DEF producerVars
  <1>2. Last' = Last /\ Latest' = Latest /\ Published' = Published
    BY <1>1 DEF Last, Latest, Published
  <1>3. Chained' /\ Chain' = Chain
    BY <1>1, <1>2, SameChain DEF IInv
  <1>4. \A b : Held(b)' = Held(b) /\ Busy(b)' = Busy(b)
    BY <1>1 DEF Held, Busy
  <1>5. Producing'
    BY <1>1, <1>2, <1>3, <1>4 DEF IInv, Producing
  <1> QED
    BY <1>1, <1>2, <1>3, <1>5 DEF IInv, Made, Circle

(* What the consumer is looking at: its block and the one it is going to.       *)
LEMMA FrontFacts ==
    ASSUME IInv
    PROVE  /\ frontBlock \in Block /\ size[frontBlock] > 0 /\ frontBlock \in Chain
           /\ tailBlock \in Block /\ size[tailBlock] > 0 /\ Last \in Chain
           /\ frontBlock # tailBlock => frontBlock # Last /\ next[frontBlock] \in Chain \ {frontBlock}
  <1>1. frontBlock \in Chain /\ Last \in Chain /\ tailBlock \in Block /\ size[tailBlock] > 0
    BY DEF IInv, Chained, Ends, Producing, Types
  <1>2. frontBlock # tailBlock => frontBlock # Last
    BY Lasts DEF IInv, Producing
  <1>3. frontBlock # Last => next[frontBlock] \in Chain \ {frontBlock}
    BY <1>1 DEF IInv, Chained, Continued
  <1> QED
    BY <1>1, <1>2, <1>3, InUse DEF IInv

(* The counts, as numbers.                                                      *)
LEMMA Counts ==
    ASSUME IInv
    PROVE  /\ sema \in Nat /\ dequeued \in Nat /\ enqueued \in Nat /\ Published \in Nat
           /\ dequeued <= Published /\ Published <= enqueued /\ enqueued <= MaxValue
           /\ consumer # "idle" => dequeued < Published
  <1>1. sema \in Nat /\ dequeued \in Nat /\ enqueued \in Nat /\ enqueued <= MaxValue
    BY MaxValueAssumption DEF IInv, Types
  <1>2. Published = enqueued \/ Published = enqueued - 1
    BY Lasts DEF IInv
  <1> QED
    BY <1>1, <1>2 DEF IInv, Counted

(* A dequeue begins with a count of the semaphore: there is a value for it.     *)
LEMMA StepBeginDequeue ==
    ASSUME IInv, BeginDequeue, UNCHANGED producerVars
    PROVE  IInv'
  <1>1. /\ consumer = "idle" /\ sema > 0 /\ sema' = sema - 1 /\ consumer' = "look"
        /\ front' = front /\ localTail' = localTail /\ frontBlock' = frontBlock
        /\ ahead' = ahead /\ result' = result /\ dequeued' = dequeued
        /\ tail' = tail /\ localFront' = localFront /\ next' = next /\ data' = data /\ size' = size
        /\ tailBlock' = tailBlock /\ enqueued' = enqueued /\ producer' = producer
        /\ largestBlockSize' = largestBlockSize
    BY DEF BeginDequeue, producerVars
  <1>2. Types' /\ Indices'
    BY <1>1 DEF IInv, Types, Indices
  <1>3. Consuming'
    BY <1>1 DEF IInv, Consuming, Seen, Held
  <1>4. Counted'
    BY <1>1, Counts DEF IInv, Counted, Published
  <1> QED
    BY <1>1, <1>2, <1>3, <1>4, ConsumerLooks DEF IInv

(* Looking at the own copy of the tail, and at the tail when it says nothing.   *)
LEMMA StepLook ==
    ASSUME IInv, Look \/ Recheck, UNCHANGED producerVars
    PROVE  IInv'
  <1> DEFINE b == frontBlock
  <1>1. /\ consumer \in {"look", "recheck"} /\ sema' = sema
        /\ front' = front /\ frontBlock' = frontBlock
        /\ ahead' = ahead /\ result' = result /\ dequeued' = dequeued
        /\ tail' = tail /\ localFront' = localFront /\ next' = next /\ data' = data /\ size' = size
        /\ tailBlock' = tailBlock /\ enqueued' = enqueued /\ producer' = producer
        /\ largestBlockSize' = largestBlockSize
    BY DEF Look, Recheck, producerVars
  <1>2. \/ localTail' = localTail /\ front[b] # localTail[b] /\ consumer' = "read"
        \/ /\ localTail' = [localTail EXCEPT ![b] = tail[b]]
           /\ \/ front[b] # tail[b] /\ consumer' = "read"
              \/ front[b] = tail[b] /\ consumer = "look" /\ consumer' = "checkTail"
              \/ front[b] = tail[b] /\ consumer = "recheck" /\ consumer' = "next"
    BY DEF Look, Recheck, SeenTail
  <1>3. b \in Block /\ size[b] > 0
    BY FrontFacts
  <1>4. Types' /\ Indices'
    <2>1. tail[b] \in Index /\ tail[b] < size[b]
      BY <1>3 DEF IInv, Types, Indices
    <2>2. localTail \in [Block -> Index]
      BY DEF IInv, Types
    <2>3. localTail' \in [Block -> Index] /\ \A a \in Block : localTail'[a] = localTail[a] \/ (a = b /\ localTail'[a] = tail[b])
      BY <1>2, <1>3, <2>1, <2>2
    <2>4. consumer' \in {"read", "checkTail", "next"}
      BY <1>2
    <2>5. Types'
      BY <1>1, <2>3, <2>4 DEF IInv, Types
    <2>6. Indices'
      BY <1>1, <1>3, <2>1, <2>3 DEF IInv, Indices
    <2> QED
      BY <2>5, <2>6
  <1>5. /\ Held(b) \in Nat /\ (Held(b) = 0 <=> front[b] = tail[b]) /\ (Seen(b) = 0 <=> front[b] = localTail[b])
        /\ Seen(b) \in Nat
    <2>1. /\ size[b] \in Power /\ front[b] \in 0..(size[b] - 1) /\ tail[b] \in 0..(size[b] - 1)
          /\ localTail[b] \in 0..(size[b] - 1) /\ size[b] \in Nat
      BY <1>3, BlockTypes DEF IInv
    <2> QED
      BY <2>1, DistStep DEF Held, Seen
  <1>6. Held(b)' = Held(b)
    BY <1>1 DEF Held
  <1>7. Seen(b)' = Seen(b) \/ Seen(b)' = Held(b)
    <2>1. localTail \in [Block -> Index]
      BY DEF IInv, Types
    <2> QED
      BY <1>1, <1>2, <1>3, <2>1 DEF Seen, Held
  <1>8. Seen(b) <= Held(b) /\ (consumer = "recheck" => b # tailBlock)
    BY DEF IInv, Consuming
  <1>9. consumer' = "read" => 0 < Seen(b)'
    <2>1. CASE localTail' = localTail /\ front[b] # localTail[b]
      BY <1>1, <1>5, <2>1 DEF Seen
    <2>2. CASE localTail' = [localTail EXCEPT ![b] = tail[b]] /\ consumer' = "read"
      <3>1. localTail \in [Block -> Index]
        BY DEF IInv, Types
      <3>2. Seen(b)' = Held(b) /\ front[b] # tail[b]
        BY <1>1, <1>2, <1>3, <2>2, <3>1 DEF Seen, Held
      <3> QED
        BY <1>5, <3>2
    <2> QED
      BY <1>2, <2>1, <2>2
  (* An empty front block is not the tail block: there is something to take.    *)
  <1>10. consumer' = "checkTail" => b # tailBlock
    <2> SUFFICES ASSUME consumer' = "checkTail", b = tailBlock PROVE FALSE
      OBVIOUS
    <2>1. Held(b) = 0 /\ consumer # "idle"
      BY <1>1, <1>2, <1>5
    <2>2. dequeued < Published /\ dequeued \in Nat /\ Published \in Nat
      BY <2>1, Counts
    <2>3. First(b) = dequeued
      BY DEF First
    <2>4. CASE producer = "advance"
      <3>1. Last = next[b] /\ Last # b /\ Latest = Published + 1 /\ Held(Last) = 1
        BY <2>2, <2>4, Lasts DEF IInv, Producing
      <3>2. First(Last) = First(b) + Held(b)
        BY <3>1, FrontFacts DEF IInv, Chained, Continued
      <3>3. First(Last) + Held(Last) = Latest
        BY DEF IInv, Chained, Ends
      <3> QED
        BY <2>1, <2>2, <2>3, <3>1, <3>2, <3>3
    <2>5. CASE producer # "advance"
      <3>1. Last = b /\ Latest = Published
        BY <2>5, Lasts DEF IInv
      <3>2. First(b) + Held(b) = Published
        BY <3>1 DEF IInv, Chained, Ends
      <3> QED
        BY <2>1, <2>2, <2>3, <3>2
    <2> QED
      BY <2>4, <2>5
  <1>11. consumer' = "next" => Held(b) = 0 /\ b # tailBlock
    BY <1>2, <1>5, <1>8
  <1>12. Consuming'
    <2>1. Seen(b)' <= Held(b)'
      BY <1>5, <1>6, <1>7, <1>8
    <2>2. consumer' \in {"read", "checkTail", "next"}
      BY <1>2
    <2> QED
      BY <1>1, <1>6, <1>9, <1>10, <1>11, <2>1, <2>2 DEF Consuming
  <1>13. Counted'
    BY <1>1, <1>2 DEF IInv, Counted, Published
  <1> QED
    BY <1>1, <1>4, <1>12, <1>13, ConsumerLooks DEF IInv

(* What it looked at was not the tail block.                                    *)
LEMMA StepCheckTail ==
    ASSUME IInv, CheckTail, UNCHANGED producerVars
    PROVE  IInv'
  <1>1. /\ consumer = "checkTail" /\ consumer' = "recheck" /\ frontBlock # tailBlock
        /\ front' = front /\ localTail' = localTail /\ frontBlock' = frontBlock
        /\ ahead' = ahead /\ result' = result /\ dequeued' = dequeued /\ sema' = sema
        /\ tail' = tail /\ localFront' = localFront /\ next' = next /\ data' = data /\ size' = size
        /\ tailBlock' = tailBlock /\ enqueued' = enqueued /\ producer' = producer
        /\ largestBlockSize' = largestBlockSize
    BY DEF CheckTail, producerVars
  <1>2. Types' /\ Indices'
    BY <1>1 DEF IInv, Types, Indices
  <1>3. Consuming'
    BY <1>1 DEF IInv, Consuming, Seen, Held
  <1>4. Counted'
    BY <1>1 DEF IInv, Counted, Published
  <1> QED
    BY <1>1, <1>2, <1>3, <1>4, ConsumerLooks DEF IInv

(* An empty front block has a successor in the chain.                           *)
LEMMA StepLookAhead ==
    ASSUME IInv, LookAhead, UNCHANGED producerVars
    PROVE  IInv'
  <1>1. /\ consumer = "next" /\ consumer' = "enter" /\ ahead' = next[frontBlock]
        /\ front' = front /\ localTail' = localTail /\ frontBlock' = frontBlock
        /\ result' = result /\ dequeued' = dequeued /\ sema' = sema
        /\ tail' = tail /\ localFront' = localFront /\ next' = next /\ data' = data /\ size' = size
        /\ tailBlock' = tailBlock /\ enqueued' = enqueued /\ producer' = producer
        /\ largestBlockSize' = largestBlockSize
    BY DEF LookAhead, producerVars
  <1>2. ahead' \in Block
    BY <1>1 DEF IInv, Types
  <1>3. Types' /\ Indices'
    BY <1>1, <1>2 DEF IInv, Types, Indices
  <1>4. Consuming'
    BY <1>1 DEF IInv, Consuming, Seen, Held
  <1>5. Counted'
    BY <1>1 DEF IInv, Counted, Published
  <1> QED
    BY <1>1, <1>3, <1>4, <1>5, ConsumerLooks DEF IInv

(* The consumer sees at least one value in the block it goes to.                *)
LEMMA StepEnter ==
    ASSUME IInv, Enter, UNCHANGED producerVars
    PROVE  IInv'
  <1>1. /\ consumer = "enter" /\ consumer' = "move" /\ localTail' = [localTail EXCEPT ![ahead] = tail[ahead]]
        /\ front' = front /\ frontBlock' = frontBlock
        /\ ahead' = ahead /\ result' = result /\ dequeued' = dequeued /\ sema' = sema
        /\ tail' = tail /\ localFront' = localFront /\ next' = next /\ data' = data /\ size' = size
        /\ tailBlock' = tailBlock /\ enqueued' = enqueued /\ producer' = producer
        /\ largestBlockSize' = largestBlockSize
    BY DEF Enter, producerVars
  <1>2. ahead = next[frontBlock] /\ ahead \in Chain \ {frontBlock} /\ Held(frontBlock) = 0 /\ frontBlock # tailBlock
    BY <1>1, FrontFacts DEF IInv, Consuming
  <1>3. ahead \in Block /\ size[ahead] > 0 /\ Held(ahead) > 0
    BY <1>2, InUse DEF IInv
  <1>4. tail[ahead] \in Index /\ tail[ahead] < size[ahead] /\ localTail \in [Block -> Index]
    BY <1>3 DEF IInv, Types, Indices
  <1>5. localTail' \in [Block -> Index] /\ \A a \in Block : localTail'[a] = IF a = ahead THEN tail[a] ELSE localTail[a]
    BY <1>1, <1>4
  <1>6. Types' /\ Indices'
    <2>1. Types'
      BY <1>1, <1>5 DEF IInv, Types
    <2>2. Indices'
      BY <1>1, <1>4, <1>5 DEF IInv, Indices
    <2> QED
      BY <2>1, <2>2
  <1>7. /\ Seen(ahead)' = Held(ahead) /\ Held(ahead)' = Held(ahead) /\ Held(ahead) \in Nat
        /\ Seen(frontBlock)' = Seen(frontBlock) /\ Held(frontBlock)' = Held(frontBlock)
    <2>1. frontBlock \in Block /\ frontBlock # ahead
      BY <1>2, FrontFacts
    <2>2. Held(ahead) \in Nat
      BY <1>3, SlotsHeld, BlockTypes DEF IInv
    <2> QED
      BY <1>1, <1>3, <1>5, <2>1, <2>2 DEF Seen, Held
  <1>8. Seen(frontBlock) <= Held(frontBlock)
    BY DEF IInv, Consuming
  <1>9. Consuming'
    BY <1>1, <1>2, <1>3, <1>7, <1>8 DEF Consuming
  <1>10. Counted'
    BY <1>1 DEF IInv, Counted, Published
  <1> QED
    BY <1>1, <1>6, <1>9, <1>10, ConsumerLooks DEF IInv

(* The value read is the one after the last that was dequeued.                  *)
LEMMA StepRead ==
    ASSUME IInv, Read, UNCHANGED producerVars
    PROVE  IInv'
  <1>1. /\ consumer = "read" /\ consumer' = "release" /\ result' = data[frontBlock][front[frontBlock]]
        /\ front' = front /\ localTail' = localTail /\ frontBlock' = frontBlock
        /\ ahead' = ahead /\ dequeued' = dequeued /\ sema' = sema
        /\ tail' = tail /\ localFront' = localFront /\ next' = next /\ data' = data /\ size' = size
        /\ tailBlock' = tailBlock /\ enqueued' = enqueued /\ producer' = producer
        /\ largestBlockSize' = largestBlockSize
    BY DEF Read, producerVars
  <1>2. /\ frontBlock \in Block /\ size[frontBlock] > 0 /\ frontBlock \in Chain
        /\ 0 < Seen(frontBlock) /\ Seen(frontBlock) <= Held(frontBlock)
        /\ Seen(frontBlock) \in Nat /\ Held(frontBlock) \in Nat
    <2>1. frontBlock \in Block /\ size[frontBlock] > 0 /\ frontBlock \in Chain
      BY FrontFacts
    <2>2. Seen(frontBlock) \in Nat /\ Held(frontBlock) \in Nat
      BY <2>1, SlotsHeld, BlockTypes DEF IInv
    <2> QED
      BY <1>1, <2>1, <2>2 DEF IInv, Consuming
  <1>3. result' = dequeued + 1
    <2>1. 0 \in 0..(Held(frontBlock) - 1) /\ At(frontBlock, 0) = front[frontBlock]
      BY <1>2, SlotsHeld DEF IInv
    <2>2. data[frontBlock][At(frontBlock, 0)] = First(frontBlock) + 0 + 1
      BY <1>2, <2>1 DEF IInv, Chained, Filled
    <2>3. First(frontBlock) = dequeued /\ dequeued \in Nat
      BY Counts DEF First
    <2> QED
      BY <1>1, <2>1, <2>2, <2>3
  <1>4. result' \in 0..MaxValue
    BY <1>1, <1>3, Counts, MaxValueAssumption
  <1>5. Types' /\ Indices'
    BY <1>1, <1>4 DEF IInv, Types, Indices
  <1>6. Consuming'
    BY <1>1, <1>3 DEF IInv, Consuming, Seen, Held
  <1>7. Counted'
    BY <1>1 DEF IInv, Counted, Published
  <1> QED
    BY <1>1, <1>5, <1>6, <1>7, ConsumerLooks DEF IInv

(* The front block is left empty, and the next one becomes the start of the     *)
(* chain.                                                                       *)
LEMMA StepMove ==
    ASSUME IInv, Move, UNCHANGED producerVars
    PROVE  IInv'
  <1> DEFINE f == frontBlock
  <1>1. /\ consumer = "move" /\ consumer' = "read" /\ frontBlock' = ahead
        /\ front' = front /\ localTail' = localTail
        /\ ahead' = ahead /\ result' = result /\ dequeued' = dequeued /\ sema' = sema
        /\ tail' = tail /\ localFront' = localFront /\ next' = next /\ data' = data /\ size' = size
        /\ tailBlock' = tailBlock /\ enqueued' = enqueued /\ producer' = producer
        /\ largestBlockSize' = largestBlockSize
    BY DEF Move, producerVars
  <1>2. /\ f # tailBlock /\ f # Last /\ Held(f) = 0 /\ f \in Chain /\ Last \in Chain
        /\ ahead = next[f] /\ ahead \in Chain \ {f}
        /\ 0 < Seen(ahead) /\ Seen(ahead) <= Held(ahead)
    BY <1>1, FrontFacts DEF IInv, Consuming
  <1>3. Last' = Last /\ Latest' = Latest /\ Published' = Published
    BY <1>1 DEF Last, Latest, Published
  <1>4. \A b : Held(b)' = Held(b) /\ Busy(b)' = Busy(b) /\ Seen(b)' = Seen(b) /\ \A i : At(b, i)' = At(b, i)
    BY <1>1 DEF Held, Busy, Seen, At
  <1>5. Chain' = Chain \ {f}
    <2>1. \A b \in Chain \ {f} : Held(b) > 0 /\ b \in Block /\ size[b] > 0
      BY InUse DEF IInv
    <2>2. \A b \in Block : b \in Chain' <=> size[b] > 0 /\ (b = ahead \/ Held(b) > 0)
      BY <1>1, <1>4 DEF Chain
    <2>3. Chain' \subseteq Chain /\ f \notin Chain'
      <3>1. Chain' \subseteq Block
        BY DEF Chain
      <3>2. f \notin Chain'
        BY <1>2, <2>2, <3>1
      <3>3. ASSUME NEW b \in Chain' PROVE b \in Chain
        <4>1. CASE b = ahead
          BY <1>2, <4>1
        <4>2. CASE b # ahead
          BY <2>2, <3>1, <4>2 DEF Chain
        <4> QED
          BY <4>1, <4>2
      <3> QED
        BY <3>2, <3>3
    <2>4. \A b \in Chain \ {f} : b \in Chain'
      BY <2>1, <2>2
    <2> QED
      BY <2>3, <2>4
  <1>6. First(ahead) = dequeued
    <2>1. First(next[f]) = First(f) + Held(f)
      BY <1>2 DEF IInv, Chained, Continued
    <2>2. First(f) = dequeued /\ dequeued \in Nat
      BY Counts DEF First
    <2> QED
      BY <1>2, <2>1, <2>2
  <1>7. \A b \in Chain \ {f} : First(b)' = First(b)
    <2>1. First(ahead)' = First(ahead)
      BY <1>1, <1>6 DEF First
    <2>2. \A b \in Chain \ {f, ahead} : First(b)' = First(b)
      BY <1>1 DEF First
    <2> QED
      BY <1>1, <2>1, <2>2
  <1>8. Chained'
    <2>1. Ends'
      BY <1>1, <1>2, <1>3, <1>4, <1>5, <1>7 DEF IInv, Chained, Ends
    <2>2. Continued'
      <3> SUFFICES ASSUME NEW b \in Chain \ {f}, b # Last
                   PROVE  next[b] \in Chain \ {f, ahead} /\ First(next[b])' = First(b)' + Held(b)'
        BY <1>1, <1>3, <1>5 DEF Continued
      <3>1. next[b] \in Chain \ {f} /\ First(next[b]) = First(b) + Held(b)
        BY DEF IInv, Chained, Continued
      <3>2. next[b] # ahead
        BY <1>2, InUse DEF IInv, Circle
      <3> QED
        BY <1>1, <1>4, <1>7, <3>1, <3>2
    <2>3. Reached'
      <3> SUFFICES ASSUME NEW b \in Chain \ {f, ahead} PROVE \E a \in (Chain \ {f}) \ {Last} : next[a] = b
        BY <1>1, <1>3, <1>5 DEF Reached
      <3>1. PICK a \in Chain \ {Last} : next[a] = b
        BY DEF IInv, Chained, Reached
      <3> QED
        BY <1>2, <3>1
    <2>4. Filled'
      <3> SUFFICES ASSUME NEW b \in Chain \ {f}, NEW i \in 0..(Held(b) - 1)
                   PROVE  data[b][At(b, i)] = First(b)' + i + 1
        BY <1>1, <1>4, <1>5 DEF Filled
      <3> QED
        BY <1>7 DEF IInv, Chained, Filled
    <2> QED
      BY <2>1, <2>2, <2>3, <2>4 DEF Chained
  <1>9. Types' /\ Indices'
    BY <1>1 DEF IInv, Types, Indices
  <1>10. (\E m \in Block : Made(m)') /\ Circle'
    BY <1>1, <1>3 DEF IInv, Made, Circle
  <1>11. producer = "advance" => next[tailBlock] # ahead
    BY <1>2, FrontFacts DEF IInv, Circle
  <1>12. Producing'
    BY <1>1, <1>3, <1>4, <1>5, <1>11 DEF IInv, Producing
  <1>13. Consuming'
    BY <1>1, <1>2, <1>4 DEF Consuming
  <1>14. Counted'
    BY <1>1, <1>3 DEF IInv, Counted
  <1> QED
    BY <1>8, <1>9, <1>10, <1>12, <1>13, <1>14 DEF IInv

(* A value is taken from the front.                                             *)
LEMMA StepRelease ==
    ASSUME IInv, Release, UNCHANGED producerVars
    PROVE  IInv' /\ dequeued' = dequeued + 1
  <1> DEFINE f == frontBlock
  <1>1. /\ consumer = "release" /\ consumer' = "idle" /\ dequeued' = result
        /\ front' = [front EXCEPT ![f] = (@ + 1) % size[f]]
        /\ frontBlock' = frontBlock /\ localTail' = localTail
        /\ ahead' = ahead /\ result' = result /\ sema' = sema
        /\ tail' = tail /\ localFront' = localFront /\ next' = next /\ data' = data /\ size' = size
        /\ tailBlock' = tailBlock /\ enqueued' = enqueued /\ producer' = producer
        /\ largestBlockSize' = largestBlockSize
    BY DEF Release, producerVars
  <1>2. /\ f \in Block /\ size[f] > 0 /\ f \in Chain /\ Last \in Chain
        /\ 0 < Seen(f) /\ Seen(f) <= Held(f) /\ dequeued' = dequeued + 1
    BY <1>1, FrontFacts DEF IInv, Consuming
  <1>3. /\ size[f] \in Power /\ size[f] \in Nat /\ size[f] >= 2 /\ size[f] <= MaxSize
        /\ front[f] \in 0..(size[f] - 1) /\ tail[f] \in 0..(size[f] - 1)
        /\ localFront[f] \in 0..(size[f] - 1) /\ localTail[f] \in 0..(size[f] - 1)
    BY <1>2, BlockTypes DEF IInv
  <1>4. /\ front \in [Block -> Index]
        /\ \A b \in Block : front'[b] = IF b = f THEN (front[f] + 1) % size[f] ELSE front[b]
    BY <1>1 DEF IInv, Types
  <1>5. /\ Held(f) \in 0..(size[f] - 1) /\ Seen(f) \in 0..(size[f] - 1)
        /\ Held(f)' = Held(f) - 1 /\ Seen(f)' = Seen(f) - 1
        /\ (front[f] + 1) % size[f] \in 0..(size[f] - 1)
    <2>1. Held(f) \in 0..(size[f] - 1) /\ Seen(f) \in 0..(size[f] - 1)
      BY <1>3, DistStep DEF Held, Seen
    <2>2. Held(f)' = Dist((front[f] + 1) % size[f], tail[f], size[f])
      BY <1>1, <1>2, <1>4 DEF Held
    <2>3. Seen(f)' = Dist((front[f] + 1) % size[f], localTail[f], size[f])
      BY <1>1, <1>2, <1>4 DEF Seen
    <2>4. Dist(front[f], tail[f], size[f]) > 0 /\ Dist(front[f], localTail[f], size[f]) > 0
      BY <1>2, <1>3, <2>1 DEF Held, Seen
    <2> QED
      BY <1>3, <2>1, <2>2, <2>3, <2>4, DistStep DEF Held, Seen
  <1>6. \A b \in Block \ {f} : Held(b)' = Held(b) /\ Seen(b)' = Seen(b) /\ \A i : At(b, i)' = At(b, i)
    BY <1>1, <1>4 DEF Held, Seen, At
  <1>7. \A b : Busy(b)' = Busy(b)
    BY <1>1 DEF Busy
  <1>8. Last' = Last /\ Latest' = Latest /\ Published' = Published
    BY <1>1 DEF Last, Latest, Published
  <1>9. Chain' = Chain
    BY <1>1, <1>2, <1>6 DEF Chain
  <1>10. First(f)' = First(f) + 1 /\ First(f) = dequeued /\ dequeued \in Nat
    BY <1>1, <1>2, Counts DEF First
  <1>11. \A b \in Chain \ {f} : First(b)' = First(b)
    BY <1>1, <1>4, InUse DEF IInv, First
  <1>12. \A b \in Chain : First(b)' + Held(b)' = First(b) + Held(b)
    BY <1>1, <1>5, <1>6, <1>10, <1>11, InUse DEF IInv
  <1>13. Chained'
    <2>1. Ends'
      BY <1>1, <1>2, <1>8, <1>9, <1>12 DEF IInv, Chained, Ends
    <2>2. Continued'
      <3> SUFFICES ASSUME NEW b \in Chain \ {Last}
                   PROVE  next[b] \in Chain \ {f} /\ First(next[b])' = First(b)' + Held(b)'
        BY <1>1, <1>8, <1>9 DEF Continued
      <3>1. next[b] \in Chain \ {f} /\ First(next[b]) = First(b) + Held(b)
        BY DEF IInv, Chained, Continued
      <3> QED
        BY <1>1, <1>11, <1>12, <3>1
    <2>3. Reached'
      BY <1>1, <1>8, <1>9 DEF IInv, Chained, Reached
    <2>4. Filled'
      <3> SUFFICES ASSUME NEW b \in Chain, NEW i \in 0..(Held(b)' - 1)
                   PROVE  data[b][At(b, i)'] = First(b)' + i + 1
        BY <1>1, <1>9 DEF Filled
      <3>1. CASE b = f
        <4>1. i \in Nat /\ i + 1 \in 0..(Held(f) - 1)
          BY <1>1, <1>5, <3>1
        <4>2. data[f][At(f, i + 1)] = First(f) + (i + 1) + 1
          BY <1>2, <4>1 DEF IInv, Chained, Filled
        <4>3. At(f, i)' = At(f, i + 1)
          <5>1. At(f, i)' = IF front'[f] + i < size[f] THEN front'[f] + i ELSE front'[f] + i - size[f]
            BY <1>1 DEF At
          <5>2. front'[f] = IF front[f] + 1 = size[f] THEN 0 ELSE front[f] + 1
            BY <1>2, <1>3, <1>4, Inc
          <5>3. i + 1 < size[f]
            BY <1>3, <1>5, <4>1
          <5> QED
            BY <1>3, <4>1, <5>1, <5>2, <5>3 DEF At
        <4> QED
          BY <1>1, <1>10, <3>1, <4>1, <4>2, <4>3
      <3>2. CASE b # f
        <4>1. b \in Block
          BY InUse DEF IInv
        <4> QED
          BY <1>6, <1>11, <3>2, <4>1 DEF IInv, Chained, Filled
      <3> QED
        BY <3>1, <3>2
    <2> QED
      BY <2>1, <2>2, <2>3, <2>4 DEF Chained
  <1>14. Types' /\ Indices'
    <2>1. (front[f] + 1) % size[f] \in Index /\ front' \in [Block -> Index]
      <3>1. MaxSize \in Nat
        BY SizeAssumption, Powers
      <3>2. (front[f] + 1) % size[f] \in Index
        BY <1>3, <1>5, <3>1 DEF Index
      <3> QED
        BY <1>1, <1>4, <3>2
    <2>2. dequeued' \in 0..MaxValue
      BY <1>1 DEF IInv, Types
    <2>3. Types'
      BY <1>1, <2>1, <2>2 DEF IInv, Types
    <2>4. Indices'
      BY <1>1, <1>2, <1>3, <1>4, <1>5 DEF IInv, Indices
    <2> QED
      BY <2>3, <2>4
  <1>15. (\E m \in Block : Made(m)') /\ Circle'
    BY <1>1, <1>8 DEF IInv, Made, Circle
  <1>16. Producing'
    <2>1. Last \in Block /\ tailBlock \in Block /\ next[tailBlock] \in Block
      BY <1>2, InUse DEF IInv, Types
    <2>2. Held(Last)' <= Busy(Last)'
      <3>1. Held(Last) <= Busy(Last) /\ Held(Last) \in Nat /\ Busy(Last) \in Nat
        BY <1>2, <2>1, InUse, SlotsHeld, BlockTypes DEF IInv, Producing
      <3> QED
        BY <1>1, <1>5, <1>6, <1>7, <1>8, <2>1, <3>1
    <2>3. producer = "publishNext" => front'[next[tailBlock]] = front[next[tailBlock]]
      BY <1>2, <1>4, <2>1 DEF IInv, Producing
    <2>4. producer = "advance" => Held(next[tailBlock])' = Held(next[tailBlock])
      BY <1>1, <1>6, <2>1 DEF IInv, Producing
    <2> QED
      BY <1>1, <1>7, <1>8, <1>9, <2>2, <2>3, <2>4 DEF IInv, Producing
  <1>17. Consuming'
    BY <1>1, <1>2, <1>3, <1>5 DEF Consuming
  <1>18. Counted'
    <2>1. sema \in Nat /\ Published \in Nat
      BY Counts
    <2> QED
      BY <1>1, <1>2, <1>8, <1>10, <2>1 DEF IInv, Counted
  <1> QED
    BY <1>2, <1>13, <1>14, <1>15, <1>16, <1>17, <1>18 DEF IInv

-----------------------------------------------------------------------------
(* A step of the producer that publishes nothing leaves the consumer's side as  *)
(* it is.                                                                       *)
LEMMA ProducerPrepares ==
    ASSUME IInv, UNCHANGED <<consumerVars, localTail>>,
           UNCHANGED <<tail, next, size, tailBlock>>, Last' = Last, Latest' = Latest,
           \A b \in Chain : \A i \in 0..(Held(b) - 1) : data'[b][At(b, i)] = data[b][At(b, i)]
    PROVE  /\ \E m \in Block : Made(m)'
           /\ Circle' /\ Chained' /\ Chain' = Chain /\ Consuming'
           /\ \A b : Held(b)' = Held(b)
  <1>1. /\ front' = front /\ frontBlock' = frontBlock /\ ahead' = ahead /\ consumer' = consumer
        /\ result' = result /\ dequeued' = dequeued
        /\ tail' = tail /\ next' = next /\ size' = size /\ tailBlock' = tailBlock /\ localTail' = localTail
    BY DEF consumerVars
  <1>2. Chained' /\ Chain' = Chain
    BY <1>1, SameChain DEF IInv
  <1>3. \A b : Held(b)' = Held(b) /\ Seen(b)' = Seen(b)
    BY <1>1 DEF Held, Seen
  <1>4. Consuming'
    BY <1>1, <1>3 DEF IInv, Consuming
  <1> QED
    BY <1>1, <1>2, <1>3, <1>4 DEF IInv, Made, Circle

(* The tail block, and what the producer believes it to hold.                   *)
LEMMA TailFacts ==
    ASSUME IInv
    PROVE  /\ tailBlock \in Block /\ size[tailBlock] \in Power /\ size[tailBlock] \in Nat
           /\ size[tailBlock] >= 2 /\ size[tailBlock] > 0 /\ size[tailBlock] <= MaxSize
           /\ front[tailBlock] \in 0..(size[tailBlock] - 1) /\ tail[tailBlock] \in 0..(size[tailBlock] - 1)
           /\ localFront[tailBlock] \in 0..(size[tailBlock] - 1)
           /\ Held(tailBlock) \in 0..(size[tailBlock] - 1) /\ Busy(tailBlock) \in 0..(size[tailBlock] - 1)
           /\ producer # "advance" =>
                 Last = tailBlock /\ tailBlock \in Chain /\ Held(tailBlock) <= Busy(tailBlock)
  <1>1. tailBlock \in Block /\ size[tailBlock] > 0
    BY FrontFacts
  <1>2. producer # "advance" => Last = tailBlock /\ tailBlock \in Chain /\ Held(tailBlock) <= Busy(tailBlock)
    BY Lasts, FrontFacts DEF IInv, Producing
  <1> QED
    BY <1>1, <1>2, BlockTypes, SlotsHeld DEF IInv

(* The producer takes a new look at front only when its block seems full.       *)
LEMMA StepBeginEnqueue ==
    ASSUME IInv, BeginEnqueue, UNCHANGED <<sema, localTail>>, UNCHANGED consumerVars
    PROVE  IInv'
  <1> DEFINE b == tailBlock
             n == (tail[b] + 1) % size[b]
  <1>1. /\ producer = "idle" /\ enqueued < MaxValue /\ enqueued' = enqueued + 1
        /\ tail' = tail /\ next' = next /\ data' = data /\ size' = size /\ tailBlock' = tailBlock
        /\ largestBlockSize' = largestBlockSize /\ sema' = sema /\ localTail' = localTail
        /\ front' = front /\ frontBlock' = frontBlock /\ ahead' = ahead /\ consumer' = consumer
        /\ result' = result /\ dequeued' = dequeued
    BY DEF BeginEnqueue, consumerVars
  <1>2. \/ n # localFront[b] /\ producer' = "write" /\ localFront' = localFront
        \/ /\ localFront' = [localFront EXCEPT ![b] = front[b]]
           /\ producer' = IF n # front[b] THEN "write" ELSE "full"
    BY DEF BeginEnqueue, Increment
  <1>3. producer' \in {"write", "full"}
    BY <1>2
  <1>4. Last' = Last /\ Latest' = Latest /\ Published' = Published /\ Last = b
    BY <1>1, <1>3, Counts DEF Last, Latest, Published
  <1>5. /\ \E m \in Block : Made(m)'
        /\ Circle' /\ Chained' /\ Chain' = Chain /\ Consuming'
        /\ \A a : Held(a)' = Held(a)
    BY <1>1, <1>4, ProducerPrepares
  <1>6. localFront \in [Block -> Index]
    BY DEF IInv, Types
  <1>7. localFront' \in [Block -> Index] /\ \A a \in Block : localFront'[a] = localFront[a] \/ localFront'[a] = front[a]
    <2>1. front[b] \in Index /\ b \in Block
      BY TailFacts DEF IInv, Types
    <2> QED
      BY <1>2, <1>6, <2>1
  <1>8. Types'
    <2>1. enqueued' \in 0..MaxValue
      BY <1>1, Counts, MaxValueAssumption
    <2> QED
      BY <1>1, <1>3, <1>7, <2>1 DEF IInv, Types
  <1>9. Indices'
    BY <1>1, <1>7 DEF IInv, Indices
  <1>10. Held(b) <= Busy(b)' /\ (producer' = "write" => Busy(b)' < size[b] - 1)
    <2>1. CASE n # localFront[b] /\ producer' = "write" /\ localFront' = localFront
      <3>1. Busy(b)' = Busy(b)
        BY <1>1, <2>1 DEF Busy
      <3>2. (tail[b] + 1) % size[b] = localFront[b] <=> Dist(localFront[b], tail[b], size[b]) = size[b] - 1
        <4>1. size[b] \in Power /\ localFront[b] \in 0..(size[b] - 1) /\ tail[b] \in 0..(size[b] - 1)
          BY TailFacts
        <4> QED
          BY <4>1, DistStep
      <3>3. Busy(b) # size[b] - 1
        BY <2>1, <3>2 DEF Busy
      <3> QED
        BY <1>1, <3>1, <3>3, TailFacts
    <2>2. CASE localFront' = [localFront EXCEPT ![b] = front[b]] /\ producer' = IF n # front[b] THEN "write" ELSE "full"
      <3>1. Busy(b)' = Held(b)
        BY <1>1, <1>6, <2>2, TailFacts DEF Busy, Held
      <3>2. (tail[b] + 1) % size[b] = front[b] <=> Dist(front[b], tail[b], size[b]) = size[b] - 1
        <4>1. size[b] \in Power /\ front[b] \in 0..(size[b] - 1) /\ tail[b] \in 0..(size[b] - 1)
          BY TailFacts
        <4> QED
          BY <4>1, DistStep
      <3>3. producer' = "write" => Held(b) # size[b] - 1
        BY <2>2, <3>2 DEF Held
      <3> QED
        BY <3>1, <3>3, TailFacts
    <2> QED
      BY <1>2, <2>1, <2>2
  <1>11. Producing'
    BY <1>1, <1>3, <1>4, <1>5, <1>10, TailFacts DEF Producing
  <1>12. Counted'
    BY <1>1, <1>3, <1>4 DEF IInv, Counted
  <1> QED
    BY <1>5, <1>8, <1>9, <1>11, <1>12 DEF IInv

(* A value is written behind the tail, where nothing in use is.                 *)
LEMMA StepWrite ==
    ASSUME IInv, Write, UNCHANGED <<sema, localTail>>, UNCHANGED consumerVars
    PROVE  IInv'
  <1> DEFINE b == tailBlock
  <1>1. /\ producer = "write" /\ producer' = "publish" /\ data' = [data EXCEPT ![b][tail[b]] = enqueued]
        /\ enqueued' = enqueued /\ localFront' = localFront
        /\ tail' = tail /\ next' = next /\ size' = size /\ tailBlock' = tailBlock
        /\ largestBlockSize' = largestBlockSize /\ sema' = sema /\ localTail' = localTail
        /\ front' = front /\ frontBlock' = frontBlock /\ ahead' = ahead /\ consumer' = consumer
        /\ result' = result /\ dequeued' = dequeued
    BY DEF Write, Construct, consumerVars
  <1>2. Last' = Last /\ Latest' = Latest /\ Published' = Published /\ Last = b
    BY <1>1 DEF Last, Latest, Published
  <1>3. data \in [Block -> [Index -> 0..MaxValue]] /\ tail[b] \in Index /\ enqueued \in 0..MaxValue
    BY TailFacts DEF IInv, Types
  <1>4. data' \in [Block -> [Index -> 0..MaxValue]] /\ data'[b][tail[b]] = enqueued
    BY <1>1, <1>3, TailFacts
  <1>5. \A a \in Chain : \A i \in 0..(Held(a) - 1) : data'[a][At(a, i)] = data[a][At(a, i)]
    <2> SUFFICES ASSUME NEW a \in Chain, NEW i \in 0..(Held(a) - 1) PROVE data'[a][At(a, i)] = data[a][At(a, i)]
      OBVIOUS
    <2>1. CASE a = b
      <3>1. At(b, i) # tail[b]
        BY <2>1, TailFacts, SlotsHeld DEF IInv
      <3> QED
        BY <1>1, <1>3, <2>1, <3>1, TailFacts
    <2>2. CASE a # b
      BY <1>1, <1>3, <2>2, InUse DEF IInv
    <2> QED
      BY <2>1, <2>2
  <1>6. /\ \E m \in Block : Made(m)'
        /\ Circle' /\ Chained' /\ Chain' = Chain /\ Consuming'
        /\ \A a : Held(a)' = Held(a)
    BY <1>1, <1>2, <1>5, ProducerPrepares
  <1>7. Types' /\ Indices'
    BY <1>1, <1>4 DEF IInv, Types, Indices
  <1>8. Busy(b)' = Busy(b)
    BY <1>1 DEF Busy
  <1>9. Producing'
    BY <1>1, <1>2, <1>4, <1>6, <1>8 DEF IInv, Producing
  <1>10. Counted'
    BY <1>1, <1>2 DEF IInv, Counted
  <1> QED
    BY <1>6, <1>7, <1>9, <1>10 DEF IInv

(* The next block is entered only if it is not the consumer's: then it is not   *)
(* in use.                                                                      *)
LEMMA StepFull ==
    ASSUME IInv, Full, UNCHANGED <<sema, localTail>>, UNCHANGED consumerVars
    PROVE  IInv'
  <1>1. /\ producer = "full" /\ producer' \in {"reuse", "link"} /\ data' = data
        /\ producer' = "reuse" => next[tailBlock] # frontBlock
        /\ enqueued' = enqueued /\ localFront' = localFront
        /\ tail' = tail /\ next' = next /\ size' = size /\ tailBlock' = tailBlock
        /\ largestBlockSize' = largestBlockSize /\ sema' = sema /\ localTail' = localTail
        /\ front' = front /\ frontBlock' = frontBlock /\ ahead' = ahead /\ consumer' = consumer
        /\ result' = result /\ dequeued' = dequeued
    BY DEF Full, FreeBlockAhead, consumerVars
  <1>2. Last' = Last /\ Latest' = Latest /\ Published' = Published /\ Last = tailBlock
    BY <1>1 DEF Last, Latest, Published
  <1>3. /\ \E m \in Block : Made(m)'
        /\ Circle' /\ Chained' /\ Chain' = Chain /\ Consuming'
        /\ \A a : Held(a)' = Held(a)
    BY <1>1, <1>2, ProducerPrepares
  <1>4. Types' /\ Indices'
    BY <1>1 DEF IInv, Types, Indices
  <1>5. \A b : Busy(b)' = Busy(b)
    BY <1>1 DEF Busy
  <1>6. next[tailBlock] # frontBlock => next[tailBlock] \notin Chain
    <2> SUFFICES ASSUME next[tailBlock] \in Chain \ {frontBlock} PROVE FALSE
      OBVIOUS
    <2>1. PICK a \in Chain \ {Last} : next[a] = next[tailBlock]
      BY DEF IInv, Chained, Reached
    <2>2. a \in Block /\ a # tailBlock
      BY <1>2, <2>1, InUse DEF IInv
    <2> QED
      BY <2>1, <2>2, TailFacts DEF IInv, Circle
  <1>7. Producing'
    BY <1>1, <1>2, <1>3, <1>5, <1>6 DEF IInv, Producing
  <1>8. Counted'
    BY <1>1, <1>2 DEF IInv, Counted
  <1> QED
    BY <1>3, <1>4, <1>7, <1>8 DEF IInv

(* The block that is entered: not in use, so empty.                             *)
LEMMA EnteredFacts ==
    ASSUME IInv, producer \in {"reuse", "publishNext"}, NEW b, b = next[tailBlock]
    PROVE  /\ b \in Block /\ b \notin Chain /\ b # frontBlock /\ b # tailBlock
           /\ size[b] \in Power /\ size[b] \in Nat /\ size[b] >= 2 /\ size[b] <= MaxSize
           /\ front[b] \in 0..(size[b] - 1) /\ tail[b] = front[b] /\ Held(b) = 0
  <1>1. b \in Block /\ size[b] > 0 /\ b \notin Chain /\ b # frontBlock /\ b # tailBlock
    <2>1. b \in Block /\ b \notin Chain
      BY TailFacts DEF IInv, Types, Producing
    <2>2. size[b] > 0
      BY TailFacts DEF IInv, Circle
    <2> QED
      BY <2>1, <2>2, FrontFacts, TailFacts
  <1>2. /\ size[b] \in Power /\ size[b] \in Nat /\ size[b] >= 2 /\ size[b] <= MaxSize
        /\ front[b] \in 0..(size[b] - 1) /\ tail[b] \in 0..(size[b] - 1)
    BY <1>1, BlockTypes DEF IInv
  <1>3. Held(b) = 0
    BY <1>1, SlotsHeld DEF IInv, Chain
  <1>4. tail[b] = front[b]
    BY <1>2, <1>3 DEF Held, Dist
  <1> QED
    BY <1>1, <1>2, <1>3, <1>4

(* Writing the first value of a block that is not in use.                       *)
LEMMA StepReuse ==
    ASSUME IInv, Reuse, UNCHANGED <<sema, localTail>>, UNCHANGED consumerVars
    PROVE  IInv'
  <1> DEFINE b == next[tailBlock]
  <1>1. /\ producer = "reuse" /\ producer' = "publishNext" /\ data' = [data EXCEPT ![b][tail[b]] = enqueued]
        /\ enqueued' = enqueued /\ localFront' = [localFront EXCEPT ![b] = front[b]]
        /\ tail' = tail /\ next' = next /\ size' = size /\ tailBlock' = tailBlock
        /\ largestBlockSize' = largestBlockSize /\ sema' = sema /\ localTail' = localTail
        /\ front' = front /\ frontBlock' = frontBlock /\ ahead' = ahead /\ consumer' = consumer
        /\ result' = result /\ dequeued' = dequeued
    BY DEF Reuse, Construct, consumerVars
  <1>2. Last' = Last /\ Latest' = Latest /\ Published' = Published /\ Last = tailBlock
    BY <1>1 DEF Last, Latest, Published
  <1>3. /\ b \in Block /\ b \notin Chain /\ b # tailBlock /\ tail[b] = front[b]
        /\ front[b] < size[b]
    BY <1>1, EnteredFacts
  <1>4. /\ data \in [Block -> [Index -> 0..MaxValue]] /\ tail[b] \in Index /\ front[b] \in Index
        /\ enqueued \in 0..MaxValue /\ localFront \in [Block -> Index]
    BY <1>3 DEF IInv, Types
  <1>5. /\ data' \in [Block -> [Index -> 0..MaxValue]] /\ data'[b][tail[b]] = enqueued
        /\ localFront' \in [Block -> Index]
        /\ \A a \in Block : localFront'[a] = IF a = b THEN front[a] ELSE localFront[a]
    BY <1>1, <1>3, <1>4
  <1>6. \A a \in Chain : \A i \in 0..(Held(a) - 1) : data'[a][At(a, i)] = data[a][At(a, i)]
    BY <1>1, <1>3, <1>4, InUse DEF IInv
  <1>7. /\ \E m \in Block : Made(m)'
        /\ Circle' /\ Chained' /\ Chain' = Chain /\ Consuming'
        /\ \A a : Held(a)' = Held(a)
    BY <1>1, <1>2, <1>6, ProducerPrepares
  <1>8. Types'
    BY <1>1, <1>5 DEF IInv, Types
  <1>9. Indices'
    BY <1>1, <1>3, <1>5 DEF IInv, Indices
  <1>10. Busy(tailBlock)' = Busy(tailBlock)
    BY <1>1, <1>3, <1>5, TailFacts DEF Busy
  <1>11. Producing'
    BY <1>1, <1>2, <1>3, <1>5, <1>7, <1>10 DEF IInv, Producing
  <1>12. Counted'
    BY <1>1, <1>2 DEF IInv, Counted
  <1> QED
    BY <1>7, <1>8, <1>9, <1>11, <1>12 DEF IInv

(* The count of a value that is published.                                      *)
LEMMA StepSignal ==
    ASSUME IInv, Signal, UNCHANGED localTail, UNCHANGED consumerVars
    PROVE  IInv'
  <1>1. /\ producer = "signal" /\ producer' = "idle" /\ data' = data /\ sema' = sema + 1
        /\ enqueued' = enqueued /\ localFront' = localFront
        /\ tail' = tail /\ next' = next /\ size' = size /\ tailBlock' = tailBlock
        /\ largestBlockSize' = largestBlockSize /\ localTail' = localTail
        /\ front' = front /\ frontBlock' = frontBlock /\ ahead' = ahead /\ consumer' = consumer
        /\ result' = result /\ dequeued' = dequeued
    BY DEF Signal, consumerVars
  <1>2. Last' = Last /\ Latest' = Latest /\ Published' = Published /\ Last = tailBlock
    BY <1>1 DEF Last, Latest, Published
  <1>3. /\ \E m \in Block : Made(m)'
        /\ Circle' /\ Chained' /\ Chain' = Chain /\ Consuming'
        /\ \A a : Held(a)' = Held(a)
    BY <1>1, <1>2, ProducerPrepares
  <1>4. Types' /\ Indices'
    BY <1>1 DEF IInv, Types, Indices
  <1>5. \A b : Busy(b)' = Busy(b)
    BY <1>1 DEF Busy
  <1>6. Producing'
    BY <1>1, <1>2, <1>3, <1>5 DEF IInv, Producing
  <1>7. Counted'
    BY <1>1, <1>2, Counts DEF IInv, Counted
  <1> QED
    BY <1>3, <1>4, <1>6, <1>7 DEF IInv

(* The producer's pointer follows to the block it has already written to.       *)
LEMMA StepAdvance ==
    ASSUME IInv, Advance, UNCHANGED <<sema, localTail>>, UNCHANGED consumerVars
    PROVE  IInv' /\ Published' = Published + 1
  <1>1. /\ producer = "advance" /\ producer' = "signal" /\ data' = data /\ sema' = sema
        /\ enqueued' = enqueued /\ localFront' = localFront
        /\ tail' = tail /\ next' = next /\ size' = size /\ tailBlock' = next[tailBlock]
        /\ largestBlockSize' = largestBlockSize /\ localTail' = localTail
        /\ front' = front /\ frontBlock' = frontBlock /\ ahead' = ahead /\ consumer' = consumer
        /\ result' = result /\ dequeued' = dequeued
    BY DEF Advance, consumerVars
  <1>2. Last' = Last /\ Latest' = Latest /\ Published' = Published + 1 /\ Last = next[tailBlock]
    BY <1>1, Counts DEF Last, Latest, Published
  <1>3. Chained' /\ Chain' = Chain
    BY <1>1, <1>2, SameChain DEF IInv
  <1>4. \A b : Held(b)' = Held(b) /\ Seen(b)' = Seen(b) /\ Busy(b)' = Busy(b)
    BY <1>1 DEF Held, Seen, Busy
  <1>5. Types' /\ Indices'
    <2>1. tailBlock' \in Block
      BY <1>1 DEF IInv, Types
    <2> QED
      BY <1>1, <2>1 DEF IInv, Types, Indices
  <1>6. (\E m \in Block : Made(m)') /\ Circle'
    BY <1>1, <1>2 DEF IInv, Made, Circle
  <1>7. next[tailBlock] # frontBlock /\ size[next[tailBlock]] > 0
    BY <1>1, TailFacts DEF IInv, Producing, Circle
  <1>8. Producing'
    BY <1>1, <1>2, <1>4, <1>7 DEF IInv, Producing
  <1>9. Consuming'
    BY <1>1, <1>4, <1>7 DEF IInv, Consuming
  <1>10. Counted'
    BY <1>1, <1>2, Counts DEF IInv, Counted
  <1> QED
    BY <1>2, <1>3, <1>5, <1>6, <1>8, <1>9, <1>10 DEF IInv

(* The tail moves: the last block holds one value more.                         *)
LEMMA StepPublish ==
    ASSUME IInv, Publish, UNCHANGED <<sema, localTail>>, UNCHANGED consumerVars
    PROVE  IInv' /\ Published' = Published + 1
  <1> DEFINE b == tailBlock
  <1>1. /\ producer = "publish" /\ producer' = "signal" /\ data' = data /\ sema' = sema
        /\ tail' = [tail EXCEPT ![b] = (@ + 1) % size[b]]
        /\ enqueued' = enqueued /\ localFront' = localFront
        /\ next' = next /\ size' = size /\ tailBlock' = tailBlock
        /\ largestBlockSize' = largestBlockSize /\ localTail' = localTail
        /\ front' = front /\ frontBlock' = frontBlock /\ ahead' = ahead /\ consumer' = consumer
        /\ result' = result /\ dequeued' = dequeued
    BY DEF Publish, Increment, consumerVars
  <1>2. /\ Last' = b /\ Latest' = Latest + 1 /\ Published' = Published + 1 /\ Last = b
        /\ Latest = enqueued - 1 /\ enqueued \in Nat
    BY <1>1, Counts DEF Last, Latest, Published
  <1>3. /\ b \in Block /\ b \in Chain /\ size[b] \in Power /\ size[b] \in Nat /\ size[b] > 0 /\ size[b] <= MaxSize
        /\ tail[b] \in 0..(size[b] - 1) /\ front[b] \in 0..(size[b] - 1) /\ localFront[b] \in 0..(size[b] - 1)
        /\ Held(b) \in Nat /\ Busy(b) \in Nat /\ Held(b) <= Busy(b) /\ Busy(b) < size[b] - 1
        /\ data[b][tail[b]] = enqueued
    BY <1>1, TailFacts DEF IInv, Producing
  <1>4. /\ tail \in [Block -> Index] /\ (tail[b] + 1) % size[b] \in 0..(size[b] - 1)
        /\ \A a \in Block : tail'[a] = IF a = b THEN (tail[b] + 1) % size[b] ELSE tail[a]
    BY <1>1, <1>3, DistStep DEF IInv, Types
  <1>5. Held(b)' = Held(b) + 1 /\ Busy(b)' = Busy(b) + 1
    <2>1. /\ Held(b)' = Dist(front[b], (tail[b] + 1) % size[b], size[b])
          /\ Busy(b)' = Dist(localFront[b], (tail[b] + 1) % size[b], size[b])
      BY <1>1, <1>3, <1>4 DEF Held, Busy
    <2>2. Dist(front[b], tail[b], size[b]) < size[b] - 1 /\ Dist(localFront[b], tail[b], size[b]) < size[b] - 1
      BY <1>3 DEF Held, Busy
    <2> QED
      BY <1>3, <2>1, <2>2, DistStep DEF Held, Busy
  <1>6. \A a \in Block \ {b} : Held(a)' = Held(a)
    BY <1>1, <1>4 DEF Held
  <1>7. \A a : Seen(a)' = Seen(a) /\ First(a)' = First(a) /\ \A i : At(a, i)' = At(a, i)
    BY <1>1 DEF Seen, First, At
  <1>8. Chain' = Chain
    <2>1. \A a \in Block : a \in Chain' <=> size[a] > 0 /\ (a = frontBlock \/ (a # b /\ Held(a) > 0) \/ a = b)
      BY <1>1, <1>3, <1>5, <1>6 DEF Chain
    <2>2. \A a \in Block : a \in Chain <=> size[a] > 0 /\ (a = frontBlock \/ Held(a) > 0)
      BY DEF Chain
    <2>3. Chain \subseteq Block /\ Chain' \subseteq Block
      BY DEF Chain
    <2> QED
      BY <1>3, <2>1, <2>2, <2>3
  <1>9. Chained'
    <2>1. Ends'
      <3>1. First(b) + Held(b) = Latest /\ frontBlock \in Chain
        BY <1>2 DEF IInv, Chained, Ends
      <3>2. First(b)' + Held(b)' = Latest'
        <4>1. First(b) \in Int
          <5>1. data[b][front[b]] \in 0..MaxValue /\ dequeued \in 0..MaxValue
            BY <1>3 DEF IInv, Types
          <5> QED
            BY <5>1, MaxValueAssumption DEF First
        <4> QED
          BY <1>1, <1>2, <1>3, <1>5, <1>7, <3>1, <4>1
      <3> QED
        BY <1>1, <1>2, <1>3, <1>8, <3>1, <3>2 DEF Ends
    <2>2. Continued'
      <3> SUFFICES ASSUME NEW a \in Chain \ {b}
                   PROVE  next[a] \in Chain \ {frontBlock} /\ First(next[a])' = First(a)' + Held(a)'
        BY <1>1, <1>2, <1>8 DEF Continued
      <3>1. next[a] \in Chain \ {frontBlock} /\ First(next[a]) = First(a) + Held(a)
        BY <1>2 DEF IInv, Chained, Continued
      <3>2. a \in Block
        BY InUse DEF IInv
      <3> QED
        BY <1>1, <1>6, <1>7, <3>1, <3>2
    <2>3. Reached'
      BY <1>1, <1>2, <1>8 DEF IInv, Chained, Reached
    <2>4. Filled'
      <3> SUFFICES ASSUME NEW a \in Chain, NEW i \in 0..(Held(a)' - 1)
                   PROVE  data[a][At(a, i)] = First(a) + i + 1
        BY <1>1, <1>7, <1>8 DEF Filled
      <3>1. CASE a = b /\ i = Held(b)
        <4>1. At(b, Held(b)) = tail[b]
          BY <1>3, SlotsHeld DEF IInv
        <4>2. First(b) + Held(b) = enqueued - 1
          BY <1>2 DEF IInv, Chained, Ends
        <4> QED
          BY <1>2, <1>3, <3>1, <4>1, <4>2
      <3>2. CASE a = b /\ i # Held(b)
        <4>1. i \in 0..(Held(b) - 1)
          BY <1>1, <1>3, <1>5, <3>2
        <4> QED
          BY <3>2, <4>1 DEF IInv, Chained, Filled
      <3>3. CASE a # b
        <4>1. a \in Block
          BY InUse DEF IInv
        <4> QED
          BY <1>6, <3>3, <4>1 DEF IInv, Chained, Filled
      <3> QED
        BY <3>1, <3>2, <3>3
    <2> QED
      BY <2>1, <2>2, <2>3, <2>4 DEF Chained
  <1>10. Types' /\ Indices'
    <2>1. (tail[b] + 1) % size[b] \in Index
      BY <1>3, <1>4, SizeAssumption, Powers DEF Index
    <2>2. tail' \in [Block -> Index]
      BY <1>1, <1>4, <2>1
    <2>3. Types'
      BY <1>1, <2>2 DEF IInv, Types
    <2>4. Indices'
      BY <1>1, <1>3, <1>4 DEF IInv, Indices
    <2> QED
      BY <2>3, <2>4
  <1>11. (\E m \in Block : Made(m)') /\ Circle'
    <2>1. Circle'
      BY <1>1 DEF IInv, Circle
    <2>2. PICK m \in Block : Made(m)
      BY DEF IInv
    <2>3. Made(m)'
      BY <1>1, <1>2, <2>2 DEF Made, Block
    <2> QED
      BY <2>1, <2>3
  <1>12. Producing'
    BY <1>1, <1>2, <1>3, <1>5 DEF Producing
  <1>13. Consuming'
    <2>1. Held(frontBlock) <= Held(frontBlock)' /\ Held(frontBlock) \in Nat /\ Seen(frontBlock) \in Nat
      <3>1. frontBlock \in Block /\ Held(frontBlock) \in Nat /\ Seen(frontBlock) \in Nat
        BY FrontFacts, SlotsHeld, BlockTypes DEF IInv
      <3> QED
        BY <1>1, <1>3, <1>5, <1>6, <3>1
    <2>2. Held(frontBlock)' \in Nat
      BY <1>1, <1>3, <1>5, <1>6, <2>1, FrontFacts
    <2>3. frontBlock # tailBlock => Held(frontBlock)' = Held(frontBlock)
      BY <1>1, <1>6, FrontFacts
    <2>4. consumer = "move" => Held(ahead) <= Held(ahead)' /\ Held(ahead) \in Nat /\ Held(ahead)' \in Nat /\ Seen(ahead) \in Nat
      <3> SUFFICES ASSUME consumer = "move"
                   PROVE  Held(ahead) <= Held(ahead)' /\ Held(ahead) \in Nat /\ Held(ahead)' \in Nat /\ Seen(ahead) \in Nat
        OBVIOUS
      <3>1. ahead \in Chain
        BY FrontFacts DEF IInv, Consuming
      <3>2. ahead \in Block /\ Held(ahead) \in Nat /\ Seen(ahead) \in Nat
        BY <3>1, InUse, SlotsHeld, BlockTypes DEF IInv
      <3> QED
        BY <1>1, <1>3, <1>5, <1>6, <3>2
    <2> QED
      BY <1>1, <1>7, <2>1, <2>2, <2>3, <2>4 DEF IInv, Consuming
  <1>14. Counted'
    BY <1>1, <1>2, Counts DEF IInv, Counted
  <1> QED
    BY <1>2, <1>9, <1>10, <1>11, <1>12, <1>13, <1>14 DEF IInv

(* A block that is not in use, put behind the last with one value in it, is the *)
(* new last block of the chain.                                                 *)
LEMMA LongerChain ==
    ASSUME IInv, producer # "advance", producer' = "advance", enqueued' = enqueued, tailBlock' = tailBlock,
           Latest = enqueued - 1, UNCHANGED consumerVars,
           NEW b \in Block, b \notin Chain, b # tailBlock, b # frontBlock,
           next'[tailBlock] = b, \A a \in Chain \ {tailBlock} : next'[a] = next[a],
           size'[b] > 0, \A a \in Block \ {b} : size'[a] = size[a] /\ tail'[a] = tail[a],
           \A a \in Block \ {b} : data'[a] = data[a],
           Held(b)' = 1, At(b, 0)' = front[b], data'[b][front[b]] = enqueued
    PROVE  /\ Chained' /\ Chain' = Chain \union {b}
           /\ \A a \in Block \ {b} : Held(a)' = Held(a)
  <1>1. /\ front' = front /\ frontBlock' = frontBlock /\ ahead' = ahead /\ consumer' = consumer
        /\ result' = result /\ dequeued' = dequeued
    BY DEF consumerVars
  <1>2. /\ Last = tailBlock /\ Last' = b /\ Latest' = enqueued /\ enqueued \in Nat
        /\ frontBlock \in Chain /\ tailBlock \in Chain /\ First(tailBlock) + Held(tailBlock) = enqueued - 1
    BY Lasts, Counts DEF IInv, Chained, Ends, Last, Latest
  <1>3. \A a \in Block \ {b} : Held(a)' = Held(a) /\ First(a)' = First(a) /\ \A i : At(a, i)' = At(a, i)
    BY <1>1 DEF Held, First, At
  <1>4. First(b)' = enqueued - 1
    BY <1>1 DEF First
  <1>5. Chain' = Chain \union {b}
    <2>1. Chain \subseteq Block \ {b} /\ Chain' \subseteq Block
      BY DEF Chain
    <2>2. \A a \in Block \ {b} : a \in Chain' <=> a \in Chain
      BY <1>1, <1>3 DEF Chain
    <2>3. b \in Chain'
      BY <1>1 DEF Chain
    <2> QED
      BY <2>1, <2>2, <2>3
  <1>6. \A a \in Chain : a \in Block \ {b}
    BY InUse DEF IInv
  <1>7. Ends'
    BY <1>1, <1>2, <1>4, <1>5 DEF Ends
  <1>8. Continued'
    <2> SUFFICES ASSUME NEW a \in Chain
                 PROVE  next'[a] \in (Chain \union {b}) \ {frontBlock} /\ First(next[a])' = First(a)' + Held(a)'
      BY <1>1, <1>2, <1>5 DEF Continued
    <2>1. CASE a = tailBlock
      <3>1. First(a)' = First(a) /\ Held(a)' = Held(a) /\ next'[a] = b
        BY <1>3, <1>6, <2>1
      <3>2. First(next[a])' = First(b)'
        BY <3>1
      <3> QED
        BY <1>2, <1>4, <2>1, <3>1, <3>2
    <2>2. CASE a # tailBlock
      <3>1. next'[a] = next[a] /\ next[a] \in Chain \ {frontBlock} /\ First(next[a]) = First(a) + Held(a)
        BY <1>2, <2>2 DEF IInv, Chained, Continued
      <3>2. PICK c : c = next[a]
        OBVIOUS
      <3>3. First(c)' = First(c) /\ First(a)' = First(a) /\ Held(a)' = Held(a)
        BY <1>3, <1>6, <3>1, <3>2
      <3>4. First(next[a])' = First(c)'
        BY <3>1, <3>2
      <3> QED
        BY <3>1, <3>2, <3>3, <3>4
    <2> QED
      BY <2>1, <2>2
  <1>9. Reached'
    <2> SUFFICES ASSUME NEW c \in (Chain \union {b}) \ {frontBlock}
                 PROVE  \E a \in (Chain \union {b}) \ {b} : next'[a] = c
      BY <1>1, <1>2, <1>5 DEF Reached
    <2>1. CASE c = b
      BY <1>2, <2>1
    <2>2. CASE c # b
      <3>1. PICK a \in Chain \ {Last} : next[a] = c
        BY <2>2 DEF IInv, Chained, Reached
      <3>2. next'[a] = c /\ a # b
        BY <1>2, <3>1
      <3> QED
        BY <3>1, <3>2
    <2> QED
      BY <2>1, <2>2
  <1>10. Filled'
    <2> SUFFICES ASSUME NEW a \in Chain \union {b}, NEW i \in 0..(Held(a)' - 1)
                 PROVE  data'[a][At(a, i)'] = First(a)' + i + 1
      BY <1>5 DEF Filled
    <2>1. CASE a = b
      <3>1. i = 0
        BY <2>1
      <3> QED
        BY <1>2, <1>4, <2>1, <3>1
    <2>2. CASE a # b
      <3>1. a \in Chain /\ i \in 0..(Held(a) - 1)
        BY <1>3, <1>6, <2>2
      <3>2. data[a][At(a, i)] = First(a) + i + 1
        BY <3>1 DEF IInv, Chained, Filled
      <3> QED
        BY <1>3, <1>6, <3>1, <3>2
    <2> QED
      BY <2>1, <2>2
  <1> QED
    BY <1>3, <1>5, <1>7, <1>8, <1>9, <1>10 DEF Chained

(* The reused block holds its first value and is the last of the chain.         *)
LEMMA StepPublishNext ==
    ASSUME IInv, PublishNext, UNCHANGED <<sema, localTail>>, UNCHANGED consumerVars
    PROVE  IInv'
  <1> DEFINE b == next[tailBlock]
  <1>1. /\ producer = "publishNext" /\ producer' = "advance" /\ data' = data /\ sema' = sema
        /\ tail' = [tail EXCEPT ![b] = (@ + 1) % size[b]]
        /\ enqueued' = enqueued /\ localFront' = localFront
        /\ next' = next /\ size' = size /\ tailBlock' = tailBlock
        /\ largestBlockSize' = largestBlockSize /\ localTail' = localTail
        /\ front' = front /\ frontBlock' = frontBlock /\ ahead' = ahead /\ consumer' = consumer
        /\ result' = result /\ dequeued' = dequeued
    BY DEF PublishNext, Increment, consumerVars
  <1>2. /\ Last' = b /\ Latest' = Latest + 1 /\ Published' = Published /\ Last = tailBlock
        /\ Latest = enqueued - 1 /\ enqueued \in Nat
    BY <1>1, Counts DEF Last, Latest, Published
  <1>3. /\ b \in Block /\ b \notin Chain /\ b # frontBlock /\ b # tailBlock
        /\ size[b] \in Power /\ size[b] \in Nat /\ size[b] >= 2 /\ size[b] <= MaxSize
        /\ front[b] \in 0..(size[b] - 1) /\ tail[b] = front[b] /\ Held(b) = 0
    BY <1>1, EnteredFacts
  <1>4. data[b][front[b]] = enqueued /\ localFront[b] = front[b]
    BY <1>1, <1>3 DEF IInv, Producing
  <1>5. /\ tail \in [Block -> Index] /\ (tail[b] + 1) % size[b] \in 0..(size[b] - 1)
        /\ \A a \in Block : tail'[a] = IF a = b THEN (tail[b] + 1) % size[b] ELSE tail[a]
    BY <1>1, <1>3, DistStep DEF IInv, Types
  <1>6. Held(b)' = 1 /\ Busy(b)' = 1
    <2>1. /\ Held(b)' = Dist(front[b], (tail[b] + 1) % size[b], size[b])
          /\ Busy(b)' = Held(b)'
      BY <1>1, <1>3, <1>4, <1>5 DEF Held, Busy
    <2>2. Dist(front[b], tail[b], size[b]) = 0 /\ 0 < size[b] - 1
      BY <1>3 DEF Held
    <2> QED
      BY <1>3, <2>1, <2>2, DistStep
  <1>7. At(b, 0)' = front[b]
    BY <1>1, <1>3 DEF At
  <1>8. /\ Chained' /\ Chain' = Chain \union {b}
        /\ \A a \in Block \ {b} : Held(a)' = Held(a)
    <2>1. size'[b] > 0 /\ next'[tailBlock] = b /\ data'[b][front[b]] = enqueued
      BY <1>1, <1>3, <1>4
    <2>2. \A a \in Block \ {b} : size'[a] = size[a] /\ tail'[a] = tail[a] /\ data'[a] = data[a]
      BY <1>1, <1>5
    <2> QED
      BY <1>1, <1>2, <1>3, <1>6, <1>7, <2>1, <2>2, LongerChain
  <1>9. \A a : Seen(a)' = Seen(a)
    BY <1>1 DEF Seen
  <1>10. Types' /\ Indices'
    <2>1. (tail[b] + 1) % size[b] \in Index
      BY <1>3, <1>5, SizeAssumption, Powers DEF Index
    <2>2. tail' \in [Block -> Index]
      BY <1>1, <1>5, <2>1
    <2>3. Types'
      BY <1>1, <2>2 DEF IInv, Types
    <2>4. Indices'
      BY <1>1, <1>3, <1>5 DEF IInv, Indices
    <2> QED
      BY <2>3, <2>4
  <1>11. (\E m \in Block : Made(m)') /\ Circle'
    <2>1. Circle'
      BY <1>1 DEF IInv, Circle
    <2>2. PICK m \in Block : Made(m)
      BY DEF IInv
    <2>3. Made(m)'
      BY <1>1, <1>2, <2>2 DEF Made, Block
    <2> QED
      BY <2>1, <2>3
  <1>12. Producing'
    BY <1>1, <1>2, <1>3, <1>6, TailFacts DEF Producing
  <1>13. Consuming'
    <2>1. Held(frontBlock)' = Held(frontBlock)
      BY <1>1, <1>3, <1>8, FrontFacts
    <2>2. consumer = "move" => Held(ahead)' = Held(ahead)
      <3> SUFFICES ASSUME consumer = "move" PROVE Held(ahead)' = Held(ahead)
        OBVIOUS
      <3>1. ahead \in Chain
        BY FrontFacts DEF IInv, Consuming
      <3> QED
        BY <1>1, <1>3, <1>8, <3>1, InUse DEF IInv
    <2> QED
      BY <1>1, <1>9, <2>1, <2>2 DEF IInv, Consuming
  <1>14. Counted'
    BY <1>1, <1>2 DEF IInv, Counted
  <1> QED
    BY <1>8, <1>10, <1>11, <1>12, <1>13, <1>14 DEF IInv

(* There is room for a new block: no more are made than values are enqueued.    *)
LEMMA NewBlockFacts ==
    ASSUME IInv, producer = "link", NEW m \in Block, Made(m)
    PROVE  NewBlock = m + 1 /\ NewBlock \in Block /\ m + 1 <= enqueued + 1
  <1>1. m \in Nat /\ m <= enqueued /\ enqueued \in Nat /\ enqueued <= MaxValue /\ MaxValue \in Nat /\ m >= 1
    BY Counts, MaxValueAssumption, Lasts DEF IInv, Made, Block
  <1>2. m + 1 \in Block /\ size[m + 1] = 0 /\ \A o \in 1..m : size[o] > 0
    <2>1. m + 1 \in Block
      BY <1>1 DEF Block
    <2>2. ~(size[m + 1] > 0)
      BY <1>1, <2>1 DEF Made
    <2>3. size[m + 1] \in {0} \union Power
      BY <2>1 DEF IInv, Types
    <2>4. \A o \in 1..m : o \in Block
      BY <1>1 DEF Block
    <2> QED
      BY <1>1, <2>1, <2>2, <2>3, <2>4, Powers DEF Made
  <1>3. ASSUME NEW b \in Block, size[b] = 0, \A o \in 1..(b - 1) : size[o] > 0 PROVE b = m + 1
    <2>1. b \in Nat /\ b >= 1
      BY DEF Block
    <2>2. ~(b <= m)
      BY <1>3 DEF Made
    <2>3. ~(m + 1 <= b - 1)
      BY <1>1, <1>2, <1>3, <2>1
    <2> QED
      BY <1>1, <2>1, <2>2, <2>3
  <1>4. NewBlock = m + 1
    BY <1>1, <1>2, <1>3 DEF NewBlock
  <1> QED
    BY <1>1, <1>2, <1>4

(* A new block is of a legal size.                                              *)
LEMMA Doubled ==
    ASSUME NEW s \in Power, s <= MaxSize
    PROVE  LET d == IF s >= MaxSize THEN s ELSE s * 2
           IN  d \in Power /\ d <= MaxSize /\ d \in Nat /\ d >= 2
  <1>1. MaxSize \in Power
    BY SizeAssumption
  <1> QED
    BY <1>1 DEF Power

(* A new block behind the tail block, with the value already in it.             *)
LEMMA StepLink ==
    ASSUME IInv, Link, UNCHANGED sema, UNCHANGED consumerVars
    PROVE  IInv'
  <1> PICK b : b = NewBlock
    OBVIOUS
  <1> PICK s : s = IF largestBlockSize >= MaxSize THEN largestBlockSize ELSE largestBlockSize * 2
    OBVIOUS
  <1>1. /\ producer = "link" /\ producer' = "advance" /\ data' = [data EXCEPT ![b][0] = enqueued]
        /\ size' = [size EXCEPT ![b] = s] /\ largestBlockSize' = s
        /\ tail' = [tail EXCEPT ![b] = 1] /\ localTail' = [localTail EXCEPT ![b] = 1]
        /\ next' = [next EXCEPT ![b] = next[tailBlock], ![tailBlock] = b]
        /\ enqueued' = enqueued /\ localFront' = localFront /\ tailBlock' = tailBlock /\ sema' = sema
        /\ front' = front /\ frontBlock' = frontBlock /\ ahead' = ahead /\ consumer' = consumer
        /\ result' = result /\ dequeued' = dequeued
    BY DEF Link, Construct, consumerVars
  <1>2. PICK m \in Block : Made(m)
    BY DEF IInv
  <1>3. b = m + 1 /\ b \in Block /\ m + 1 <= enqueued + 1 /\ m \in Nat
    BY <1>1, <1>2, NewBlockFacts DEF Block
  <1>4. size[b] = 0 /\ front[b] = 0 /\ localFront[b] = 0 /\ next[b] = b
    <2>1. ~(size[b] > 0)
      BY <1>2, <1>3 DEF Made
    <2>2. size[b] = 0
      BY <1>3, <2>1, Powers DEF IInv, Types
    <2> QED
      BY <1>3, <2>1, <2>2 DEF IInv, Indices, Circle
  <1>5. /\ b \notin Chain /\ b # tailBlock /\ b # frontBlock
        /\ tailBlock \in Block /\ size[tailBlock] > 0 /\ frontBlock \in Block
    BY <1>4, TailFacts, FrontFacts, InUse DEF IInv
  <1>6. s \in Power /\ s <= MaxSize /\ s \in Nat /\ s >= 2
    BY Doubled DEF IInv, Types
  <1>7. /\ size \in [Block -> {0} \union Power] /\ tail \in [Block -> Index] /\ localTail \in [Block -> Index]
        /\ next \in [Block -> Block] /\ data \in [Block -> [Index -> 0..MaxValue]]
        /\ enqueued \in 0..MaxValue /\ 0 \in Index /\ 1 \in Index
    <2>1. 0 \in Index /\ 1 \in Index
      BY SizeAssumption, Powers DEF Index
    <2> QED
      BY <2>1 DEF IInv, Types
  <1>8. /\ \A a \in Block : /\ size'[a] = IF a = b THEN s ELSE size[a]
                            /\ tail'[a] = IF a = b THEN 1 ELSE tail[a]
                            /\ localTail'[a] = IF a = b THEN 1 ELSE localTail[a]
                            /\ a # b => data'[a] = data[a]
        /\ data'[b][0] = enqueued
        /\ data' \in [Block -> [Index -> 0..MaxValue]]
    BY <1>1, <1>3, <1>7
  <1>9. \A a \in Block : next'[a] = IF a = tailBlock THEN b ELSE IF a = b THEN next[tailBlock] ELSE next[a]
    BY <1>1, <1>3, <1>5, <1>7
  <1>10. /\ Last' = b /\ Latest' = Latest + 1 /\ Published' = Published /\ Last = tailBlock
         /\ Latest = enqueued - 1 /\ enqueued \in Nat
    <2>1. Last' = b
      BY <1>1, <1>5, <1>9 DEF Last
    <2> QED
      BY <1>1, <2>1, Counts DEF Last, Latest, Published
  <1>11. Held(b)' = 1 /\ Busy(b)' = 1 /\ At(b, 0)' = front[b]
    <2>1. front'[b] = 0 /\ localFront'[b] = 0 /\ tail'[b] = 1 /\ size'[b] = s
      BY <1>1, <1>3, <1>4, <1>8
    <2> QED
      BY <1>4, <1>6, <2>1 DEF Held, Busy, At, Dist
  <1>12. /\ Chained' /\ Chain' = Chain \union {b}
         /\ \A a \in Block \ {b} : Held(a)' = Held(a)
    <2>1. \A a \in Chain \ {tailBlock} : next'[a] = next[a]
      BY <1>5, <1>9, InUse DEF IInv
    <2>2. /\ next'[tailBlock] = b /\ size'[b] > 0 /\ data'[b][front[b]] = enqueued
      BY <1>3, <1>4, <1>5, <1>6, <1>8, <1>9
    <2>3. \A a \in Block \ {b} : size'[a] = size[a] /\ tail'[a] = tail[a]
      BY <1>8
    <2>4. \A a \in Block \ {b} : data'[a] = data[a]
      BY <1>8
    <2> QED
      BY <1>1, <1>3, <1>5, <1>10, <1>11, <2>1, <2>2, <2>3, <2>4, LongerChain
  <1>13. Types'
    <2>1. size' \in [Block -> {0} \union Power] /\ tail' \in [Block -> Index] /\ localTail' \in [Block -> Index]
      BY <1>1, <1>3, <1>6, <1>7
    <2>2. next' \in [Block -> Block]
      BY <1>1, <1>3, <1>5, <1>7
    <2> QED
      BY <1>1, <1>6, <1>7, <1>8, <2>1, <2>2 DEF IInv, Types
  <1>14. Indices'
    <2> SUFFICES ASSUME NEW a \in Block
                 PROVE  IF size'[a] > 0
                        THEN /\ size'[a] <= MaxSize
                             /\ front[a] < size'[a] /\ localTail'[a] < size'[a]
                             /\ tail'[a] < size'[a] /\ localFront[a] < size'[a]
                        ELSE front[a] = 0 /\ localTail'[a] = 0 /\ tail'[a] = 0 /\ localFront[a] = 0
      BY <1>1 DEF Indices
    <2>1. CASE a = b
      BY <1>4, <1>6, <1>8, <2>1
    <2>2. CASE a # b
      BY <1>8, <2>2 DEF IInv, Indices
    <2> QED
      BY <2>1, <2>2
  <1>15. Made(m + 1)' /\ m + 1 \in Block
    <2>1. m + 1 <= Latest' + 1
      BY <1>3, <1>10
    <2>2. \A a \in Block : size'[a] > 0 <=> a <= m + 1
      <3>1. \A a \in Block : a \in Nat /\ (size[a] > 0 <=> a <= m)
        BY <1>2 DEF Made, Block
      <3>2. size'[b] > 0 /\ \A a \in Block : a # b => size'[a] = size[a]
        BY <1>3, <1>6, <1>8
      <3> QED
        BY <1>3, <3>1, <3>2
    <2> QED
      BY <1>3, <2>1, <2>2 DEF Made
  <1>16. Circle'
    <2>1. ASSUME NEW a \in Block PROVE IF size'[a] > 0 THEN size'[next'[a]] > 0 ELSE next'[a] = a
      <3>1. size[next[tailBlock]] > 0 /\ next[tailBlock] \in Block /\ next[a] \in Block
        BY <1>5, <1>7 DEF IInv, Circle
      <3>2. IF size[a] > 0 THEN size[next[a]] > 0 ELSE next[a] = a
        BY DEF IInv, Circle
      <3>3. size'[b] > 0 /\ \A x \in Block : x # b => size'[x] = size[x]
        BY <1>3, <1>6, <1>8
      <3>4. next[tailBlock] # b
        BY <1>4, <3>1
      <3>5. CASE a = tailBlock
        BY <1>5, <1>9, <3>3, <3>5
      <3>6. CASE a = b
        <4>1. next'[a] = next[tailBlock]
          BY <1>5, <1>9, <3>6
        <4> QED
          BY <3>1, <3>3, <3>4, <3>6, <4>1
      <3>7. CASE a # tailBlock /\ a # b
        <4>1. next'[a] = next[a] /\ size'[a] = size[a]
          BY <1>9, <3>3, <3>7
        <4>2. size[a] > 0 => next[a] # b
          BY <1>4, <3>2
        <4> QED
          BY <3>1, <3>2, <3>3, <4>1, <4>2
      <3> QED
        BY <3>5, <3>6, <3>7
    <2>2. ASSUME NEW a \in Block, NEW c \in Block, next'[a] = next'[c] PROVE a = c
      <3>1. \A x, y \in Block : next[x] = next[y] => x = y
        BY DEF IInv, Circle
      <3>2. \A x \in Block : next[x] = b => x = b
        BY <1>3, <1>4, <3>1
      <3> QED
        BY <1>3, <1>5, <1>9, <2>2, <3>1, <3>2
    <2> QED
      BY <2>1, <2>2 DEF Circle
  <1>17. Producing'
    <2>1. size'[tailBlock] > 0 /\ next'[tailBlock] = b
      BY <1>5, <1>8, <1>9
    <2>2. Held(Last)' = Held(b)' /\ Busy(Last)' = Busy(b)' /\ Held(next[tailBlock])' = Held(b)'
      BY <1>1, <1>10, <2>1
    <2> QED
      BY <1>1, <1>5, <1>11, <2>1, <2>2 DEF Producing
  <1>18. Consuming'
    <2>1. frontBlock # tailBlock => next'[frontBlock] = next[frontBlock]
      BY <1>5, <1>9
    <2>2. Held(frontBlock)' = Held(frontBlock) /\ Seen(frontBlock)' = Seen(frontBlock)
      BY <1>1, <1>5, <1>8, <1>12 DEF Seen
    <2>3. consumer = "move" => Held(ahead)' = Held(ahead) /\ Seen(ahead)' = Seen(ahead)
      <3> SUFFICES ASSUME consumer = "move" PROVE Held(ahead)' = Held(ahead) /\ Seen(ahead)' = Seen(ahead)
        OBVIOUS
      <3>1. ahead \in Chain
        BY FrontFacts DEF IInv, Consuming
      <3>2. ahead \in Block /\ ahead # b
        BY <1>5, <3>1, InUse DEF IInv
      <3> QED
        BY <1>1, <1>8, <1>12, <3>2 DEF Seen
    <2> QED
      BY <1>1, <2>1, <2>2, <2>3 DEF IInv, Consuming
  <1>19. Counted'
    BY <1>1, <1>10 DEF IInv, Counted
  <1> QED
    BY <1>12, <1>13, <1>14, <1>15, <1>16, <1>17, <1>18, <1>19 DEF IInv

-----------------------------------------------------------------------------
(* Every step preserves the invariant.                                          *)
LEMMA NextIInv == IInv /\ [Next]_vars => IInv'
  <1> SUFFICES ASSUME IInv, [Next]_vars PROVE IInv'
    OBVIOUS
  <1>1. CASE Produce
    <2>1. UNCHANGED consumerVars
      BY <1>1 DEF Produce
    <2>2. CASE UNCHANGED <<sema, localTail>> /\ (BeginEnqueue \/ Write \/ Publish \/ Full)
      BY <2>1, <2>2, StepBeginEnqueue, StepWrite, StepPublish, StepFull
    <2>3. CASE UNCHANGED <<sema, localTail>> /\ (Reuse \/ PublishNext \/ Advance)
      BY <2>1, <2>3, StepReuse, StepPublishNext, StepAdvance
    <2>4. CASE Link /\ UNCHANGED sema
      BY <2>1, <2>4, StepLink
    <2>5. CASE Signal /\ UNCHANGED localTail
      BY <2>1, <2>5, StepSignal
    <2> QED
      BY <1>1, <2>2, <2>3, <2>4, <2>5 DEF Produce
  <1>2. CASE Consume
    <2>1. UNCHANGED producerVars
      BY <1>2 DEF Consume
    <2>2. CASE BeginDequeue \/ Look \/ CheckTail \/ Recheck
      BY <2>1, <2>2, StepBeginDequeue, StepLook, StepCheckTail
    <2>3. CASE LookAhead \/ Enter \/ Move \/ Read \/ Release
      BY <2>1, <2>3, StepLookAhead, StepEnter, StepMove, StepRead, StepRelease
    <2> QED
      BY <1>2, <2>2, <2>3 DEF Consume
  <1>3. CASE UNCHANGED vars
    <2>1. UNCHANGED <<producerVars, front, frontBlock, dequeued>>
      BY <1>3 DEF vars, consumerVars
    <2>2. /\ front' = front /\ localTail' = localTail /\ frontBlock' = frontBlock
          /\ ahead' = ahead /\ result' = result /\ dequeued' = dequeued /\ sema' = sema /\ consumer' = consumer
          /\ tail' = tail /\ localFront' = localFront /\ next' = next /\ data' = data /\ size' = size
          /\ tailBlock' = tailBlock /\ enqueued' = enqueued /\ producer' = producer
          /\ largestBlockSize' = largestBlockSize
      BY <1>3 DEF vars, consumerVars, producerVars
    <2>3. Types' /\ Indices'
      BY <2>2 DEF IInv, Types, Indices
    <2>4. Consuming' /\ Counted'
      BY <2>2 DEF IInv, Consuming, Seen, Held, Counted, Published
    <2> QED
      BY <2>1, <2>3, <2>4, ConsumerLooks DEF IInv
  <1> QED
    BY <1>1, <1>2, <1>3 DEF Next

(* The strengthened invariant is one of the specification.                      *)
LEMMA SpecIInv == Spec => []IInv
  BY InitIInv, NextIInv, PTL DEF Spec

(* The types of the variables: no index leaves its block, and the semaphore     *)
(* counts no more than there are values.                                        *)
THEOREM TypeCorrect == Spec => []TypeOK
  <1>1. IInv => TypeOK
    <2> SUFFICES ASSUME IInv PROVE TypeOK
      OBVIOUS
    <2>1. \A b \in Block : size[b] <= MaxSize
      <3>1. MaxSize >= 0
        BY SizeAssumption, Powers
      <3>2. \A b \in Block : size[b] = 0 \/ size[b] > 0
        BY Powers DEF IInv, Types
      <3> QED
        BY <3>1, <3>2, BlockTypes DEF IInv
    <2>2. ASSUME NEW b \in Block, size[b] > 0
          PROVE  {front[b], localTail[b], tail[b], localFront[b]} \subseteq 0..(size[b] - 1)
      BY <2>2, BlockTypes DEF IInv
    <2>3. size[frontBlock] > 0 /\ size[tailBlock] > 0
      BY FrontFacts
    <2>4. sema \in 0..MaxValue
      <3>1. /\ sema \in Nat /\ dequeued \in Nat /\ Published \in Nat /\ Published <= enqueued
            /\ enqueued \in Nat /\ enqueued <= MaxValue /\ MaxValue \in Nat
        BY Counts, MaxValueAssumption
      <3>2. sema <= Published - dequeued
        BY <3>1 DEF IInv, Counted
      <3> QED
        BY <3>1, <3>2
    <2> QED
      BY <2>1, <2>2, <2>3, <2>4 DEF IInv, Types, TypeOK, Index
  <1> QED
    BY <1>1, SpecIInv, PTL

(* What the code asserts: who has taken a count of the semaphore finds a value  *)
(* and never comes to an empty block that is the last one (line 845); the block *)
(* it goes to holds something (line 357); a block used again is empty (line     *)
(* 594).                                                                        *)
QueueAssertions ==
    /\ consumer = "checkTail" => frontBlock # tailBlock
    /\ consumer = "move" => front[ahead] # localTail[ahead]
    /\ producer = "reuse" => front[next[tailBlock]] = tail[next[tailBlock]]

(* No assertion of the two threads' calls fails, however they interleave.       *)
THEOREM NoAssertionFails == Spec => []QueueAssertions
  <1>1. ASSUME IInv PROVE QueueAssertions
    <2>1. consumer = "checkTail" => frontBlock # tailBlock
      BY <1>1 DEF IInv, Consuming
    <2>2. ASSUME consumer = "move" PROVE front[ahead] # localTail[ahead]
      <3>1. ahead \in Block /\ size[ahead] > 0
        BY <1>1, <2>2, FrontFacts DEF IInv, Types, Consuming, Circle
      <3>2. size[ahead] \in Power /\ front[ahead] \in 0..(size[ahead] - 1) /\ localTail[ahead] \in 0..(size[ahead] - 1)
        BY <1>1, <3>1, BlockTypes DEF IInv
      <3>3. 0 < Dist(front[ahead], localTail[ahead], size[ahead])
        BY <1>1, <2>2 DEF IInv, Consuming, Seen
      <3> QED
        BY <3>2, <3>3, DistStep
    <2>3. ASSUME producer = "reuse"
          PROVE  front[next[tailBlock]] = tail[next[tailBlock]]
      <3> DEFINE b == next[tailBlock]
      <3>1. tailBlock \in Block /\ size[tailBlock] > 0 /\ b \in Block /\ size[b] > 0
        BY <1>1 DEF IInv, Types, Producing, Circle
      <3>2. ~ (Held(b) > 0)
        BY <1>1, <2>3, <3>1 DEF IInv, Producing, Chain
      <3>3. size[b] \in Power /\ front[b] \in 0..(size[b] - 1) /\ tail[b] \in 0..(size[b] - 1)
        BY <1>1, <3>1, BlockTypes DEF IInv
      <3>4. Dist(front[b], tail[b], size[b]) \in 0..(size[b] - 1) /\ size[b] \in Nat
        BY <3>3, DistStep, Powers
      <3>5. Dist(front[b], tail[b], size[b]) = 0
        BY <3>2, <3>4 DEF Held
      <3>6. Dist(front[b], tail[b], size[b]) = 0 <=> front[b] = tail[b]
        BY <3>3, DistStep
      <3> QED
        BY <3>5, <3>6
    <2> QED
      BY <2>1, <2>2, <2>3 DEF QueueAssertions
  <1> QED
    BY <1>1, SpecIInv, PTL

-----------------------------------------------------------------------------
(* The queue as a sequence of consecutive values, longer at its end and shorter *)
(* at its front.                                                                *)
LEMMA Longer ==
    ASSUME NEW n \in Nat, NEW d \in Nat
    PROVE  [i \in 1..(n + 1) |-> d + i] = Append([i \in 1..n |-> d + i], d + n + 1)
  OBVIOUS

(* Without its head, the sequence of the consecutive values begins one later.   *)
LEMMA Shorter ==
    ASSUME NEW n \in Nat, n > 0, NEW d \in Nat
    PROVE  /\ [i \in 1..n |-> d + i] # <<>>
           /\ Head([i \in 1..n |-> d + i]) = d + 1
           /\ Tail([i \in 1..n |-> d + i]) = [i \in 1..(n - 1) |-> (d + 1) + i]
  <1> DEFINE q == [i \in 1..n |-> d + i]
             t == [i \in 1..(n - 1) |-> (d + 1) + i]
  <1>1. q \in Seq(Nat) /\ Len(q) = n /\ q # <<>>
    OBVIOUS
  <1>2. Tail(q) \in Seq(Nat) /\ Len(Tail(q)) = n - 1 /\ \A i \in 1..(n - 1) : Tail(q)[i] = q[i + 1]
    BY <1>1
  <1>3. t \in Seq(Nat) /\ Len(t) = n - 1
    OBVIOUS
  <1>4. \A i \in 1..(n - 1) : Tail(q)[i] = t[i]
    BY <1>2
  <1>5. Tail(q) = t
    BY <1>2, <1>3, <1>4
  <1>6. Head(q) = d + 1
    <2>1. Head(q) = q[1] /\ q[1] = d + 1
      BY <1>1
    <2> QED
      BY <2>1
  <1> QED
    BY <1>1, <1>5, <1>6

(* What a step does to the counts.                                              *)
LEMMA NextCounts ==
    ASSUME IInv, [Next]_vars
    PROVE  \/ Published' = Published /\ dequeued' = dequeued
           \/ Published' = Published + 1 /\ dequeued' = dequeued
           \/ Published' = Published /\ dequeued' = dequeued + 1 /\ dequeued < Published
  <1>1. CASE Produce
    <2>1. dequeued' = dequeued
      BY <1>1 DEF Produce, consumerVars
    <2>2. CASE UNCHANGED <<sema, localTail>> /\ (Publish \/ Advance)
      BY <1>1, <2>1, <2>2, StepPublish, StepAdvance DEF Produce
    <2>3. CASE BeginEnqueue
      <3>1. producer = "idle" /\ producer' \in {"write", "full"} /\ enqueued' = enqueued + 1
        BY <2>3 DEF BeginEnqueue
      <3> QED
        BY <2>1, <3>1, Counts DEF Published
    <2>4. CASE Write \/ Full \/ Reuse \/ PublishNext \/ Link \/ Signal
      <3>1. /\ enqueued' = enqueued
            /\ producer \in {"idle", "signal"} <=> producer' \in {"idle", "signal"}
        BY <2>4 DEF Write, Full, Reuse, PublishNext, Link, Signal
      <3> QED
        BY <2>1, <3>1 DEF Published
    <2> QED
      BY <1>1, <2>2, <2>3, <2>4 DEF Produce
  <1>2. CASE Consume
    <2>1. UNCHANGED producerVars
      BY <1>2 DEF Consume
    <2>2. Published' = Published
      BY <2>1 DEF Published, producerVars
    <2>3. CASE Release
      <3>1. dequeued' = dequeued + 1 /\ consumer = "release"
        BY <2>1, <2>3, StepRelease DEF Release
      <3> QED
        BY <2>2, <3>1, Counts
    <2>4. CASE BeginDequeue \/ Look \/ CheckTail \/ Recheck \/ LookAhead \/ Enter \/ Move \/ Read
      <3>1. dequeued' = dequeued
        BY <2>4 DEF BeginDequeue, Look, CheckTail, Recheck, LookAhead, Enter, Move, Read
      <3> QED
        BY <2>2, <3>1
    <2> QED
      BY <1>2, <2>3, <2>4 DEF Consume
  <1>3. CASE UNCHANGED vars
    BY <1>3 DEF vars, producerVars, consumerVars, Published
  <1> QED
    BY <1>1, <1>2, <1>3 DEF Next

(* The counts, also after a step.                                               *)
LEMMA IInvCounts ==
    IInv => Published \in Nat /\ Published <= enqueued /\ enqueued <= MaxValue /\ enqueued \in Nat
  BY Counts

(* The two threads with their indices, blocks and copies are a FIFO queue:      *)
(* every value is dequeued in its turn, none twice, none before it was          *)
(* published and none that was overwritten.                                     *)
THEOREM FifoImplemented == Spec => ImplementsFifo
  <1>1. Init => Queue!Init
    <2> SUFFICES ASSUME Init PROVE Queue!Init
      OBVIOUS
    <2>1. Published = 0 /\ dequeued = 0
      <3>1. enqueued = 0 /\ producer = "idle" /\ dequeued = 0
        BY DEF Init
      <3> QED
        BY <3>1, InitIInv, Lasts DEF IInv
    <2>2. [i \in 1..(Published - dequeued) |-> dequeued + i] = <<>>
      BY <2>1
    <2> QED
      BY <2>1, <2>2 DEF Queue!Init
  <1>2. IInv /\ [Next]_vars => [Queue!Next]_(Queue!vars)
    <2> SUFFICES ASSUME IInv, [Next]_vars PROVE [Queue!Next]_(Queue!vars)
      OBVIOUS
    <2>1. /\ dequeued \in Nat /\ Published \in Nat /\ dequeued <= Published /\ enqueued <= MaxValue
          /\ Published <= enqueued /\ enqueued \in Nat /\ MaxValue \in Nat
      BY Counts, MaxValueAssumption
    <2>2. PICK n \in Nat : n = Published - dequeued
      BY <2>1
    <2>3. PICK d \in Nat : d = dequeued
      BY <2>1
    <2>4. [i \in 1..(Published - dequeued) |-> dequeued + i] = [i \in 1..n |-> d + i]
      BY <2>2, <2>3
    <2>5. CASE Published' = Published /\ dequeued' = dequeued
      BY <2>5 DEF Queue!vars
    <2>6. CASE Published' = Published + 1 /\ dequeued' = dequeued
      <3>1. [i \in 1..(Published - dequeued) |-> dequeued + i]' = [i \in 1..(n + 1) |-> d + i]
        <4>1. Published' - dequeued' = n + 1
          BY <2>1, <2>2, <2>6
        <4> QED
          BY <2>3, <2>6, <4>1
      <3>2. d + n + 1 \in 1..MaxValue
        <4>1. Published' \in Nat /\ Published' <= MaxValue
          <5>1. IInv'
            BY NextIInv
          <5>2. (Published \in Nat /\ Published <= enqueued /\ enqueued <= MaxValue /\ enqueued \in Nat)'
            BY <5>1, IInvCounts, PTL
          <5> QED
            BY <2>1, <5>2
        <4> QED
          BY <2>1, <2>2, <2>3, <2>6, <4>1
      <3>3. Queue!Enqueue(d + n + 1)
        BY <2>4, <2>6, <3>1, Longer DEF Queue!Enqueue
      <3> QED
        BY <3>2, <3>3 DEF Queue!Next
    <2>7. CASE Published' = Published /\ dequeued' = dequeued + 1 /\ dequeued < Published
      <3>1. n > 0
        BY <2>1, <2>2, <2>7
      <3>2. [i \in 1..(Published - dequeued) |-> dequeued + i]' = [i \in 1..(n - 1) |-> (d + 1) + i]
        <4>1. Published' - dequeued' = n - 1 /\ dequeued' = d + 1
          BY <2>1, <2>2, <2>3, <2>7
        <4> QED
          BY <4>1
      <3>3. /\ [i \in 1..n |-> d + i] # <<>> /\ Head([i \in 1..n |-> d + i]) = d + 1
            /\ Tail([i \in 1..n |-> d + i]) = [i \in 1..(n - 1) |-> (d + 1) + i]
        BY <3>1, Shorter
      <3>4. Queue!Dequeue
        BY <2>3, <2>4, <2>7, <3>2, <3>3 DEF Queue!Dequeue
      <3> QED
        BY <3>4 DEF Queue!Next
    <2> QED
      BY <2>5, <2>6, <2>7, NextCounts
  <1> QED
    BY <1>1, <1>2, SpecIInv, PTL DEF Spec, ImplementsFifo, Queue!Spec

==============================================================================
