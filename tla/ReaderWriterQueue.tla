--------------------------- MODULE ReaderWriterQueue ---------------------------
(***************************************************************************)
(* readerwriterqueue.h: the queue from the dispatcher, and the one from    *)
(* the client, to the sender thread.  A circular list of blocks, each a    *)
(* circular buffer; the producer owns all tails, the consumer all fronts.  *)
(* There is one action per access to what the other thread owns or reads.  *)
(* Memory is sequentially consistent: the fences of the code are taken to  *)
(* do what they are for.                                                   *)
(*                                                                         *)
(* BlockingReaderWriterQueue, which both queues are, signals sema after    *)
(* every enqueue and takes a count from it before every dequeue.           *)
(***************************************************************************)
EXTENDS Integers, Sequences, FiniteSets

CONSTANTS
    FirstSize,  \* slots of the first block, one of which is never used
    MaxSize,    \* MAX_BLOCK_SIZE
    MaxValue    \* bound: the producer enqueues 1, 2, ..., MaxValue

Power == {2, 4, 8, 16, 32, 64, 128, 256, 512, 1024}

ASSUME SizeAssumption == FirstSize \in Power /\ MaxSize \in Power /\ FirstSize <= MaxSize
ASSUME MaxValueAssumption == MaxValue \in Nat

Block == 1..(MaxValue + 1)   \* a block more than is ever made

VARIABLES
    size,       \* size[b]: slots of block b, 0 if it is not made yet
    front, localTail,      \* written by the consumer
    tail, localFront,      \* written by the producer
    next,       \* next[b]: the block after b in the circle
    data,       \* data[b][i]: the value in a slot, 0 if there is none
    frontBlock, tailBlock,
    largestBlockSize,
    enqueued,   \* values enqueued, the one being enqueued included
    producer,   \* where the producer is
    consumer,   \* where the consumer is
    ahead,      \* the block the consumer is going to
    result,     \* the value the consumer has moved out last
    dequeued,   \* the value of the last dequeue that is over
    sema        \* count of the semaphore

producerVars == <<tail, localFront, next, data, size, tailBlock, largestBlockSize, enqueued, producer>>
consumerVars == <<front, frontBlock, ahead, consumer, result, dequeued>>
vars == <<producerVars, consumerVars, localTail, sema>>

TypeOK ==
    /\ size \in [Block -> {0} \union Power]
    /\ \A b \in Block : size[b] <= MaxSize
    /\ \A b \in Block : size[b] > 0 =>
          {front[b], localTail[b], tail[b], localFront[b]} \subseteq 0..(size[b] - 1)
    /\ next \in [Block -> Block]
    /\ data \in [Block -> [0..(MaxSize - 1) -> 0..MaxValue]]
    /\ size[frontBlock] > 0 /\ size[tailBlock] > 0
    /\ enqueued \in 0..MaxValue
    /\ producer \in {"idle", "write", "publish", "full", "reuse", "publishNext", "link", "advance", "signal"}
    /\ consumer \in {"idle", "look", "checkTail", "recheck", "next", "enter", "move",
                    "read", "release"}
    /\ ahead \in Block
    /\ result \in 0..MaxValue /\ dequeued \in 0..MaxValue
    /\ sema \in 0..MaxValue

Zeroes == [b \in Block |-> 0]

Init ==
    /\ size = [Zeroes EXCEPT ![1] = FirstSize]
    /\ front = Zeroes /\ localTail = Zeroes /\ tail = Zeroes /\ localFront = Zeroes
    /\ next = [b \in Block |-> b]
    /\ data = [b \in Block |-> [i \in 0..(MaxSize - 1) |-> 0]]
    /\ frontBlock = 1 /\ tailBlock = 1
    /\ largestBlockSize = FirstSize
    /\ enqueued = 0
    /\ producer = "idle" /\ consumer = "idle"
    /\ ahead = 1 /\ result = 0 /\ dequeued = 0
    /\ sema = 0

-----------------------------------------------------------------------------
(* The producer: inner_enqueue<CanAlloc>.                                   *)

Increment(b, i) == (i + 1) % size[b]

(* front of the own block is only looked at when the copy says it is full.  *)
BeginEnqueue ==
    LET b == tailBlock
        n == Increment(b, tail[b])
    IN  /\ producer = "idle"
        /\ enqueued < MaxValue
        /\ enqueued' = enqueued + 1
        /\ IF n # localFront[b]
           THEN producer' = "write" /\ UNCHANGED localFront
           ELSE /\ localFront' = [localFront EXCEPT ![b] = front[b]]
                /\ producer' = IF n # front[b] THEN "write" ELSE "full"
        /\ UNCHANGED <<tail, next, data, size, tailBlock, largestBlockSize>>

Construct(b, i) == data' = [data EXCEPT ![b][i] = enqueued]

Write ==
    /\ producer = "write"
    /\ Construct(tailBlock, tail[tailBlock])
    /\ producer' = "publish"
    /\ UNCHANGED <<tail, localFront, next, size, tailBlock, largestBlockSize, enqueued>>

Publish ==
    /\ producer = "publish"
    /\ tail' = [tail EXCEPT ![tailBlock] = Increment(tailBlock, @)]
    /\ producer' = "signal"
    /\ UNCHANGED <<localFront, next, data, size, tailBlock, largestBlockSize, enqueued>>

(* Mutant: the next block is used even if the consumer reads from it.       *)
AnyBlockAhead == next[tailBlock] # tailBlock

FreeBlockAhead == next[tailBlock] # frontBlock

Full ==
    /\ producer = "full"
    /\ producer' = IF FreeBlockAhead THEN "reuse" ELSE "link"
    /\ UNCHANGED <<tail, localFront, next, data, size, tailBlock, largestBlockSize, enqueued>>

Reuse ==
    LET b == next[tailBlock]
    IN  /\ producer = "reuse"
        /\ localFront' = [localFront EXCEPT ![b] = front[b]]
        /\ Construct(b, tail[b])
        /\ producer' = "publishNext"
        /\ UNCHANGED <<tail, next, size, tailBlock, largestBlockSize, enqueued>>

PublishNext ==
    LET b == next[tailBlock]
    IN  /\ producer = "publishNext"
        /\ tail' = [tail EXCEPT ![b] = Increment(b, @)]
        /\ producer' = "advance"
        /\ UNCHANGED <<localFront, next, data, size, tailBlock, largestBlockSize, enqueued>>

NewBlock == CHOOSE b \in Block : size[b] = 0 /\ \A o \in 1..(b - 1) : size[o] > 0

(* The value is in the new block before the block is in the circle.         *)
Link ==
    LET b == NewBlock
        s == IF largestBlockSize >= MaxSize THEN largestBlockSize ELSE largestBlockSize * 2
    IN  /\ producer = "link"
        /\ size' = [size EXCEPT ![b] = s]
        /\ largestBlockSize' = s
        /\ Construct(b, 0)
        /\ tail' = [tail EXCEPT ![b] = 1]
        /\ localTail' = [localTail EXCEPT ![b] = 1]
        /\ next' = [next EXCEPT ![b] = next[tailBlock], ![tailBlock] = b]
        /\ producer' = "advance"
        /\ UNCHANGED <<localFront, tailBlock, enqueued>>

Advance ==
    /\ producer = "advance"
    /\ tailBlock' = next[tailBlock]
    /\ producer' = "signal"
    /\ UNCHANGED <<tail, localFront, next, data, size, largestBlockSize, enqueued>>

Signal ==
    /\ producer = "signal"
    /\ producer' = "idle"
    /\ sema' = sema + 1
    /\ UNCHANGED <<tail, localFront, next, data, size, tailBlock, largestBlockSize, enqueued>>

Produce ==
    /\ \/ /\ BeginEnqueue \/ Write \/ Publish \/ Full \/ Reuse \/ PublishNext \/ Advance
          /\ UNCHANGED <<sema, localTail>>
       \/ Link /\ UNCHANGED sema
       \/ Signal /\ UNCHANGED localTail
    /\ UNCHANGED consumerVars

-----------------------------------------------------------------------------
(* The consumer: try_dequeue of the queue inside, after tryWait of sema.    *)

BeginDequeue ==
    /\ consumer = "idle"
    /\ sema > 0
    /\ sema' = sema - 1
    /\ consumer' = "look"
    /\ UNCHANGED <<front, localTail, frontBlock, ahead, result, dequeued>>

(* Mutant: the copy of tail is not brought up to date.                      *)
StaleTail(b) == localTail[b]
SeenTail(b) == tail[b]

(* The copy of tail is looked at before tail.                               *)
Look ==
    LET b == frontBlock
    IN  /\ consumer = "look"
        /\ IF front[b] # localTail[b]
           THEN consumer' = "read" /\ UNCHANGED localTail
           ELSE /\ localTail' = [localTail EXCEPT ![b] = SeenTail(b)]
                /\ consumer' = IF front[b] # SeenTail(b) THEN "read" ELSE "checkTail"
        /\ UNCHANGED <<front, frontBlock, ahead, result, dequeued, sema>>

(* No element in the only block would mean that sema has counted one too    *)
(* many, which try_dequeue asserts (line 845): there is no step for it.     *)
CheckTail ==
    /\ consumer = "checkTail"
    /\ frontBlock # tailBlock
    /\ consumer' = "recheck"
    /\ UNCHANGED <<front, localTail, frontBlock, ahead, result, dequeued, sema>>

Recheck ==
    LET b == frontBlock
    IN  /\ consumer = "recheck"
        /\ localTail' = [localTail EXCEPT ![b] = SeenTail(b)]
        /\ consumer' = IF front[b] # SeenTail(b) THEN "read" ELSE "next"
        /\ UNCHANGED <<front, frontBlock, ahead, result, dequeued, sema>>

LookAhead ==
    /\ consumer = "next"
    /\ ahead' = next[frontBlock]
    /\ consumer' = "enter"
    /\ UNCHANGED <<front, localTail, frontBlock, result, dequeued, sema>>

Enter ==
    /\ consumer = "enter"
    /\ localTail' = [localTail EXCEPT ![ahead] = tail[ahead]]
    /\ consumer' = "move"
    /\ UNCHANGED <<front, frontBlock, ahead, result, dequeued, sema>>

(* From here on the producer may use the block left behind.                 *)
Move ==
    /\ consumer = "move"
    /\ frontBlock' = ahead
    /\ consumer' = "read"
    /\ UNCHANGED <<front, localTail, ahead, result, dequeued, sema>>

Read ==
    /\ consumer = "read"
    /\ result' = data[frontBlock][front[frontBlock]]
    /\ consumer' = "release"
    /\ UNCHANGED <<front, localTail, frontBlock, ahead, dequeued, sema>>

Release ==
    /\ consumer = "release"
    /\ front' = [front EXCEPT ![frontBlock] = (@ + 1) % size[frontBlock]]
    /\ dequeued' = result
    /\ consumer' = "idle"
    /\ UNCHANGED <<localTail, frontBlock, ahead, result, sema>>

Consume ==
    /\ \/ BeginDequeue \/ Look \/ CheckTail \/ Recheck \/ LookAhead \/ Enter \/ Move
       \/ Read \/ Release
    /\ UNCHANGED producerVars

Next == Produce \/ Consume

Spec == Init /\ [][Next]_vars

(* Neither thread stops within a call, and the sender thread asks again and *)
(* again.  Nothing is assumed of when there is something to enqueue.        *)
FairSpec == Spec /\ WF_vars(Produce /\ producer # "idle") /\ WF_vars(Consume)

-----------------------------------------------------------------------------
(* The two indices, the block pointers and the copies implement a queue: an *)
(* element is in it when the tail, or for a block's first element the tail  *)
(* block, has moved on, and it is out of it when the front has.  A block is *)
(* used again only when it is empty (line 594), or elements would be lost.  *)
(* As the values are 1, 2, ..., it holds those between the last one that    *)
(* was dequeued and the last one that was published: that the consumer      *)
(* finds them in the blocks, in this order, is what there is to show.       *)
Published == enqueued - (IF producer \in {"idle", "signal"} THEN 0 ELSE 1)

Queue == INSTANCE Fifo WITH
    queue <- [i \in 1..(Published - dequeued) |-> dequeued + i], result <- dequeued

ImplementsFifo == Queue!Spec

(* The sender gets every element: none is left in a block it has moved past,*)
(* and who took a count of sema finds one (lines 357 and 845 assert it),    *)
(* though sema and the indices are different variables.                     *)
EveryValueDequeued == \A v \in 1..MaxValue : enqueued = v ~> dequeued >= v

==============================================================================
