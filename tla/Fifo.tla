--------------------------------- MODULE Fifo ---------------------------------
(* A queue of one producer and one consumer, as its users think of it.        *)
EXTENDS Naturals, Sequences

CONSTANT MaxValue   \* bound: the producer enqueues 1, 2, ..., MaxValue

VARIABLES
    queue,    \* what is in it
    result    \* what the consumer has dequeued last, 0 before that

vars == <<queue, result>>

Init == queue = <<>> /\ result = 0

Enqueue(v) == queue' = Append(queue, v) /\ UNCHANGED result

Dequeue ==
    /\ queue # <<>>
    /\ result' = Head(queue)
    /\ queue' = Tail(queue)

Next == Dequeue \/ \E v \in 1..MaxValue : Enqueue(v)

Spec == Init /\ [][Next]_vars

==============================================================================
