------------------------------ MODULE Transport ------------------------------
(***************************************************************************)
(* The threads of every SL that carry messages: the sender takes elements  *)
(* from clientQueue and sendQueue and writes them to one socket after      *)
(* another; the listener polls the sockets and reads one whole message     *)
(* from each that is ready.  Both block: send when the socket is full,     *)
(* recv when the rest of a message is not there.                           *)
(*                                                                         *)
(* A message is two pieces, its header and its payload, as they are read;  *)
(* a socket holds at most Capacity pieces.  An SL may be killed between    *)
(* any two steps.  Nobody survives that in the code: what it has written   *)
(* can be read, but then its socket is ready for ever, recv returns 0 and  *)
(* the listener stays in its loop; and a write to it may raise SIGPIPE,    *)
(* which ends the writer.                                                  *)
(***************************************************************************)
EXTENDS Integers, Sequences, FiniteSets

CONSTANTS
    NumNode,   \* number of SLs, numbered in the order of their poll slots
    Capacity,  \* pieces of messages a socket holds
    Requests,  \* Requests[n]: the receivers of what the client of n enqueues, in order
    Sends,     \* Sends[n]: the receivers of what the dispatcher of n enqueues, in order
    Mortal     \* the SLs that may be killed

Node == 0..(NumNode - 1)

ASSUME NumNodeAssumption == NumNode \in Nat \ {0}
ASSUME CapacityAssumption == Capacity \in Nat \ {0}
ASSUME WorkAssumption == Requests \in [Node -> Seq(SUBSET Node)] /\ Sends \in [Node -> Seq(SUBSET Node)]
ASSUME MortalAssumption == Mortal \subseteq Node

Elements(n) ==
    {[queue |-> "client", from |-> n, seq |-> i, to |-> Requests[n][i]] : i \in DOMAIN Requests[n]}
    \union {[queue |-> "send", from |-> n, seq |-> i, to |-> Sends[n][i]] : i \in DOMAIN Sends[n]}
Message == UNION {Elements(n) : n \in Node}

None == [queue |-> "none", from |-> 0, seq |-> 0, to |-> {}]

Piece == [message: Message, part: {"header", "payload"}]

VARIABLES
    requested,   \* requested[n]: how many requests the client has enqueued
    sent,        \* sent[n]: how many messages the dispatcher has enqueued
    clientQueue, \* clientQueue[n], sendQueue[n]: the queues of the sender
    sendQueue,
    element,     \* element[n]: what the sender is sending, or None
    upPeers,     \* upPeers[n]: the receivers it has not written to
    half,        \* half[n]: the header is written to the first of them, the payload is not
    socket,      \* socket[n][m]: pieces written by n and not read by m
    revents,     \* revents[n]: the slots the last poll found ready and not served
    reading,     \* reading[n]: the message whose header the listener has read, or None
    recvQueue,   \* recvQueue[n]: the messages received, first to last
    dead         \* the SLs that have been killed

senderVars == <<requested, sent, clientQueue, sendQueue, element, upPeers, half>>
listenerVars == <<revents, reading>>
vars == <<senderVars, listenerVars, socket, recvQueue, dead>>

TypeOK ==
    /\ requested \in [Node -> Nat]
    /\ sent \in [Node -> Nat]
    /\ clientQueue \in [Node -> Seq(Message)]
    /\ sendQueue \in [Node -> Seq(Message)]
    /\ element \in [Node -> Message \union {None}]
    /\ upPeers \in [Node -> Seq(Node)]
    /\ half \in [Node -> BOOLEAN]
    /\ socket \in [Node -> [Node -> Seq(Piece)]]
    /\ \A n, m \in Node : Len(socket[n][m]) <= Capacity
    /\ revents \in [Node -> SUBSET Node]
    /\ reading \in [Node -> Message \union {None}]
    /\ recvQueue \in [Node -> Seq(Message)]
    /\ dead \subseteq Node

Init ==
    /\ requested = [n \in Node |-> 0]
    /\ sent = [n \in Node |-> 0]
    /\ clientQueue = [n \in Node |-> <<>>]
    /\ sendQueue = [n \in Node |-> <<>>]
    /\ element = [n \in Node |-> None]
    /\ upPeers = [n \in Node |-> <<>>]
    /\ half = [n \in Node |-> FALSE]
    /\ socket = [n \in Node |-> [m \in Node |-> <<>>]]
    /\ revents = [n \in Node |-> {}]
    /\ reading = [n \in Node |-> None]
    /\ recvQueue = [n \in Node |-> <<>>]
    /\ dead = {}

-----------------------------------------------------------------------------
(* The threads that feed the sender.                                        *)

(* A turn of mockClient.                                                    *)
ClientRequest(n) ==
    /\ requested[n] < Len(Requests[n])
    /\ requested' = [requested EXCEPT ![n] = @ + 1]
    /\ clientQueue' = [clientQueue EXCEPT ![n] = Append(@,
          [queue |-> "client", from |-> n, seq |-> requested'[n], to |-> Requests[n][requested'[n]]])]
    /\ UNCHANGED <<sent, sendQueue, element, upPeers, half, listenerVars, socket, recvQueue, dead>>

(* A handler sends something.                                               *)
DispatcherSend(n) ==
    /\ sent[n] < Len(Sends[n])
    /\ sent' = [sent EXCEPT ![n] = @ + 1]
    /\ sendQueue' = [sendQueue EXCEPT ![n] = Append(@,
          [queue |-> "send", from |-> n, seq |-> sent'[n], to |-> Sends[n][sent'[n]]])]
    /\ UNCHANGED <<requested, clientQueue, element, upPeers, half, listenerVars, socket, recvQueue, dead>>

-----------------------------------------------------------------------------
(* The sender.                                                              *)

(* upPeers is a list that was pushed to at its front: any order.            *)
Orders(S) == {q \in [1..Cardinality(S) -> S] : \A i, j \in DOMAIN q : i # j => q[i] # q[j]}

(* Mutant: the copy to oneself goes through a connection like the others.   *)
TakeElementLoopback(n, e) ==
    /\ element' = [element EXCEPT ![n] = e]
    /\ \E q \in Orders(e.to) : upPeers' = [upPeers EXCEPT ![n] = q]
    /\ UNCHANGED <<requested, sent, half, listenerVars, socket, recvQueue, dead>>

(* The copy to oneself goes to recvQueue before any socket is written to.   *)
TakeElement(n, e) ==
    /\ element' = [element EXCEPT ![n] = IF e.to \subseteq {n} THEN None ELSE e]
    /\ \E q \in Orders(e.to \ {n}) : upPeers' = [upPeers EXCEPT ![n] = q]
    /\ recvQueue' = IF n \in e.to THEN [recvQueue EXCEPT ![n] = Append(@, e)] ELSE recvQueue
    /\ UNCHANGED <<requested, sent, half, listenerVars, socket, dead>>

(* Client messages first.                                                   *)
Take(n) ==
    /\ element[n] = None
    /\ IF clientQueue[n] # <<>>
       THEN /\ TakeElement(n, Head(clientQueue[n]))
            /\ clientQueue' = [clientQueue EXCEPT ![n] = Tail(@)]
            /\ UNCHANGED sendQueue
       ELSE /\ sendQueue[n] # <<>>
            /\ TakeElement(n, Head(sendQueue[n]))
            /\ sendQueue' = [sendQueue EXCEPT ![n] = Tail(@)]
            /\ UNCHANGED clientQueue

HasRoom(n) == element[n] # None /\ Len(socket[n][Head(upPeers[n])]) < Capacity

Write(n, m, part) ==
    socket' = [socket EXCEPT ![n][m] = Append(@, [message |-> element[n], part |-> part])]

WriteHeader(n) ==
    /\ HasRoom(n)
    /\ ~half[n]
    /\ Write(n, Head(upPeers[n]), "header")
    /\ half' = [half EXCEPT ![n] = TRUE]
    /\ UNCHANGED <<requested, sent, clientQueue, sendQueue, element, upPeers, listenerVars, recvQueue, dead>>

(* The element is freed when its last receiver has it.                      *)
WritePayload(n) ==
    /\ HasRoom(n)
    /\ half[n]
    /\ Write(n, Head(upPeers[n]), "payload")
    /\ half' = [half EXCEPT ![n] = FALSE]
    /\ upPeers' = [upPeers EXCEPT ![n] = Tail(@)]
    /\ element' = [element EXCEPT ![n] = IF Len(upPeers[n]) = 1 THEN None ELSE @]
    /\ UNCHANGED <<requested, sent, clientQueue, sendQueue, listenerVars, recvQueue, dead>>

-----------------------------------------------------------------------------
(* The listener.                                                            *)

(* Mutant: one thread sends and receives, and does the one before the other.*)
ReadableWhenIdle(n) == {m \in Node : element[n] = None /\ socket[m][n] # <<>>}

(* The end of the stream is an event to poll.                               *)
Readable(n) == {m \in Node : socket[m][n] # <<>> \/ m \in dead}

Poll(n) ==
    /\ revents[n] = {}
    /\ Readable(n) # {}
    /\ revents' = [revents EXCEPT ![n] = Readable(n)]
    /\ UNCHANGED <<senderVars, reading, socket, recvQueue, dead>>

Slot(n) == CHOOSE m \in revents[n] : \A o \in revents[n] : m <= o

(* Mutant: the payload is read from whichever socket has something.         *)
AnyReadable(n) ==
    IF \A m \in Node : socket[m][n] = <<>> THEN Slot(n)
    ELSE CHOOSE m \in Node : socket[m][n] # <<>> /\ \A o \in 0..(m - 1) : socket[o][n] = <<>>

PayloadSlot(n) == Slot(n)

(* recv does not return before there is something, or ever if m is dead.    *)
ReadHeader(n) ==
    /\ revents[n] # {}
    /\ reading[n] = None
    /\ LET m == Slot(n)
       IN  /\ socket[m][n] # <<>>
           /\ reading' = [reading EXCEPT ![n] = Head(socket[m][n]).message]
           /\ socket' = [socket EXCEPT ![m][n] = Tail(@)]
    /\ UNCHANGED <<senderVars, revents, recvQueue, dead>>

(* Nor before the payload is there, whoever else waits.                     *)
ReadPayload(n) ==
    /\ reading[n] # None
    /\ LET m == PayloadSlot(n)
       IN  /\ socket[m][n] # <<>>
           /\ recvQueue' = [recvQueue EXCEPT ![n] = Append(@, Head(socket[m][n]).message)]
           /\ socket' = [socket EXCEPT ![m][n] = Tail(@)]
    /\ revents' = [revents EXCEPT ![n] = @ \ {Slot(n)}]
    /\ reading' = [reading EXCEPT ![n] = None]
    /\ UNCHANGED <<senderVars, dead>>

-----------------------------------------------------------------------------
(* SIGPIPE, or EXCEPTION_SEND in the sender thread.                         *)
WriteToDead(n) ==
    /\ element[n] # None
    /\ Head(upPeers[n]) \in dead
    /\ dead' = dead \union {n}
    /\ UNCHANGED <<senderVars, listenerVars, socket, recvQueue>>

Sender(n) == Take(n) \/ WriteHeader(n) \/ WritePayload(n) \/ WriteToDead(n)
Listener(n) == Poll(n) \/ ReadHeader(n) \/ ReadPayload(n)

(* The process is killed.                                                   *)
Kill(n) ==
    /\ n \in Mortal
    /\ dead' = dead \union {n}
    /\ UNCHANGED <<senderVars, listenerVars, socket, recvQueue>>

Next ==
    \E n \in Node \ dead :
        ClientRequest(n) \/ DispatcherSend(n) \/ Sender(n) \/ Listener(n) \/ Kill(n)

Spec == Init /\ [][Next]_vars

(* Each thread of an SL that lives goes on.                                 *)
Fairness ==
    \A n \in Node :
        /\ WF_vars(n \notin dead /\ ClientRequest(n))
        /\ WF_vars(n \notin dead /\ DispatcherSend(n))
        /\ WF_vars(n \notin dead /\ Sender(n))
        /\ WF_vars(n \notin dead /\ Listener(n))

FairSpec == Spec /\ Fairness

-----------------------------------------------------------------------------
Received(n) == {recvQueue[n][i] : i \in DOMAIN recvQueue[n]}

(* An SL that sends to all has put its own copy into its recvQueue before   *)
(* any other SL has one.  (The queue keeps the order of one thread only, so *)
(* the dispatcher may yet take an answer first.)                            *)
OwnCopyFirst ==
    \A n, m \in Node : \A e \in Received(m) :
        e.from = n /\ n \in e.to => e \in Received(n)

(* One sender thread and one listener thread per SL, all of them blocking,  *)
(* never wait for each other in a circle: while nobody is killed, whatever  *)
(* is enqueued reaches all its receivers.                                   *)
EveryMessageArrives ==
    [](dead = {}) => <>(\A e \in Message : \A m \in e.to : e \in Received(m))

(* What is on its way from n to m, the oldest first: the messages whose     *)
(* payloads are in the socket, every other piece of it, and the one that    *)
(* the sender has still to write.                                           *)
Begun(q) == IF q # <<>> /\ q[1].part = "payload" THEN 1 ELSE 0
Whole(q) == [i \in 1..((Len(q) + Begun(q)) \div 2) |-> q[2 * i - Begun(q)].message]
ToWrite(n, m) == \E i \in DOMAIN upPeers[n] : upPeers[n][i] = m
OnTheWay(n, m) ==
    IF ToWrite(n, m) THEN Append(Whole(socket[n][m]), element[n]) ELSE Whole(socket[n][m])

(* The sockets and threads implement channels from SL to SL that lose,      *)
(* repeat and overtake nothing, whoever is killed and when: a header that   *)
(* was read is completed by its own payload or not at all, though there is  *)
(* nothing in a stream to find the next header by.                          *)
Abstract == INSTANCE Channels WITH
    chan <- [n \in Node |-> [m \in Node |-> OnTheWay(n, m)]],
    inbox <- recvQueue

ImplementsChannels == Abstract!Spec

==============================================================================
