--------------------------------- MODULE Mesh ---------------------------------
(***************************************************************************)
(* How the SLs get connected: the constructor of ConnManager.  Every SL    *)
(* connects to the SLs of lower number, one after the other, and says      *)
(* Hello; a thread of its own accepts the connections of those of higher   *)
(* number, waits for the Hello of each and closes the listening socket.    *)
(* An SL that has all its sockets begins to poll and to send at once.      *)
(***************************************************************************)
EXTENDS Integers, Sequences, FiniteSets

CONSTANTS
    NumNode,       \* number of SLs, numbered group by group
    Backlog,       \* connections a listening socket keeps that are not accepted
    MaxFailures    \* bound: how often accept returns -1

Node == 0..(NumNode - 1)

ASSUME NumNodeAssumption == NumNode \in Nat \ {0}
ASSUME BacklogAssumption == Backlog \in Nat \ {0}
ASSUME FailuresAssumption == MaxFailures \in Nat

Active(n) == {m \in Node : m < n}

(* Mutant: expectedConnections counts one connection more.                  *)
OneTooMany(n) == {m \in Node : m >= n}

Passive(n) == {m \in Node : m > n}

(* A connection is named <<n, m>> after the SL that connects and the one    *)
(* that accepts.                                                            *)
Connection == Node \X Node
Unset == <<NumNode, NumNode>>
Msg == {"HELLO", "OTHER"}

VARIABLES
    main,       \* main[n]: the SL it connects to next; -1 when it polls
    listener,   \* listener[n]: "bound", "accepting", "reading", "closed" or "failed"
    accepted,   \* accepted[n]: turns of the accepting loop, failed ones included
    current,    \* current[n]: the connection the accepting thread reads from
    backlog,    \* backlog[n]: the connections not accepted yet
    fdSocket,   \* fdSocket[n][m]: the connection with m, or Unset
    stream,     \* stream[c]: what the SL that connected has sent and nobody read
    failures    \* how often accept has failed

vars == <<main, listener, accepted, current, backlog, fdSocket, stream, failures>>

TypeOK ==
    /\ main \in [Node -> Node \union {-1}]
    /\ listener \in [Node -> {"bound", "accepting", "reading", "closed", "failed"}]
    /\ accepted \in [Node -> Node]
    /\ current \in [Node -> Connection \union {Unset}]
    /\ backlog \in [Node -> Seq(Connection)]
    /\ \A n \in Node : Len(backlog[n]) <= Backlog
    /\ fdSocket \in [Node -> [Node -> Connection \union {Unset}]]
    /\ stream \in [Connection -> Seq(Msg)]
    /\ failures \in 0..MaxFailures

(* The socket is bound before the thread starts.                            *)
Init ==
    /\ main = [n \in Node |-> 0]
    /\ listener = [n \in Node |-> "bound"]
    /\ accepted = [n \in Node |-> 0]
    /\ current = [n \in Node |-> Unset]
    /\ backlog = [n \in Node |-> <<>>]
    /\ fdSocket = [n \in Node |-> [m \in Node |-> Unset]]
    /\ stream = [c \in Connection |-> <<>>]
    /\ failures = 0

-----------------------------------------------------------------------------
(* The main thread.                                                         *)

Listens(n) == listener[n] \in {"accepting", "reading"}

CanConnect(n, m) == m \in Active(n) /\ Listens(m) /\ Len(backlog[m]) < Backlog

(* connect succeeds when the kernel of m has queued the connection, before  *)
(* it is accepted; until then the loop goes round.                          *)
Connect(n) ==
    LET m == main[n]
    IN  /\ m >= 0
        /\ fdSocket[n][m] = Unset
        /\ CanConnect(n, m)
        /\ fdSocket' = [fdSocket EXCEPT ![n][m] = <<n, m>>]
        /\ backlog' = [backlog EXCEPT ![m] = Append(@, <<n, m>>)]
        /\ UNCHANGED <<main, listener, accepted, current, stream, failures>>

SendHello(n) ==
    LET m == main[n]
    IN  /\ m \in Active(n)
        /\ fdSocket[n][m] # Unset
        /\ stream' = [stream EXCEPT ![<<n, m>>] = Append(@, "HELLO")]
        /\ main' = [main EXCEPT ![n] = @ + 1]
        /\ UNCHANGED <<listener, accepted, current, backlog, fdSocket, failures>>

(* Mutant: the constructor does not wait for the accepting thread.          *)
IsConnected(n) == main[n] = n

MayStart(n) == main[n] = n /\ listener[n] \in {"closed", "failed"}

(* waitForResult returns and its result is not looked at; rgPoll is filled, *)
(* and the threads start to send on what it has in fdSocket.                *)
Start(n) ==
    /\ MayStart(n)
    /\ main' = [main EXCEPT ![n] = -1]
    /\ stream' = [c \in Connection |->
          IF c[1] = n /\ c[2] \in Active(n) THEN Append(stream[c], "OTHER") ELSE stream[c]]
    /\ UNCHANGED <<listener, accepted, current, backlog, fdSocket, failures>>

-----------------------------------------------------------------------------
(* The accepting thread: listenForIncomingConnections.                      *)

EndOfTurn(n) ==
    /\ accepted' = [accepted EXCEPT ![n] = @ + 1]
    /\ listener' = [listener EXCEPT ![n] =
          IF accepted[n] + 1 >= Cardinality(Passive(n)) THEN "closed" ELSE "accepting"]

Listen(n) ==
    /\ listener[n] = "bound"
    /\ listener' = [listener EXCEPT ![n] = IF Passive(n) = {} THEN "closed" ELSE "accepting"]
    /\ UNCHANGED <<main, accepted, current, backlog, fdSocket, stream, failures>>

(* listen returns -1, and so does the thread: nobody can connect to n.      *)
ListenFails(n) ==
    /\ listener[n] = "bound"
    /\ listener' = [listener EXCEPT ![n] = "failed"]
    /\ UNCHANGED <<main, accepted, current, backlog, fdSocket, stream, failures>>

Accept(n) ==
    /\ listener[n] = "accepting"
    /\ backlog[n] # <<>>
    /\ current' = [current EXCEPT ![n] = Head(backlog[n])]
    /\ backlog' = [backlog EXCEPT ![n] = Tail(@)]
    /\ listener' = [listener EXCEPT ![n] = "reading"]
    /\ UNCHANGED <<main, accepted, fdSocket, stream, failures>>

(* accept returns -1, and the turn is over.                                 *)
AcceptFails(n) ==
    /\ listener[n] = "accepting"
    /\ failures < MaxFailures
    /\ failures' = failures + 1
    /\ EndOfTurn(n)
    /\ UNCHANGED <<main, current, backlog, fdSocket, stream>>

(* What is not a Hello is thrown away.                                      *)
ReadHello(n) ==
    LET c == current[n]
    IN  /\ listener[n] = "reading"
        /\ stream[c] # <<>>
        /\ stream' = [stream EXCEPT ![c] = Tail(@)]
        /\ IF Head(stream[c]) = "HELLO"
           THEN /\ fdSocket' = [fdSocket EXCEPT ![n][c[1]] = c]
                /\ EndOfTurn(n)
           ELSE UNCHANGED <<fdSocket, accepted, listener>>
        /\ UNCHANGED <<main, current, backlog, failures>>

-----------------------------------------------------------------------------
Main(n) == Connect(n) \/ SendHello(n) \/ Start(n)
Accepting(n) == Listen(n) \/ Accept(n) \/ ReadHello(n)

Next == \E n \in Node : Main(n) \/ Accepting(n) \/ ListenFails(n) \/ AcceptFails(n)

Spec == Init /\ [][Next]_vars

Fairness == \A n \in Node : WF_vars(Main(n)) /\ WF_vars(Accepting(n))

FairSpec == Spec /\ Fairness

-----------------------------------------------------------------------------
(* What an SL lacks when it begins to poll: after a failed listen exactly   *)
(* the sockets of those that connect to it, otherwise no more than accepts  *)
(* have failed, at some SL or other.  The others are not touched by it.     *)
OneSocketPerFailure ==
    \A n \in Node : main[n] = -1 =>
        LET missing == {m \in Node \ {n} : fdSocket[n][m] = Unset}
        IN  IF listener[n] = "failed" THEN missing = Passive(n)
            ELSE Cardinality(missing) <= failures

(* Every SL gets through its constructor: connecting in the order of the    *)
(* numbers waits for nobody in a circle ("Retry until succeeds", line 250). *)
(* After a failure there are SLs that dial for ever: those that connect to  *)
(* an SL that does not listen, or that closed the socket one too early.     *)
EveryConstructorReturns ==
    [](failures = 0 /\ \A n \in Node : listener[n] # "failed") => \A n \in Node : <>(main[n] = -1)

==============================================================================
