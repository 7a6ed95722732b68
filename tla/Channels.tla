------------------------------- MODULE Channels -------------------------------
(***************************************************************************)
(* What the sender and listener threads and the sockets between them       *)
(* promise to the dispatchers: what an SL sends reaches every receiver     *)
(* once, whole, and in the order in which its sender thread took it up.    *)
(* A copy to oneself arrives at once.                                      *)
(***************************************************************************)
EXTENDS Sequences

CONSTANTS
    Node,     \* the SLs of all groups
    Message   \* what an SL may send: records with a field from and a field to,
              \* the receivers

VARIABLES
    chan,   \* chan[n][m]: messages on their way from n to m
    inbox   \* inbox[n]: the messages n has received

vars == <<chan, inbox>>

Init ==
    /\ chan = [n \in Node |-> [m \in Node |-> <<>>]]
    /\ inbox = [n \in Node |-> <<>>]

(* A message enters the channels to all its receivers; the channel to       *)
(* oneself is always empty.                                                 *)
Send(e) ==
    /\ chan' = [chan EXCEPT ![e.from] = [m \in Node |->
                   IF m \in e.to \ {e.from} THEN Append(@[m], e) ELSE @[m]]]
    /\ inbox' = IF e.from \in e.to THEN [inbox EXCEPT ![e.from] = Append(@, e)] ELSE inbox

Deliver(n, m) ==
    /\ chan[n][m] # <<>>
    /\ inbox' = [inbox EXCEPT ![m] = Append(@, Head(chan[n][m]))]
    /\ chan' = [chan EXCEPT ![n][m] = Tail(@)]

Next ==
    \/ \E e \in Message : Send(e)
    \/ \E n, m \in Node : Deliver(n, m)

Spec == Init /\ [][Next]_vars

==============================================================================
