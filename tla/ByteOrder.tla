------------------------------ MODULE ByteOrder ------------------------------
(***************************************************************************)
(* message.h and message.cpp with the threads that call them: a message is *)
(* put into network byte order in place, in the buffer it was composed in, *)
(* once for all its receivers, and back in place where it arrives.  What a *)
(* message carries of another message is not converted.                    *)
(*                                                                         *)
(* A field is its bytes as they lie in memory.  payloadLen counts the      *)
(* words behind the fixed fields here, the one part whose length varies;   *)
(* two of its four bytes are enough for that.                              *)
(*                                                                         *)
(* MessageInit and its like are not named Init because ConnectionProofs is *)
(* about this module and about Mesh, which has that name.                  *)
(***************************************************************************)
EXTENDS Integers, Sequences

CONSTANTS
    Peer,      \* the receivers of a message
    Host,      \* byte orders of the machines, of "little" and "big"
    FieldNum,  \* what a field may hold
    Payload    \* what may lie behind the fixed fields: sequences of numbers

UINT16_MAX == 2^16 - 1
Uint16 == 0..UINT16_MAX

ASSUME HostAssumption == Host \subseteq {"little", "big"} /\ Host # {}
ASSUME NumAssumption == FieldNum \subseteq Uint16
ASSUME PayloadAssumption == \A words \in Payload : words \in Seq(Uint16) /\ Len(words) \in Uint16

VARIABLES
    senderHost, receiverHost,
    original,   \* the message as the dispatcher enqueued it
    element,    \* the sender's buffer
    totalLength,
    upPeers,    \* the receivers the sender has not written to, itself as "self"
    at,         \* where the sender is
    socket,     \* socket[p]: what was written to p and not read
    received,   \* received[p]: what p has put into its recvQueue
    own         \* the sender's copy in its own recvQueue

hosts == <<senderHost, receiverHost>>
messageVars == <<hosts, original, element, totalLength, upPeers, at, socket, received, own>>

-----------------------------------------------------------------------------
(* The two bytes of a field: what htons and ntohs of a machine make of them,*)
(* the number that it reads in them, and how it stores a number.            *)
Swapped(bytes) == <<bytes[2], bytes[1]>>
Convert(host, bytes) == IF host = "big" THEN bytes ELSE Swapped(bytes)

Value(host, bytes) == 256 * Convert(host, bytes)[1] + Convert(host, bytes)[2]
Bytes(host, n) == Convert(host, <<n \div 256, n % 256>>)

Header == {"version", "msgType", "payloadLen"}

(* The fields serialize converts, after those of the header.                *)
Serialized ==
    [Hello |-> {"BGid", "SLid"},
     Request |-> {"sender"},
     Preprepare |-> {"sender", "view", "seq", "BGid", "requestType", "cycle", "lastcycle",
                     "collector_SLid", "numOfRound3Participants"},
     PartialCommit |-> {"sender", "view", "seq"},
     FullCommit |-> {"sender", "view", "seq"},
     FetchRequest |-> {"sender_BGid", "sender_SLid", "cycle",
                       "hash.BGid", "hash.cycle", "hash.lastcycle"},
     FetchResponse |-> {"sender_BGid", "sender_SLid", "cycle"},
     GeneralFetch |-> {"sender_BGid", "sender_SLid", "cycle", "msgTypeDemanded"},
     FullMembership |-> {"sender_BGid", "sender_SLid", "cycle", "totalBGnum"},
     PreprepareBaseline |-> {"sender", "cycle", "collector_BGid"},
     PartialCommitBaseline |-> {"sender", "cycle"},
     FullCommitBaseline |-> {"sender", "cycle"}]

(* Mutant: one that was added to the sending side only.                     *)
Forgotten == [Serialized EXCEPT !.GeneralFetch = @ \ {"msgTypeDemanded"}]
(* The fields partialDeserialize converts.                                  *)
Deserialized ==
    [Hello |-> {"BGid", "SLid"},
     Request |-> {"sender"},
     Preprepare |-> {"sender", "view", "seq", "BGid", "requestType", "cycle", "lastcycle",
                     "collector_SLid", "numOfRound3Participants"},
     PartialCommit |-> {"sender", "view", "seq"},
     FullCommit |-> {"sender", "view", "seq"},
     FetchRequest |-> {"sender_BGid", "sender_SLid", "cycle",
                       "hash.BGid", "hash.cycle", "hash.lastcycle"},
     FetchResponse |-> {"sender_BGid", "sender_SLid", "cycle"},
     GeneralFetch |-> {"sender_BGid", "sender_SLid", "cycle", "msgTypeDemanded"},
     FullMembership |-> {"sender_BGid", "sender_SLid", "cycle", "totalBGnum"},
     PreprepareBaseline |-> {"sender", "cycle", "collector_BGid"},
     PartialCommitBaseline |-> {"sender", "cycle"},
     FullCommitBaseline |-> {"sender", "cycle"}]

Fields(type) == Header \union Serialized[type]

ConvertFields(host, m, names) ==
    [m EXCEPT !.field = [f \in DOMAIN @ |-> IF f \in names THEN Convert(host, @[f]) ELSE @[f]]]

(* The loop over the participants ends where the count, as it lies there    *)
(* now, says; it has no other limit.                                        *)
Participants(host, m) ==
    IF m.type = "Preprepare" THEN Value(host, m.field["numOfRound3Participants"]) ELSE 0
ConvertParticipants(host, m) ==
    [m EXCEPT !.words = [i \in DOMAIN @ |-> IF i <= Participants(host, m) THEN Convert(host, @[i]) ELSE @[i]]]

Count == {"numOfRound3Participants"}

serialize(host, m) ==
    ConvertFields(host,
        ConvertParticipants(host, ConvertFields(host, m, Header \union (Serialized[m.type] \ Count))),
        Serialized[m.type] \cap Count)

partialDeserialize(host, m) ==
    ConvertParticipants(host, ConvertFields(host, m, Deserialized[m.type]))

-----------------------------------------------------------------------------
None == [type |-> "None", field |-> <<>>, words |-> <<>>]

(* The participants are the first words of a Preprepare of the clients; a   *)
(* Preprepare of Round 3's results has none, its words are another message. *)
Composed(host) ==
    UNION {{[type |-> type,
             field |-> [f \in Fields(type) |->
                           CASE f = "payloadLen" -> Bytes(host, Len(words))
                             [] f = "numOfRound3Participants" -> Bytes(host, count)
                             [] OTHER -> Bytes(host, n)],
             words |-> [i \in DOMAIN words |-> Bytes(host, words[i])]]
              : n \in FieldNum, count \in 0..(IF type = "Preprepare" THEN Len(words) ELSE 0)}
           : type \in DOMAIN Serialized, words \in Payload}

Messages == UNION {Composed(host) : host \in Host}

MessageTypeOK ==
    /\ senderHost \in Host /\ receiverHost \in Host
    /\ original \in Messages \union {None}
    /\ at # "idle" => element.type = original.type
    /\ totalLength \in 0..Len(original.words)
    /\ \A p \in Peer : socket[p].type \in {"None", original.type}

MessageInit ==
    /\ senderHost \in Host /\ receiverHost \in Host
    /\ original = None /\ element = None /\ own = None
    /\ totalLength = 0
    /\ upPeers = {}
    /\ at = "idle"
    /\ socket = [p \in Peer |-> None] /\ received = [p \in Peer |-> None]

Length(m) == Value(senderHost, m.field["payloadLen"])

(* The next message, for the sender itself too or not.                      *)
Dequeue ==
    /\ at = "idle" /\ \A p \in Peer : socket[p] = None
    /\ original' \in Composed(senderHost)
    /\ element' = original'
    /\ totalLength' = Length(original')
    /\ upPeers' \in {Peer, Peer \union {"self"}}
    /\ at' = "clone"
    /\ own' = None
    /\ received' = [p \in Peer |-> None]
    /\ UNCHANGED <<hosts, socket>>

(* Mutant: the element is converted before the copy is made.                *)
CloneConverted == serialize(senderHost, element)
Clone == element

EnqueueCopy ==
    /\ at = "clone"
    /\ own' = IF "self" \in upPeers THEN Clone ELSE None
    /\ at' = "serialize"
    /\ UNCHANGED <<hosts, original, element, totalLength, upPeers, socket, received>>

Serialize ==
    /\ at = "serialize"
    /\ element' = serialize(senderHost, element)
    /\ at' = "send"
    /\ UNCHANGED <<hosts, original, totalLength, upPeers, socket, received, own>>

Send ==
    /\ at = "send"
    /\ IF upPeers = {} THEN at' = "idle" /\ UNCHANGED <<upPeers, socket>>
       ELSE \E p \in upPeers :
               /\ upPeers' = upPeers \ {p}
               /\ socket' = IF p = "self" THEN socket
                            ELSE [socket EXCEPT ![p] = [element EXCEPT !.words = SubSeq(@, 1, totalLength)]]
               /\ UNCHANGED at
    /\ UNCHANGED <<hosts, original, element, totalLength, received, own>>

(* recvMessage: the header, then the words it counts, then the rest of the  *)
(* fields by the message's type.                                            *)
Receive(p) ==
    LET m == ConvertFields(receiverHost, socket[p], Header)
        extraLen == Value(receiverHost, m.field["payloadLen"])
    IN  /\ socket[p] # None
        /\ extraLen <= Len(m.words)
        /\ received' = [received EXCEPT ![p] =
               partialDeserialize(receiverHost, [m EXCEPT !.words = SubSeq(@, 1, extraLen)])]
        /\ socket' = [socket EXCEPT ![p] = None]
        /\ UNCHANGED <<hosts, original, element, totalLength, upPeers, at, own>>

MessageNext == Dequeue \/ EnqueueCopy \/ Serialize \/ Send \/ \E p \in Peer : Receive(p)

MessageSpec == MessageInit /\ [][MessageNext]_messageVars

-----------------------------------------------------------------------------
(* Every receiver, whatever its byte order, reads the numbers the sender    *)
(* wrote, the participants included (message.cpp:121 converts the count     *)
(* after them, line 135 before them), however many received it before.      *)
(* What lies behind the participants, a message of another group with its   *)
(* own count and participants or the requests, arrives byte for byte: it is *)
(* copied out and read as it lies (getRound3Request, line 85), so machines  *)
(* of one byte order read in it what was written.                           *)
ArrivesAsSent ==
    \A p \in Peer : received[p] # None =>
        /\ \A f \in DOMAIN original.field :
              Value(receiverHost, received[p].field[f]) = Value(senderHost, original.field[f])
        /\ Len(received[p].words) = Len(original.words)
        /\ \A i \in DOMAIN original.words :
              IF i <= Participants(senderHost, original)
              THEN Value(receiverHost, received[p].words[i]) = Value(senderHost, original.words[i])
              ELSE received[p].words[i] = original.words[i]

(* The copy of the sender is the message as it was composed: it is not      *)
(* deserialized (ConnManager.cpp:449).                                      *)
OwnCopyAsComposed == own # None => own = original

==============================================================================
