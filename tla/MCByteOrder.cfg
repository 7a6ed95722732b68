\* Two receivers, machines of either byte order, and every kind of message.
CONSTANTS
    Peer = {p1, p2}
    Host = {"little", "big"}
    FieldNum = {2, 772}
    Payload <- Words
SPECIFICATION MessageSpec
INVARIANTS
    ArrivesAsSent
    OwnCopyAsComposed
