\* Three SLs, two of which send to all and two a request; one may be killed.
CONSTANTS
    NumNode = 3
    Capacity = 1
    Requests <- ToLeader
    Sends <- TwoToAll
    Mortal = {1}
SPECIFICATION FairSpec
INVARIANT
    OwnCopyFirst
PROPERTIES
    ImplementsChannels
    EveryMessageArrives
CHECK_DEADLOCK FALSE
