\* The second Preprepare carries sequence number 65535.
CONSTANTS
    N = 3
    NumRemote = 0
    MaxCycle = 2
    FirstSeq = 65534
SPECIFICATION FairSpec
PROPERTY
    StoredUntilCommitted
CHECK_DEADLOCK FALSE
