\* Three SLs and two remote groups: six Round 2 instances in one cycle.
CONSTANTS
    N = 3
    NumRemote = 2
    MaxCycle = 1
    FirstSeq = 1
SPECIFICATION FairSpec
INVARIANT StagesInOrder
PROPERTIES
    ImplementsRound2
    EveryCycleCommits
CHECK_DEADLOCK FALSE
