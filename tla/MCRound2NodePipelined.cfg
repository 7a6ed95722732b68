\* Three SLs and a remote group, two cycles that overlap.
CONSTANTS
    N = 3
    NumRemote = 1
    MaxCycle = 2
    FirstSeq = 1
SPECIFICATION Spec
INVARIANTS
    NoMessageStranded
    WakeUpOnTheWay
    JuggleQueueBounded
CHECK_DEADLOCK FALSE
