\* Four SLs, one place in the backlog, and an accept that may fail.
CONSTANTS
    NumNode = 4
    Backlog = 1
    MaxFailures = 2
SPECIFICATION FairSpec
INVARIANT
    OneSocketPerFailure
PROPERTY
    EveryConstructorReturns
CHECK_DEADLOCK FALSE
