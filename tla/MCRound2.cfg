\* Four SLs, so that every SL is the collector once in a log of five entries.
CONSTANTS
    N = 4
    Entry = {a, b}
    MaxSeq = 5
SPECIFICATION FairSpec
INVARIANTS
    TypeOK
    Agreement
    AssertionsHold
    FullCommitNeverEarly
    FullCommitIsUnanimous
    OneInstanceAhead
PROPERTIES
    ImplementsBGLog
    ImplementsGroupLog
    EveryEntryDelivered
CHECK_DEADLOCK FALSE
