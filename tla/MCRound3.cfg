\* Two groups of three SLs; one of them is a cycle ahead of the other.
CONSTANTS
    b0 = b0
    b1 = b1
    b2 = b2
    BG = {b0, b1}
    NumSL = 3
    NumEnvoys = 2
    FirstEnvoy = 2
    Batches <- TwoAndOne
SPECIFICATION Spec
INVARIANTS
    AssertionsHold
    FinishedNotUnbegun
    FinishedMeansReplicated
    WorkNeverWaits
PROPERTIES
    ImplementsGroupLogs
    ImplementsCycles
CHECK_DEADLOCK FALSE
