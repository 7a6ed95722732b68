\* Two groups of two SLs; one of them is a cycle ahead of the other.
CONSTANTS
    b0 = b0
    b1 = b1
    BG = {b0, b1}
    NumSL = 2
    NumEnvoys = 1
    FirstEnvoy = 1
    Batches <- TwoAndOne
SPECIFICATION FairSpec
INVARIANT
    AssertionsHold
PROPERTIES
    EveryCycleFinishes
    ImplementsBGLogs
CHECK_DEADLOCK FALSE
