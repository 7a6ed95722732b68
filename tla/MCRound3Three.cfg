\* Three groups: a first and a last answer of every kind.
CONSTANTS
    b0 = b0
    b1 = b1
    b2 = b2
    BG = {b0, b1, b2}
    NumSL = 1
    NumEnvoys = 1
    FirstEnvoy = 0
    Batches <- OneEach
SPECIFICATION FairSpec
INVARIANTS
    AssertionsHold
    CountedOnce
PROPERTY
    EveryCycleFinishes
CHECK_DEADLOCK FALSE
