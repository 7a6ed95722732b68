\* Two groups of two SLs; one of them is a cycle ahead of the other.
CONSTANTS
    b0 = b0
    b1 = b1
    BG = {b0, b1}
    GlobalBG = b0
    NumSL = 2
    NumEnvoys = 2
    FirstEnvoy = 0
    Batches <- TwoAndOne
SPECIFICATION FairSpec
INVARIANTS
    ResponsesFindTheirCycle
    LeadersFinishTogether
PROPERTIES
    EveryCycleFinishesOrThrows
    ImplementsCycles
CHECK_DEADLOCK FALSE
