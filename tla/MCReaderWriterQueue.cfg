\* Blocks of two and four slots: nine values go round the circle of blocks.
CONSTANTS
    FirstSize = 2
    MaxSize = 4
    MaxValue = 9
SPECIFICATION FairSpec
PROPERTIES
    ImplementsFifo
    EveryValueDequeued
CHECK_DEADLOCK FALSE
