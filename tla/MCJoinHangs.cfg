\* A join that hangs although no call fails.
CONSTANTS
    b1 = b1
    b2 = b2
    b3 = b3
    b4 = b4
    w1 = w1
    w2 = w2
    Main = main
    NULL = NULL
    Blocks <- MCBlocks
    Workers <- MCWorkers
    MaxStarts = 2
    MaxCleaners = 0
    Faults = {}
SPECIFICATION FairSpec
CHECK_DEADLOCK FALSE
PROPERTIES JoinsReturn
