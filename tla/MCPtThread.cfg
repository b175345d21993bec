\* Two ids for two threads, calls that fail, and detached threads.
CONSTANTS
    b1 = b1
    b2 = b2
    b3 = b3
    b4 = b4
    w1 = w1
    w2 = w2
    Main = main
    NULL = NULL
    Blocks <- MCBlocks
    Workers <- MCWorkers
    MaxStarts = 2
    MaxCleaners = 1
    Faults = {"clone", "malloc"}
SPECIFICATION FairSpec
CHECK_DEADLOCK FALSE
INVARIANTS ThreadTypeOK JoinAfterExit CatalogIntact
PROPERTIES JoinReturns
