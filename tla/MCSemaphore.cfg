\* Three threads wait, try, wait with a limit and post on one semaphore.
CONSTANTS
    Threads = {t1, t2, t3}
    InitialValues <- MCInitialValues
    MaxValue = 1
SPECIFICATION FairSpec
INVARIANTS SemTypeOK
PROPERTIES PermitsTaken ImplementsCountingSemaphore
