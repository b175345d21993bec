\* Three threads on each object of the layer.  No bound on the calls.
CONSTANTS
    t1 = t1
    t2 = t2
    t3 = t3
    Threads <- MCThreads
    READY = READY
    DESTROYED = DESTROYED
    Kinds = {"mutex", "cond", "rwlock", "barrier", "once"}
    Limits <- MCLimits
SPECIFICATION FairSpec
CHECK_DEADLOCK FALSE
INVARIANTS SyncTypeOK Exclusion LockNotLost NoStrayWakeup BroadcastWakesAll OnceBeforeUse
PROPERTIES ImplementsBarrier BarrierOpens
