---------------------------- MODULE PtSyncProps ----------------------------
(***************************************************************************)
(* What the mutex, the condition, the barrier, the read-write lock and the *)
(* once control promise.                                                   *)
(***************************************************************************)
EXTENDS PtSync

MutexPlaces == {"lock", "lock_wait", "lock_own", "unlock", "unlock_post", "trylock",
                "trylock_wait", "trylock_own", "destroy", "destroy_post", "destroy_take"}
CondPlaces == {"wait", "wait_count", "wait_leave", "wait_block", "wait_uncount",
               "timed_enter", "timed_leave", "signal", "sig_test", "sig_read",
               "sig_post", "sig_spin", "sig_leave"}
ObjectPlaces == {"bar_count", "bar_reset", "bar_unlock", "rd_count", "wr_test",
                 "wr_again", "tw_test", "busy", "ru_count", "once_test", "once_done"}
Places == MutexPlaces \cup CondPlaces \cup ObjectPlaces \cup {"idle", "return"}

\* The places a mutex function returns to.
Continuations == ObjectPlaces \cup {"return", "destroy", "wait_block"}

Results == {"0", "EINVAL", "EBUSY", "EPERM", "EDEADLK"}

FunctionNames == {c.fn : c \in Functions} \cup {"none"}

\* The types of the objects and of the threads; the three semaphores never hold
\* more than one permit.
SyncTypeOK ==
    /\ kind \in Kinds /\ type \in MutexTypes
    /\ sem \in {0, 1} /\ wait_block \in {0, 1} /\ clear_block \in {0, 1}
    /\ owner \in Threads \cup {READY, DESTROYED}
    /\ at \in [Threads -> Places]
    /\ back \in [Threads -> Continuations]
    /\ res \in [Threads -> Results]
    /\ waiters \in Int /\ reg \in [Threads -> Int]
    /\ read_waiters \in Nat /\ count \in Nat /\ limit \in Nat
    /\ executed \in {0, 1} /\ runs \in Nat
    /\ fn \in [Threads -> FunctionNames]
    /\ has \in [Threads -> Anything]
    /\ phase \in [Threads -> {"out", "in", "passed"}]

-----------------------------------------------------------------------------

\* Two threads that have got a lock from it, and have not begun to give it back,
\* are readers of a read-write lock: a mutex has one holder, a writer is alone.
Exclusion ==
    \A t, u \in Threads :
        t # u /\ has[t] \in {"lock", "write"} => has[u] \notin {"lock", "read", "write"}

\* A mutex that nobody owns can be had: the permit is in the semaphore, or with
\* a thread between the semaphore and the owner.
LockNotLost ==
    owner = READY =>
        \/ sem = 1
        \/ \E t \in Threads : at[t] \in {"lock_own", "trylock_own", "unlock_post"}

\* A wake-up is never left over for a thread that waits later: while there is a
\* permit in wait_block a signaller keeps new waiters out.
NoStrayWakeup ==
    wait_block > 0 => \E t \in Threads : at[t] = "sig_spin" /\ reg[t] = waiters

\* A broadcast that ends has woken every thread that waited when it began.
BroadcastWakesAll ==
    \A t, u \in Threads :
        at[t] = "sig_leave" /\ fn[t] = "broadcast" => at[u] # "wait_block"

\* The once routine runs once, and whoever pthread_once has returned to finds
\* it finished.
OnceBeforeUse ==
    /\ runs <= 1
    /\ \A t, u \in Threads : has[t] = "done" => at[u] # "once_done"

\* The barrier lets exactly limit threads go on together, round after round.
Gate == INSTANCE Barrier
ImplementsBarrier == Gate!Spec

\* As many threads as its limit do not wait at a barrier for ever: it opens, the
\* broadcast ends although its signaller spins and holds the mutex, and one of
\* them returns.
InBarrier == {t \in Threads : fn[t] = "barrier_wait" /\ phase[t] # "passed"}
BarrierOpens ==
    (kind = "barrier" /\ Cardinality(InBarrier) >= limit)
        ~> \E t \in Threads : phase[t] = "passed" /\ at[t] = "return"
=============================================================================
