------------------------------ MODULE PtSync ------------------------------
(***************************************************************************)
(* The objects of the POSIX threads layer (bld/clib/posix/c: ptcond,       *)
(* ptbar, ptrwlock, ptonce) on top of its mutex, and the threads of a      *)
(* program that use one of them.  The program calls a function at any time *)
(* at which its contract allows the call.                                  *)
(*                                                                         *)
(* A condition has two semaphores: wait_block, on which the waiters sleep, *)
(* and clear_block, which shuts new waiters out while a signal is          *)
(* delivered.  A barrier is a mutex, a condition and a count; a read-write *)
(* lock is a mutex, which a writer keeps, and a count of readers.          *)
(***************************************************************************)
EXTENDS PtMutex

CONSTANTS Kinds,    \* the objects the program may have
          Limits    \* the limits of its barrier

ASSUME SyncAssumption == Limits \subseteq Nat /\ IsFiniteSet(Threads)

VARIABLES kind,                              \* the object in use
          wait_block, clear_block, waiters,  \* pthread_cond_t
          reg,                               \* local waiters of a signal
          read_waiters,                      \* pthread_rwlock_t
          count, limit,                      \* pthread_barrier_t
          executed,                          \* pthread_once_t
          fn,                                \* the function each thread is in
          has,                               \* ghost: what each thread has got
          phase,                             \* ghost: in, or past, the barrier
          runs                               \* ghost: runs of the once routine

condVars == <<wait_block, clear_block, waiters, reg>>
objectVars == <<read_waiters, count, limit, executed, phase, runs>>
programVars == <<kind, fn, has>>
vars == <<mutexVars, condVars, objectVars, programVars>>

AllKinds == {"mutex", "cond", "rwlock", "barrier", "once"}

\* Only the types of a mutex make its kinds differ; the others use the default.
Init == /\ kind \in Kinds
        /\ \E ty \in (IF kind = "mutex" THEN MutexTypes ELSE {DefaultType}) : MutexInit(ty)
        /\ wait_block = 0 /\ clear_block = 1 /\ waiters = 0
        /\ reg = [t \in Threads |-> 0]
        /\ read_waiters = 0
        /\ count = 0 /\ limit \in (IF kind = "barrier" THEN Limits ELSE {0})
        /\ executed = 0
        /\ at = [t \in Threads |-> "idle"]
        /\ back = [t \in Threads |-> "return"]
        /\ res = [t \in Threads |-> "0"]
        /\ fn = [t \in Threads |-> "none"]
        /\ has = [t \in Threads |-> "nothing"]
        /\ phase = [t \in Threads |-> "out"]
        /\ runs = 0

-----------------------------------------------------------------------------
(* pthread_cond_wait and pthread_cond_timedwait.  The time limit never     *)
(* ends the sleep: sem_timedwait has no such result (module Semaphore).    *)

WaitEnter(t) ==
    /\ at[t] = "wait" /\ clear_block > 0
    /\ clear_block' = clear_block - 1
    /\ Goto(t, "wait_count")
    /\ UNCHANGED <<type, sem, owner, back, res, wait_block, waiters, reg>>

WaitCount(t) ==
    /\ at[t] = "wait_count"
    /\ waiters' = waiters + 1
    /\ Goto(t, "wait_leave")
    /\ UNCHANGED <<type, sem, owner, back, res, wait_block, clear_block, reg>>

WaitLeave(t) ==
    /\ at[t] = "wait_leave"
    /\ clear_block' = clear_block + 1
    /\ CallMutex(t, "unlock", "wait_block")
    /\ UNCHANGED <<type, sem, owner, res, wait_block, waiters, reg>>

WaitBlock(t) ==
    /\ at[t] = "wait_block" /\ wait_block > 0
    /\ wait_block' = wait_block - 1
    /\ Goto(t, "wait_uncount")
    /\ UNCHANGED <<type, sem, owner, back, res, clear_block, waiters, reg>>

\* Where a wait of the program, or of a barrier, goes on with the mutex.
AfterWait == IF kind = "barrier" THEN "bar_unlock" ELSE "return"

\* Mutation: the timed wait posts clear_block without having waited for it.
UncountNoEnter(t) ==
    /\ at[t] = "wait_uncount"
    /\ waiters' = waiters - 1
    /\ IF fn[t] = "timedwait" THEN Goto(t, "timed_leave") /\ UNCHANGED back
                              ELSE CallMutex(t, "lock", AfterWait)
    /\ UNCHANGED <<type, sem, owner, res, wait_block, clear_block, reg>>

WaitUncount(t) ==
    /\ at[t] = "wait_uncount"
    /\ waiters' = waiters - 1
    /\ IF fn[t] = "timedwait" THEN Goto(t, "timed_enter") /\ UNCHANGED back
                              ELSE CallMutex(t, "lock", AfterWait)
    /\ UNCHANGED <<type, sem, owner, res, wait_block, clear_block, reg>>

\* pthread_cond_timedwait waits for the end of the signal.
TimedEnter(t) ==
    /\ at[t] = "timed_enter" /\ clear_block > 0
    /\ clear_block' = clear_block - 1
    /\ Goto(t, "timed_leave")
    /\ UNCHANGED <<type, sem, owner, back, res, wait_block, waiters, reg>>

TimedLeave(t) ==
    /\ at[t] = "timed_leave"
    /\ clear_block' = clear_block + 1
    /\ CallMutex(t, "lock", AfterWait)
    /\ UNCHANGED <<type, sem, owner, res, wait_block, waiters, reg>>

-----------------------------------------------------------------------------
(* pthread_cond_signal and pthread_cond_broadcast.                         *)

SignalEnter(t) ==
    /\ at[t] = "signal" /\ clear_block > 0
    /\ clear_block' = clear_block - 1
    /\ Goto(t, "sig_test")
    /\ UNCHANGED <<type, sem, owner, back, res, wait_block, waiters, reg>>

\* Mutation: the signal is given whether there is a waiter or not.
SignalAlways(t) ==
    /\ at[t] = "sig_test"
    /\ Goto(t, IF waiters > 0 \/ fn[t] = "signal" THEN "sig_read" ELSE "sig_leave")
    /\ UNCHANGED <<type, sem, owner, back, res, condVars>>

\* Mutation: the loop of the broadcast leaves the last waiter.
SignalNotLast(t) ==
    /\ at[t] = "sig_test"
    /\ Goto(t, IF waiters > (IF fn[t] = "signal" THEN 0 ELSE 1)
                 THEN "sig_read" ELSE "sig_leave")
    /\ UNCHANGED <<type, sem, owner, back, res, condVars>>

SignalTest(t) ==
    /\ at[t] = "sig_test"
    /\ Goto(t, IF waiters > 0 THEN "sig_read" ELSE "sig_leave")
    /\ UNCHANGED <<type, sem, owner, back, res, condVars>>

SignalRead(t) ==
    /\ at[t] = "sig_read"
    /\ reg' = [reg EXCEPT ![t] = waiters]
    /\ Goto(t, "sig_post")
    /\ UNCHANGED <<type, sem, owner, back, res, wait_block, clear_block, waiters>>

SignalPost(t) ==
    /\ at[t] = "sig_post"
    /\ wait_block' = wait_block + 1
    /\ Goto(t, "sig_spin")
    /\ UNCHANGED <<type, sem, owner, back, res, clear_block, waiters, reg>>

\* Mutation: one post, and a wait for every waiter.
SpinToZero(t) ==
    /\ at[t] = "sig_spin"
    /\ waiters = 0
    /\ Goto(t, IF fn[t] = "signal" THEN "sig_leave" ELSE "sig_test")
    /\ UNCHANGED <<type, sem, owner, back, res, condVars>>

\* sched_yield until a waiter has counted itself out.  The broadcast goes on.
SignalSpin(t) ==
    /\ at[t] = "sig_spin"
    /\ waiters # reg[t] \/ reg[t] = 0
    /\ Goto(t, IF fn[t] = "signal" THEN "sig_leave" ELSE "sig_test")
    /\ UNCHANGED <<type, sem, owner, back, res, condVars>>

SignalLeave(t) ==
    /\ at[t] = "sig_leave"
    /\ clear_block' = clear_block + 1
    /\ Goto(t, IF kind = "barrier" THEN "bar_reset" ELSE "return")
    /\ UNCHANGED <<type, sem, owner, back, res, wait_block, waiters, reg>>

CondStep(t) == \/ WaitEnter(t) \/ WaitCount(t) \/ WaitLeave(t) \/ WaitBlock(t)
               \/ WaitUncount(t) \/ TimedEnter(t) \/ TimedLeave(t)
               \/ SignalEnter(t) \/ SignalTest(t) \/ SignalRead(t) \/ SignalPost(t)
               \/ SignalSpin(t) \/ SignalLeave(t)

-----------------------------------------------------------------------------
(* pthread_barrier_wait, with the mutex access held.                       *)

\* The threads that the opening barrier lets go are those that are in it.
BarCount(t) ==
    /\ at[t] = "bar_count"
    /\ count' = count + 1
    /\ IF count + 1 >= limit
         THEN /\ Goto(t, "signal")
              /\ phase' = [u \in Threads |-> IF u = t \/ phase[u] = "in" THEN "passed"
                                                                         ELSE phase[u]]
         ELSE /\ Goto(t, "wait")
              /\ phase' = [phase EXCEPT ![t] = "in"]
    /\ UNCHANGED <<type, sem, owner, back, res, read_waiters, limit, executed, runs>>

\* Mutation: the count is left as it is for the next round.
BarNoReset(t) ==
    /\ at[t] = "bar_reset"
    /\ CallMutex(t, "unlock", "return")
    /\ UNCHANGED <<type, sem, owner, res, objectVars>>

BarReset(t) ==
    /\ at[t] = "bar_reset"
    /\ count' = 0
    /\ CallMutex(t, "unlock", "return")
    /\ UNCHANGED <<type, sem, owner, res, read_waiters, limit, executed, phase, runs>>

BarUnlock(t) ==
    /\ at[t] = "bar_unlock"
    /\ CallMutex(t, "unlock", "return")
    /\ UNCHANGED <<type, sem, owner, res, objectVars>>

-----------------------------------------------------------------------------
(* The read-write lock, with block_mutex held or a trylock of it answered. *)

\* pthread_rwlock_rdlock and tryrdlock.
ReadCount(t) ==
    /\ at[t] = "rd_count"
    /\ IF res[t] = "0" THEN /\ read_waiters' = read_waiters + 1
                            /\ CallMutex(t, "unlock", "return")
                       ELSE /\ Goto(t, "return")
                            /\ UNCHANGED <<read_waiters, back>>
    /\ UNCHANGED <<type, sem, owner, res, count, limit, executed, phase, runs>>

\* pthread_rwlock_wrlock lets the readers have the mutex, or returns 0, with the
\* mutex when it has got it: a lock that failed ends the loop.
WriteTest(t) ==
    /\ at[t] = "wr_test"
    /\ IF read_waiters > 0
         THEN CallMutex(t, "unlock", IF res[t] = "0" THEN "wr_again" ELSE "return")
         ELSE Goto(t, "return") /\ UNCHANGED back
    /\ res' = [res EXCEPT ![t] = "0"]
    /\ UNCHANGED <<type, sem, owner, objectVars>>

\* The sleep of ten milliseconds is over.
WriteAgain(t) ==
    /\ at[t] = "wr_again"
    /\ CallMutex(t, "lock", "wr_test")
    /\ UNCHANGED <<type, sem, owner, res, objectVars>>

\* pthread_rwlock_trywrlock.
TryWriteTest(t) ==
    /\ at[t] = "tw_test"
    /\ IF res[t] = "0" /\ read_waiters > 0
         THEN CallMutex(t, "unlock", "busy")
         ELSE Goto(t, "return") /\ UNCHANGED back
    /\ UNCHANGED <<type, sem, owner, res, objectVars>>

TryWriteBusy(t) ==
    /\ at[t] = "busy"
    /\ res' = [res EXCEPT ![t] = "EBUSY"]
    /\ Goto(t, "return")
    /\ UNCHANGED <<type, sem, owner, back, objectVars>>

\* pthread_rwlock_unlock of a reader.  "If we make this correction, things have
\* gone wrong": the count is kept from going below zero.
ReadUncount(t) ==
    /\ at[t] = "ru_count"
    /\ read_waiters' = IF read_waiters - 1 < 0 THEN 0 ELSE read_waiters - 1
    /\ CallMutex(t, "unlock", "return")
    /\ UNCHANGED <<type, sem, owner, res, count, limit, executed, phase, runs>>

-----------------------------------------------------------------------------
(* pthread_once, with the mutex access held.                               *)

\* Mutation: the mutex is unlocked while the routine runs.
OnceUnlocked(t) ==
    /\ at[t] = "once_test"
    /\ IF executed = 0 THEN runs' = runs + 1 /\ CallMutex(t, "unlock", "once_done")
                       ELSE CallMutex(t, "unlock", "return") /\ UNCHANGED runs
    /\ UNCHANGED <<type, sem, owner, res, read_waiters, count, limit, executed, phase>>

OnceTest(t) ==
    /\ at[t] = "once_test"
    /\ CASE res[t] # "0" -> Goto(t, "return") /\ UNCHANGED <<back, runs>>
         [] res[t] = "0" /\ executed = 0 ->
              runs' = runs + 1 /\ Goto(t, "once_done") /\ UNCHANGED back
         [] OTHER -> CallMutex(t, "unlock", "return") /\ UNCHANGED runs
    /\ UNCHANGED <<type, sem, owner, res, read_waiters, count, limit, executed, phase>>

\* The routine has returned.
OnceDone(t) ==
    /\ at[t] = "once_done"
    /\ executed' = 1
    /\ CallMutex(t, "unlock", "return")
    /\ UNCHANGED <<type, sem, owner, res, read_waiters, count, limit, phase, runs>>

ObjectStep(t) == \/ BarCount(t) \/ BarReset(t) \/ BarUnlock(t)
                 \/ ReadCount(t) \/ WriteTest(t) \/ WriteAgain(t)
                 \/ TryWriteTest(t) \/ TryWriteBusy(t) \/ ReadUncount(t)
                 \/ OnceTest(t) \/ OnceDone(t)

-----------------------------------------------------------------------------
(* The program.                                                            *)

\* The functions of each kind of object, and what the caller has to have.
Call_(f, k, h, place, next) == [fn |-> f, kind |-> k, has |-> h, at |-> place, back |-> next]
Anything == {"nothing", "lock", "read", "write", "done"}
Functions ==
    {Call_("lock", "mutex", Anything, "lock", "return"),
     Call_("trylock", "mutex", Anything, "trylock", "return"),
     Call_("unlock", "mutex", Anything, "unlock", "return"),
     Call_("destroy", "mutex", Anything, "trylock", "destroy"),
     Call_("lock", "cond", {"nothing"}, "lock", "return"),
     Call_("unlock", "cond", {"lock"}, "unlock", "return"),
     Call_("wait", "cond", {"lock"}, "wait", "return"),
     Call_("timedwait", "cond", {"lock"}, "wait", "return"),
     Call_("signal", "cond", Anything, "signal", "return"),
     Call_("broadcast", "cond", Anything, "signal", "return"),
     Call_("barrier_wait", "barrier", Anything, "lock", "bar_count"),
     Call_("rdlock", "rwlock", {"nothing", "write"}, "lock", "rd_count"),
     Call_("tryrdlock", "rwlock", {"nothing", "write"}, "trylock", "rd_count"),
     Call_("wrlock", "rwlock", {"nothing", "write"}, "lock", "wr_test"),
     Call_("trywrlock", "rwlock", {"nothing", "write"}, "trylock", "tw_test"),
     Call_("rwunlock", "rwlock", {"read", "write"}, "unlock", "return"),
     Call_("rwunlock", "rwlock", {"read", "write"}, "lock", "ru_count"),
     Call_("once", "once", Anything, "lock", "once_test")}

Releases == {"unlock", "rwunlock", "wait", "timedwait"}

\* The mutex tells pthread_rwlock_unlock which lock the thread has.
Call(t, c) ==
    /\ at[t] = "idle"
    /\ c.kind = kind /\ has[t] \in c.has
    /\ c.fn = "rwunlock" => (c.at = "unlock" <=> owner = t)
    /\ at' = [at EXCEPT ![t] = c.at]
    /\ back' = [back EXCEPT ![t] = c.back]
    /\ fn' = [fn EXCEPT ![t] = c.fn]
    /\ has' = [has EXCEPT ![t] = IF c.fn \in Releases THEN "nothing" ELSE @]
    /\ UNCHANGED <<type, sem, owner, res, condVars, objectVars, kind>>

\* What a function gives to its caller when it returns 0.
Gives(f, h) == CASE f \in {"lock", "trylock", "wait", "timedwait"} -> "lock"
                 [] f \in {"rdlock", "tryrdlock"} -> "read"
                 [] f \in {"wrlock", "trywrlock"} -> "write"
                 [] f = "once" -> "done"
                 [] OTHER -> h

Return(t) ==
    /\ at[t] = "return"
    /\ Goto(t, "idle")
    /\ fn' = [fn EXCEPT ![t] = "none"]
    /\ has' = [has EXCEPT ![t] = IF res[t] = "0" THEN Gives(fn[t], @) ELSE @]
    /\ res' = [res EXCEPT ![t] = "0"]
    /\ back' = [back EXCEPT ![t] = "return"]
    /\ reg' = [reg EXCEPT ![t] = 0]
    /\ phase' = [phase EXCEPT ![t] = "out"]
    /\ UNCHANGED <<type, sem, owner, wait_block, clear_block, waiters, read_waiters,
                   count, limit, executed, runs, kind>>

-----------------------------------------------------------------------------

\* A step of t inside a function of the library.
Step(t) == \/ MutexStep(t) /\ UNCHANGED <<condVars, objectVars, programVars>>
           \/ CondStep(t) /\ UNCHANGED <<objectVars, programVars>>
           \/ ObjectStep(t) /\ UNCHANGED <<condVars, programVars>>
           \/ Return(t)

Next == \E t \in Threads : Step(t) \/ \E c \in Functions : Call(t, c)

Spec == Init /\ [][Next]_vars

\* Every thread that can run does; the program need not call anything.
FairSpec == Spec /\ \A t \in Threads : WF_vars(Step(t))

=============================================================================
