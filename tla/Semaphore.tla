----------------------------- MODULE Semaphore -----------------------------
(***************************************************************************)
(* The POSIX semaphores of the C library on Linux (bld/clib/linux/c:       *)
(* sem_init, sem_wait, sem_timedwait, sem_trywait, sem_destroy, sem_post). *)
(* One semaphore; every access to its two words and every futex call is a  *)
(* step, so that the threads interleave between any two of them.           *)
(*                                                                         *)
(* sem->value counts the permits.  sem->futex is 1 when threads may sleep  *)
(* on it: FUTEX_WAIT returns at once when it is 0.                         *)
(***************************************************************************)
EXTENDS Integers

CONSTANTS Threads,
          InitialValues,   \* the values sem_init is called with
          MaxValue         \* bound: a program posts only below this value

ASSUME SemaphoreAssumption == InitialValues \subseteq Nat /\ MaxValue \in Nat

VARIABLES value, futex,   \* the fields of sem_t
          at,             \* where each thread is
          fn,             \* the function it is in; "last" is the second try
                          \* of sem_trywait
          seen,           \* what __decrement_if_positive has read
          late,           \* threads whose abstime has passed
          raced           \* ghost: threads in a sem_trywait during which
                          \* another thread has changed the value

vars == <<value, futex, at, fn, seen, late, raced>>

Functions == {"wait", "timed", "try", "post"}

Goto(t, place) == at' = [at EXCEPT ![t] = place]

\* Inside one of the waiting functions, without a permit.
Asking == {"read", "cas", "test", "block", "asleep"}

\* The value is changed by t, who may have been in a sem_trywait itself.
Changes(t) == raced' = {u \in Threads \ {t} :
                          u \in raced \/ (at[u] \in Asking /\ fn[u] \in {"try", "last"})}

-----------------------------------------------------------------------------

\* sem_init.
Init == /\ value \in InitialValues
        /\ futex = 1
        /\ at = [t \in Threads |-> "idle"]
        /\ fn = [t \in Threads |-> "none"]
        /\ seen = [t \in Threads |-> 0]
        /\ late = {}
        /\ raced = {}

\* The program calls a function.  sem_destroy is a sem_trywait: it takes the
\* last permit or fails.
Call(t, f) ==
    /\ at[t] = "idle"
    /\ f = "post" => value < MaxValue
    /\ Goto(t, IF f = "post" THEN "post" ELSE "read")
    /\ fn' = [fn EXCEPT ![t] = f]
    /\ UNCHANGED <<value, futex, seen, late, raced>>

Return(t) ==
    /\ at[t] \in {"taken", "again", "timedout", "posted"}
    /\ Goto(t, "idle")
    /\ fn' = [fn EXCEPT ![t] = "none"]
    /\ late' = late \ {t}
    /\ raced' = raced \ {t}
    /\ UNCHANGED <<value, futex, seen>>

-----------------------------------------------------------------------------
(* sem_wait, sem_timedwait, sem_trywait.                                   *)

\* __decrement_if_positive returns 0: the second try of sem_trywait is EAGAIN.
Missed(t) == IF fn[t] = "last" THEN "again" ELSE "test"

\* Mutation: A test for not zero instead of positive, and the read left out.
DecrementAlways(t) ==
    /\ at[t] = "read"
    /\ seen' = [seen EXCEPT ![t] = value]
    /\ Goto(t, "cas")
    /\ UNCHANGED <<value, futex, fn, late, raced>>

ReadValue(t) ==
    /\ at[t] = "read"
    /\ seen' = [seen EXCEPT ![t] = value]
    /\ Goto(t, IF value > 0 THEN "cas" ELSE Missed(t))
    /\ UNCHANGED <<value, futex, fn, late, raced>>

\* Mutation: cmpxchg without a look at its result.
BlindSwap(t) ==
    /\ at[t] = "cas"
    /\ value' = seen[t] - 1
    /\ Goto(t, IF fn[t] = "last" THEN "taken" ELSE "rearm")
    /\ Changes(t)
    /\ seen' = [seen EXCEPT ![t] = 0]
    /\ UNCHANGED <<futex, fn, late>>

\* lock cmpxchg.  Only the first try of sem_trywait goes on to re-arm.
CompareAndSwap(t) ==
    /\ at[t] = "cas"
    /\ IF value = seen[t]
         THEN /\ value' = seen[t] - 1
              /\ Goto(t, IF fn[t] = "last" THEN "taken" ELSE "rearm")
              /\ Changes(t)
         ELSE /\ Goto(t, Missed(t))
              /\ UNCHANGED <<value, raced>>
    /\ seen' = [seen EXCEPT ![t] = 0]
    /\ UNCHANGED <<futex, fn, late>>

\* Sleep only if the value is still not positive.
TestValue(t) ==
    /\ at[t] = "test"
    /\ Goto(t, IF value <= 0 THEN "block" ELSE "read")
    /\ fn' = [fn EXCEPT ![t] = IF @ = "try" THEN "last" ELSE @]
    /\ UNCHANGED <<value, futex, seen, late, raced>>

\* FUTEX_WAIT: the kernel compares and enqueues in one step.  The time limit
\* of sem_trywait is zero, a limit in the past is refused.
FutexWait(t) ==
    /\ at[t] = "block"
    /\ Goto(t, IF futex = 1 /\ fn[t] # "last" /\ t \notin late THEN "asleep" ELSE "read")
    /\ UNCHANGED <<value, futex, fn, seen, late, raced>>

\* __futex returns through __syscall_return, which leaves the error in errno.
ETIMEDOUT == 110
SyscallReturn(res) == IF res < 0 THEN -1 ELSE res

\* Mutation: a sleep that has ended is resumed without a look at the value.
SleepOn(t) == at[t] = "asleep" /\ fn[t] = "wait" /\ UNCHANGED vars

\* The 100 microseconds of sem_wait are over.
Timer(t) ==
    /\ at[t] = "asleep" /\ fn[t] = "wait"
    /\ Goto(t, "read")
    /\ UNCHANGED <<value, futex, fn, seen, late, raced>>

\* The time limit of sem_timedwait passes, asleep or not: the sleep ends with
\* ETIMEDOUT, which the caller compares with what __futex has returned.
Deadline(t) ==
    /\ at[t] \in Asking /\ fn[t] = "timed" /\ t \notin late
    /\ late' = late \cup {t}
    /\ at' = [at EXCEPT ![t] =
                IF @ # "asleep" THEN @
                ELSE IF SyscallReturn(-ETIMEDOUT) = -ETIMEDOUT THEN "timedout" ELSE "read"]
    /\ UNCHANGED <<value, futex, fn, seen, raced>>

\* After a decrement: if( sem->value == 0 ) futex 0 -> 1.
Rearm(t) ==
    /\ at[t] = "rearm"
    /\ Goto(t, IF value = 0 THEN "arm" ELSE "taken")
    /\ UNCHANGED <<value, futex, fn, seen, late, raced>>

Arm(t) ==
    /\ at[t] = "arm"
    /\ futex' = 1
    /\ Goto(t, "taken")
    /\ UNCHANGED <<value, fn, seen, late, raced>>

-----------------------------------------------------------------------------
(* sem_post.                                                               *)

\* while( sem->value < 0 ) increment.
Post(t) ==
    /\ at[t] = "post"
    /\ IF value < 0 THEN /\ value' = value + 1
                         /\ Changes(t)
                         /\ UNCHANGED at
                    ELSE /\ Goto(t, "add")
                         /\ UNCHANGED <<value, raced>>
    /\ UNCHANGED <<futex, fn, seen, late>>

Add(t) ==
    /\ at[t] = "add"
    /\ value' = value + 1
    /\ Changes(t)
    /\ Goto(t, "wake")
    /\ UNCHANGED <<futex, fn, seen, late>>

\* FUTEX_WAKE of INT_MAX threads.
FutexWake(t) ==
    /\ at[t] = "wake"
    /\ at' = [u \in Threads |-> CASE u = t -> "disarm"
                                  [] u # t /\ at[u] = "asleep" -> "read"
                                  [] OTHER -> at[u]]
    /\ UNCHANGED <<value, futex, fn, seen, late, raced>>

\* futex 1 -> 0: no thread goes to sleep until the value is 0 again.
Disarm(t) ==
    /\ at[t] = "disarm"
    /\ futex' = 0
    /\ Goto(t, "posted")
    /\ UNCHANGED <<value, fn, seen, late, raced>>

-----------------------------------------------------------------------------

\* One step inside a function; the kernel's timers count as steps.
Step(t) == \/ ReadValue(t) \/ CompareAndSwap(t) \/ TestValue(t) \/ FutexWait(t)
           \/ Timer(t) \/ Deadline(t) \/ Rearm(t) \/ Arm(t)
           \/ Post(t) \/ Add(t) \/ FutexWake(t) \/ Disarm(t) \/ Return(t)

Next == \E t \in Threads : Step(t) \/ \E f \in Functions : Call(t, f)

Spec == Init /\ [][Next]_vars

\* Every runnable thread runs on, and timers expire.
FairSpec == Spec /\ \A t \in Threads : WF_vars(Step(t))

=============================================================================
