------------------------------ MODULE PtMutex ------------------------------
(***************************************************************************)
(* The mutex of the POSIX threads layer (bld/clib/posix/c/ptmutex.c): a    *)
(* semaphore of one permit and the word owner, which holds a thread, READY *)
(* or DESTROYED.  The semaphore is a count here: module Semaphore is the   *)
(* code below it, and implements the count.                                *)
(*                                                                         *)
(* The functions are called by a program and by the other objects of the   *)
(* layer: back[t] is the place a mutex function of thread t returns to.    *)
(***************************************************************************)
EXTENDS Integers, FiniteSets

CONSTANTS Threads

CONSTANTS READY, DESTROYED   \* values of owner that are no thread

ASSUME OwnerAssumption == READY \notin Threads /\ DESTROYED \notin Threads
                          /\ READY # DESTROYED

VARIABLES type,     \* PTHREAD_MUTEX_...
          sem,      \* permits of the semaphore
          owner,    \* thread, READY or DESTROYED
          at,       \* the place of each thread
          back,     \* where its mutex function returns to
          res       \* the result of its last function

mutexVars == <<type, sem, owner, at, back, res>>

MutexTypes == {"normal", "errorcheck", "recursive"}

\* PTHREAD_MUTEX_DEFAULT.
DefaultType == "errorcheck"

\* pthread_mutex_init and PTHREAD_MUTEX_INITIALIZER.
MutexInit(ty) ==
    /\ type = ty
    /\ sem = 1
    /\ owner = READY

Goto(t, place) == at' = [at EXCEPT ![t] = place]

\* A mutex function of t ends with result r.
Ends(t, r) == /\ Goto(t, back[t])
              /\ res' = [res EXCEPT ![t] = r]

\* t calls a mutex function that starts at place and returns to next.
CallMutex(t, place, next) == /\ Goto(t, place)
                             /\ back' = [back EXCEPT ![t] = next]

-----------------------------------------------------------------------------
(* pthread_mutex_lock.                                                     *)

\* The tests before the semaphore.  Only t makes or ends owner = t, and
\* DESTROYED stays: the reads of owner are one.  A relock of a normal mutex goes
\* on to wait for itself; one of a recursive mutex too.
Lock(t) ==
    /\ at[t] = "lock"
    /\ IF owner = DESTROYED THEN Ends(t, "EINVAL")
       ELSE IF owner = t /\ type = "errorcheck" THEN Ends(t, "EDEADLK")
       ELSE Goto(t, "lock_wait") /\ UNCHANGED res
    /\ UNCHANGED <<type, sem, owner, back>>

\* sem_wait.
LockWait(t) ==
    /\ at[t] = "lock_wait" /\ sem > 0
    /\ sem' = sem - 1
    /\ Goto(t, "lock_own")
    /\ UNCHANGED <<type, owner, back, res>>

\* The compare-and-swap of owner.  When it fails the permit is not given back.
LockOwn(t) ==
    /\ at[t] = "lock_own"
    /\ IF owner = READY THEN owner' = t /\ Ends(t, "0")
                        ELSE Ends(t, "EPERM") /\ UNCHANGED owner
    /\ UNCHANGED <<type, sem, back>>

-----------------------------------------------------------------------------
(* pthread_mutex_unlock.                                                   *)

\* Mutation: the owner unlocks and returns without sem_post.
UnlockNoPost(t) ==
    /\ at[t] = "unlock"
    /\ CASE owner = DESTROYED -> Ends(t, "EINVAL") /\ UNCHANGED owner
         [] owner = t -> owner' = READY /\ Ends(t, "0")
         [] OTHER -> Ends(t, "EPERM") /\ UNCHANGED owner
    /\ UNCHANGED <<type, sem, back>>

\* The tests, and the compare-and-swap of the owner's own word.
Unlock(t) ==
    /\ at[t] = "unlock"
    /\ CASE owner = DESTROYED -> Ends(t, "EINVAL") /\ UNCHANGED owner
         [] owner = t -> owner' = READY /\ Goto(t, "unlock_post") /\ UNCHANGED res
         [] OTHER -> Ends(t, "EPERM") /\ UNCHANGED owner
    /\ UNCHANGED <<type, sem, back>>

\* sem_post: until here the next thread waits although owner is READY.
UnlockPost(t) ==
    /\ at[t] = "unlock_post"
    /\ sem' = sem + 1
    /\ Ends(t, "0")
    /\ UNCHANGED <<type, owner, back>>

-----------------------------------------------------------------------------
(* pthread_mutex_trylock.                                                  *)

\* owner is tested here and set after the semaphore.
TryLock(t) ==
    /\ at[t] = "trylock"
    /\ CASE owner = DESTROYED -> Ends(t, "EINVAL")
         [] owner = READY -> Goto(t, "trylock_wait") /\ UNCHANGED res
         [] OTHER -> Ends(t, "EBUSY")
    /\ UNCHANGED <<type, sem, owner, back>>

\* Mutation: a sem_trywait whose result is not looked at.
TryLockNoWait(t) ==
    /\ at[t] = "trylock_wait"
    /\ sem' = IF sem > 0 THEN sem - 1 ELSE sem
    /\ Goto(t, "trylock_own")
    /\ UNCHANGED <<type, owner, back, res>>

\* sem_wait, and not sem_trywait: trylock can block.
TryLockWait(t) ==
    /\ at[t] = "trylock_wait" /\ sem > 0
    /\ sem' = sem - 1
    /\ Goto(t, "trylock_own")
    /\ UNCHANGED <<type, owner, back, res>>

\* The compare-and-swap of owner, without a look at its result.
TryLockOwn(t) ==
    /\ at[t] = "trylock_own"
    /\ owner' = IF owner = READY THEN t ELSE owner
    /\ Ends(t, "0")
    /\ UNCHANGED <<type, sem, back>>

-----------------------------------------------------------------------------
(* pthread_mutex_destroy, after the trylock it starts with.                *)

DestroyMark(t) ==
    /\ at[t] = "destroy"
    /\ IF res[t] = "0" THEN /\ owner' = IF owner = t THEN DESTROYED ELSE owner
                            /\ Goto(t, "destroy_post")
                       ELSE Goto(t, "return") /\ UNCHANGED owner
    /\ UNCHANGED <<type, sem, back, res>>

DestroyPost(t) ==
    /\ at[t] = "destroy_post"
    /\ sem' = sem + 1
    /\ Goto(t, "destroy_take")
    /\ UNCHANGED <<type, owner, back, res>>

\* sem_destroy: a trywait, which another thread's sem_wait can overtake.
DestroyTake(t) ==
    /\ at[t] = "destroy_take"
    /\ sem' = IF sem > 0 THEN sem - 1 ELSE sem
    /\ res' = [res EXCEPT ![t] = IF sem > 0 THEN "0" ELSE "EBUSY"]
    /\ Goto(t, "return")
    /\ UNCHANGED <<type, owner, back>>

-----------------------------------------------------------------------------

MutexStep(t) ==
    \/ Lock(t) \/ LockWait(t) \/ LockOwn(t)
    \/ Unlock(t) \/ UnlockPost(t)
    \/ TryLock(t) \/ TryLockWait(t) \/ TryLockOwn(t)
    \/ DestroyMark(t) \/ DestroyPost(t) \/ DestroyTake(t)

=============================================================================
