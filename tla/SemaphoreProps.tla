--------------------------- MODULE SemaphoreProps ---------------------------
(***************************************************************************)
(* What the semaphores promise.                                            *)
(***************************************************************************)
EXTENDS Semaphore

Places == {"idle", "read", "cas", "test", "block", "asleep", "rearm", "arm",
           "taken", "again", "timedout", "post", "add", "wake", "disarm", "posted"}

\* The types of the words and the places.  The value is never negative, so that
\* the loop at the top of sem_post is never entered; and sem_timedwait never
\* ends with its time limit, because __futex returns -1 and not -ETIMEDOUT.
SemTypeOK ==
    /\ value \in Nat /\ futex \in {0, 1}
    /\ at \in [Threads -> Places \ {"timedout"}]
    /\ fn \in [Threads -> Functions \cup {"none", "last"}]
    /\ seen \in [Threads -> Nat]
    /\ late \subseteq Threads /\ raced \subseteq Threads

\* The threads that are inside a sem_wait or a sem_timedwait and have not
\* got a permit.
Waiting == {t \in Threads : fn[t] \in {"wait", "timed"}
                            /\ at[t] \in Asking}

\* A permit does not lie idle while a thread waits: some thread takes one.  A
\* wake-up between sem_post's FUTEX_WAKE and its reset of the futex is lost;
\* the time limit of sem_wait's sleep, or that of sem_timedwait, repairs it.
PermitsTaken ==
    Waiting # {} /\ value > 0
        ~> \/ \E t \in Threads : at[t] \in {"rearm", "arm", "taken"}
           \/ value = 0 \/ Waiting = {}

-----------------------------------------------------------------------------
(* The functions as operations on a count.                                 *)

\* A call has had its effect once the value is changed, or it was refused.
Phase(t) == CASE at[t] = "idle" -> "idle"
              [] at[t] \in {"rearm", "arm", "taken"} -> "taken"
              [] at[t] \in {"wake", "disarm", "posted"} -> "posted"
              [] at[t] = "again" -> "again"
              [] at[t] \in Asking -> (IF fn[t] = "last" THEN "try" ELSE fn[t])
              [] OTHER -> "post"

Counting == INSTANCE CountingSemaphore
                WITH count <- value, phase <- [t \in Threads |-> Phase(t)]

\* The functions implement a counting semaphore, whatever the steps between
\* which the threads are interrupted: no permit is lost or taken twice, and
\* sem_trywait is refused only without a permit or during a change.
ImplementsCountingSemaphore == Counting!Spec
=============================================================================
