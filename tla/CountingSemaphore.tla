------------------------- MODULE CountingSemaphore -------------------------
(***************************************************************************)
(* What the semaphores of the library promise: a count of permits, taken   *)
(* and given in one step each.  A trywait may be refused when there is no  *)
(* permit, or when another thread took or gave one during the call.        *)
(***************************************************************************)
EXTENDS Naturals

CONSTANTS Threads, InitialValues

VARIABLES count,    \* permits
          phase,    \* what each thread asks for, or what it was answered
          raced     \* threads in a trywait during which the count has changed

vars == <<count, phase, raced>>

Calls == {"wait", "timed", "try", "post"}

Init == /\ count \in InitialValues
        /\ phase = [t \in Threads |-> "idle"]
        /\ raced = {}

Begin(t, f) == /\ phase[t] = "idle"
               /\ phase' = [phase EXCEPT ![t] = f]
               /\ UNCHANGED <<count, raced>>

\* The count changes: every other thread in a trywait may have met the change.
Changed(t) == raced' = {u \in Threads \ {t} : u \in raced \/ phase[u] = "try"}

Take(t) == /\ phase[t] \in {"wait", "timed", "try"} /\ count > 0
           /\ count' = count - 1
           /\ phase' = [phase EXCEPT ![t] = "taken"]
           /\ Changed(t)

Give(t) == /\ phase[t] = "post"
           /\ count' = count + 1
           /\ phase' = [phase EXCEPT ![t] = "posted"]
           /\ Changed(t)

Refuse(t) == /\ phase[t] = "try"
             /\ count = 0 \/ t \in raced
             /\ phase' = [phase EXCEPT ![t] = "again"]
             /\ UNCHANGED <<count, raced>>

End(t) == /\ phase[t] \in {"taken", "posted", "again"}
          /\ phase' = [phase EXCEPT ![t] = "idle"]
          /\ raced' = raced \ {t}
          /\ UNCHANGED count

Next == \E t \in Threads : \/ \E f \in Calls : Begin(t, f)
                           \/ Take(t) \/ Give(t) \/ Refuse(t) \/ End(t)

Spec == Init /\ [][Next]_vars
=============================================================================
