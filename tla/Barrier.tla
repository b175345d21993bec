------------------------------ MODULE Barrier ------------------------------
(***************************************************************************)
(* What a barrier promises: threads come to it, wait, and go on together,  *)
(* exactly limit of them at a time.                                        *)
(***************************************************************************)
EXTENDS Naturals, FiniteSets

CONSTANTS Threads
VARIABLES limit,    \* threads that open the barrier
          phase     \* "out", "in" or "passed"

vars == <<limit, phase>>

In == {t \in Threads : phase[t] = "in"}

Init == limit \in Nat /\ phase = [t \in Threads |-> "out"]

\* The last of the threads opens the barrier to all that are in it.
Arrive(t) ==
    /\ phase[t] = "out"
    /\ phase' = IF Cardinality(In \cup {t}) < limit
                  THEN [phase EXCEPT ![t] = "in"]
                  ELSE [u \in Threads |-> IF u \in In \cup {t} THEN "passed" ELSE phase[u]]
    /\ UNCHANGED limit

Leave(t) ==
    /\ phase[t] = "passed"
    /\ phase' = [phase EXCEPT ![t] = "out"]
    /\ UNCHANGED limit

Next == \E t \in Threads : Arrive(t) \/ Leave(t)

Spec == Init /\ [][Next]_vars
=============================================================================
