--------------------------- MODULE SemaphoreProofs ---------------------------
(***************************************************************************)
(* The semaphore functions implement a counting semaphore, for any number  *)
(* of threads.                                                             *)
(***************************************************************************)
EXTENDS SemaphoreProps, TLAPS

\* Where a thread can be in each function.
PlacesOf(f) == CASE f = "none" -> {"idle"}
                 [] f \in {"wait", "timed"} -> Asking \cup {"rearm", "arm", "taken"}
                 [] f = "try" -> {"read", "cas", "test", "rearm", "arm", "taken"}
                 [] f = "last" -> {"block", "read", "cas", "taken", "again"}
                 [] OTHER -> {"post", "add", "wake", "disarm", "posted"}

\* What a thread knows of the value between its read and its cmpxchg: the value
\* it has read was positive, and it is still there unless another thread has
\* changed it since the call.
Knows(t) == at[t] = "cas" => /\ seen[t] > 0
                             /\ fn[t] \in {"try", "last"} /\ t \notin raced => seen[t] = value

SemInv == /\ value \in Nat /\ futex \in {0, 1}
          /\ at \in [Threads -> Places \ {"timedout"}]
          /\ fn \in [Threads -> Functions \cup {"none", "last"}]
          /\ seen \in [Threads -> Nat]
          /\ late \subseteq Threads /\ raced \subseteq Threads
          /\ \A t \in Threads : at[t] \in PlacesOf(fn[t]) /\ Knows(t)

LEMMA InitInv == Init => SemInv
  BY SemaphoreAssumption DEF Init, SemInv, Places, PlacesOf, Knows, Functions, Asking

LEMMA StepInv == SemInv /\ [Next]_vars => SemInv'
  <1> SUFFICES ASSUME SemInv, [Next]_vars PROVE SemInv'
      OBVIOUS
  <1> USE DEF SemInv, Places, PlacesOf, Knows, Functions, Asking, Goto
  <1>1. ASSUME NEW t \in Threads, NEW f \in Functions, Call(t, f) PROVE SemInv'
      BY <1>1 DEF Call
  <1>2. ASSUME NEW t \in Threads, Return(t) PROVE SemInv'
      BY <1>2 DEF Return
  <1>3. ASSUME NEW t \in Threads, ReadValue(t) PROVE SemInv'
      BY <1>3 DEF ReadValue, Missed
  <1>4. ASSUME NEW t \in Threads, CompareAndSwap(t) PROVE SemInv'
      BY <1>4 DEF CompareAndSwap, Missed, Changes
  <1>5. ASSUME NEW t \in Threads, TestValue(t) PROVE SemInv'
      BY <1>5 DEF TestValue
  <1>6. ASSUME NEW t \in Threads, FutexWait(t) PROVE SemInv'
      BY <1>6 DEF FutexWait
  <1>7. ASSUME NEW t \in Threads, Timer(t) PROVE SemInv'
      BY <1>7 DEF Timer
  <1>8. ASSUME NEW t \in Threads, Deadline(t) PROVE SemInv'
      BY <1>8 DEF Deadline, SyscallReturn, ETIMEDOUT
  <1>9. ASSUME NEW t \in Threads, Rearm(t) PROVE SemInv'
      BY <1>9 DEF Rearm
  <1>10. ASSUME NEW t \in Threads, Arm(t) PROVE SemInv'
      BY <1>10 DEF Arm
  <1>11. ASSUME NEW t \in Threads, Post(t) PROVE SemInv'
      BY <1>11 DEF Post
  <1>12. ASSUME NEW t \in Threads, Add(t) PROVE SemInv'
      BY <1>12 DEF Add, Changes
  <1>13. ASSUME NEW t \in Threads, FutexWake(t) PROVE SemInv'
      BY <1>13 DEF FutexWake
  <1>14. ASSUME NEW t \in Threads, Disarm(t) PROVE SemInv'
      BY <1>14 DEF Disarm
  <1>15. CASE UNCHANGED vars
      BY <1>15 DEF vars
  <1> QED
      BY <1>1, <1>2, <1>3, <1>4, <1>5, <1>6, <1>7, <1>8, <1>9, <1>10, <1>11, <1>12,
         <1>13, <1>14, <1>15 DEF Next, Step

\* The value never goes below zero, whatever the threads interleave.
THEOREM TypeCorrect == Spec => []SemTypeOK
  <1>1. SemInv => SemTypeOK
      BY DEF SemInv, SemTypeOK
  <1> QED
      BY <1>1, InitInv, StepInv, PTL DEF Spec

-----------------------------------------------------------------------------
(* The refinement.  Every step is one of the count, or leaves it alone.     *)

AbstractPhase == [t \in Threads |-> Phase(t)]

\* The calls that a change of the value may make fail are the trywaits.
LEMMA Racing ==
    ASSUME SemInv, NEW u \in Threads
    PROVE  at[u] \in Asking /\ fn[u] \in {"try", "last"} <=> Phase(u) = "try"
  BY DEF SemInv, Phase, Asking, PlacesOf, Functions

\* One thread moves: the phase of the others stays.
LEMMA OnlyPhaseOf ==
    ASSUME SemInv, SemInv', NEW t \in Threads,
           \A u \in Threads \ {t} : at'[u] = at[u] /\ fn'[u] = fn[u]
    PROVE  AbstractPhase' = [AbstractPhase EXCEPT ![t] = Phase(t)']
  <1>1. ASSUME NEW u \in Threads \ {t} PROVE Phase(u)' = Phase(u)
      BY DEF Phase
  <1> QED
      BY <1>1 DEF AbstractPhase

\* A step that changes neither the value nor a phase.
LEMMA Stutters ==
    ASSUME UNCHANGED <<value, raced>>, \A u \in Threads : Phase(u)' = Phase(u)
    PROVE  [Counting!Next]_(Counting!vars)
  BY DEF Counting!vars

LEMMA InitCounts == Init => Counting!Init
  <1> SUFFICES ASSUME Init PROVE Counting!Init
      OBVIOUS
  <1>1. ASSUME NEW t \in Threads PROVE Phase(t) = "idle"
      BY DEF Init, Phase, Asking
  <1> QED
      BY <1>1 DEF Init, Counting!Init

LEMMA StepCounts == SemInv /\ SemInv' /\ [Next]_vars => [Counting!Next]_(Counting!vars)
  <1> SUFFICES ASSUME SemInv, SemInv', [Next]_vars PROVE [Counting!Next]_(Counting!vars)
      OBVIOUS
  <1> USE DEF Goto
  <1>1. ASSUME NEW t \in Threads, NEW f \in Functions, Call(t, f)
        PROVE  Counting!Begin(t, f)
    <2>1. Phase(t) = "idle" /\ Phase(t)' = f
        BY <1>1 DEF Call, Phase, SemInv, Asking, Functions
    <2>2. AbstractPhase' = [AbstractPhase EXCEPT ![t] = f]
        BY <1>1, <2>1, OnlyPhaseOf DEF Call, SemInv
    <2> QED
        BY <1>1, <2>1, <2>2 DEF Call, Counting!Begin, AbstractPhase
  <1>2. ASSUME NEW t \in Threads, Return(t)
        PROVE  Counting!End(t)
    <2>1. Phase(t) \in {"taken", "posted", "again"} /\ Phase(t)' = "idle"
        BY <1>2 DEF Return, Phase, SemInv, Places, Asking
    <2>2. AbstractPhase' = [AbstractPhase EXCEPT ![t] = "idle"]
        BY <1>2, <2>1, OnlyPhaseOf DEF Return, SemInv
    <2> QED
        BY <1>2, <2>1, <2>2 DEF Return, Counting!End, AbstractPhase
  <1>3. ASSUME NEW t \in Threads, ReadValue(t)
        PROVE  [Counting!Next]_(Counting!vars)
    <2>1. CASE value > 0 \/ fn[t] # "last"
      <3>1. \A u \in Threads : Phase(u)' = Phase(u)
          BY <1>3, <2>1 DEF ReadValue, Missed, Phase, SemInv, Asking
      <3> QED
          BY <1>3, <3>1, Stutters DEF ReadValue
    <2>2. CASE ~(value > 0) /\ fn[t] = "last"
      <3>1. Phase(t) = "try" /\ Phase(t)' = "again"
          BY <1>3, <2>2 DEF ReadValue, Missed, Phase, SemInv, Asking
      <3>2. AbstractPhase' = [AbstractPhase EXCEPT ![t] = "again"]
          BY <1>3, <3>1, OnlyPhaseOf DEF ReadValue, SemInv
      <3>3. value = 0
          BY <2>2 DEF SemInv
      <3>4. Counting!Refuse(t)
          BY <1>3, <3>1, <3>2, <3>3 DEF ReadValue, Counting!Refuse, AbstractPhase
      <3> QED
          BY <3>4 DEF Counting!Next
    <2> QED
        BY <2>1, <2>2
  <1>4. ASSUME NEW t \in Threads, CompareAndSwap(t)
        PROVE  [Counting!Next]_(Counting!vars)
    <2>1. CASE value = seen[t]
      <3>1. Phase(t) \in {"wait", "timed", "try"} /\ Phase(t)' = "taken" /\ value > 0
          BY <1>4, <2>1 DEF CompareAndSwap, Phase, SemInv, Asking, PlacesOf, Knows
      <3>2. AbstractPhase' = [AbstractPhase EXCEPT ![t] = "taken"]
          BY <1>4, <3>1, OnlyPhaseOf DEF CompareAndSwap, SemInv
      <3>3. Counting!Changed(t)
          BY <1>4, <2>1, Racing DEF CompareAndSwap, Changes, Counting!Changed
      <3>4. Counting!Take(t)
          BY <1>4, <2>1, <3>1, <3>2, <3>3 DEF CompareAndSwap, Counting!Take, AbstractPhase
      <3> QED
          BY <3>4 DEF Counting!Next
    <2>2. CASE value # seen[t] /\ fn[t] # "last"
      <3>1. \A u \in Threads : Phase(u)' = Phase(u)
          BY <1>4, <2>2 DEF CompareAndSwap, Missed, Phase, SemInv, Asking
      <3> QED
          BY <1>4, <2>2, <3>1, Stutters DEF CompareAndSwap
    <2>3. CASE value # seen[t] /\ fn[t] = "last"
      <3>1. Phase(t) = "try" /\ Phase(t)' = "again" /\ t \in raced
          BY <1>4, <2>3 DEF CompareAndSwap, Missed, Phase, SemInv, Asking, Knows
      <3>2. AbstractPhase' = [AbstractPhase EXCEPT ![t] = "again"]
          BY <1>4, <3>1, OnlyPhaseOf DEF CompareAndSwap, SemInv
      <3>3. Counting!Refuse(t)
          BY <1>4, <2>3, <3>1, <3>2 DEF CompareAndSwap, Counting!Refuse, AbstractPhase
      <3> QED
          BY <3>3 DEF Counting!Next
    <2> QED
        BY <2>1, <2>2, <2>3
  <1>5. ASSUME NEW t \in Threads, TestValue(t)
        PROVE  [Counting!Next]_(Counting!vars)
    <2>1. \A u \in Threads : Phase(u)' = Phase(u)
        BY <1>5 DEF TestValue, Phase, SemInv, Asking, PlacesOf
    <2> QED
        BY <1>5, <2>1, Stutters DEF TestValue
  <1>6. ASSUME NEW t \in Threads, FutexWait(t) \/ Timer(t) \/ Deadline(t)
        PROVE  [Counting!Next]_(Counting!vars)
    <2>1. \A u \in Threads : Phase(u)' = Phase(u)
        BY <1>6 DEF FutexWait, Timer, Deadline, SyscallReturn, ETIMEDOUT, Phase, SemInv, Asking
    <2> QED
        BY <1>6, <2>1, Stutters DEF FutexWait, Timer, Deadline
  <1>7. ASSUME NEW t \in Threads, Rearm(t) \/ Arm(t)
        PROVE  [Counting!Next]_(Counting!vars)
    <2>1. \A u \in Threads : Phase(u)' = Phase(u)
        BY <1>7 DEF Rearm, Arm, Phase, SemInv, Asking
    <2> QED
        BY <1>7, <2>1, Stutters DEF Rearm, Arm
  <1>8. ASSUME NEW t \in Threads, Post(t)
        PROVE  [Counting!Next]_(Counting!vars)
    <2>1. ~(value < 0)
        BY DEF SemInv
    <2>2. \A u \in Threads : Phase(u)' = Phase(u)
        BY <1>8, <2>1 DEF Post, Phase, SemInv, Asking
    <2> QED
        BY <1>8, <2>1, <2>2, Stutters DEF Post
  <1>9. ASSUME NEW t \in Threads, Add(t)
        PROVE  Counting!Give(t)
    <2>1. Phase(t) = "post" /\ Phase(t)' = "posted"
        BY <1>9 DEF Add, Phase, SemInv, Asking
    <2>2. AbstractPhase' = [AbstractPhase EXCEPT ![t] = "posted"]
        BY <1>9, <2>1, OnlyPhaseOf DEF Add, SemInv
    <2>3. Counting!Changed(t)
        BY <1>9, Racing DEF Add, Changes, Counting!Changed
    <2> QED
        BY <1>9, <2>1, <2>2, <2>3 DEF Add, Counting!Give, AbstractPhase
  <1>10. ASSUME NEW t \in Threads, FutexWake(t)
         PROVE  [Counting!Next]_(Counting!vars)
    <2>1. \A u \in Threads : Phase(u)' = Phase(u)
        BY <1>10 DEF FutexWake, Phase, SemInv, Asking
    <2> QED
        BY <1>10, <2>1, Stutters DEF FutexWake
  <1>11. ASSUME NEW t \in Threads, Disarm(t)
         PROVE  [Counting!Next]_(Counting!vars)
    <2>1. \A u \in Threads : Phase(u)' = Phase(u)
        BY <1>11 DEF Disarm, Phase, SemInv, Asking
    <2> QED
        BY <1>11, <2>1, Stutters DEF Disarm
  <1>12. CASE UNCHANGED vars
    <2>1. \A u \in Threads : Phase(u)' = Phase(u)
        BY <1>12 DEF vars, Phase
    <2> QED
        BY <1>12, <2>1, Stutters DEF vars
  <1> QED
      BY <1>1, <1>2, <1>3, <1>4, <1>5, <1>6, <1>7, <1>8, <1>9, <1>10, <1>11, <1>12
      DEF Next, Step, Counting!Next, Counting!Calls, Functions

\* The semaphore functions implement a counting semaphore: no permit is lost or
\* taken twice, and sem_trywait is refused only without a permit or when the
\* value has changed during the call.
THEOREM SemaphoresCount == Spec => ImplementsCountingSemaphore
  BY InitInv, StepInv, InitCounts, StepCounts, PTL
  DEF Spec, ImplementsCountingSemaphore, Counting!Spec
=============================================================================
