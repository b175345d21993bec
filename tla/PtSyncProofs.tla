---------------------------- MODULE PtSyncProofs ----------------------------
(***************************************************************************)
(* Theorems about the POSIX synchronization objects, for any number of     *)
(* threads: types and conditions (no wake-up is left over, a broadcast     *)
(* leaves no waiter), mutexes and read-write locks (exclusion, and a       *)
(* permit that is never lost), once (one run, ended before anybody goes    *)
(* on), and the barrier, which implements the abstract one.                *)
(***************************************************************************)
EXTENDS PtSyncProps, FiniteSetTheorems, TLAPS

\* The types without the bounds of the semaphores.
TypeInv ==
    /\ kind \in Kinds /\ type \in MutexTypes
    /\ sem \in Nat /\ wait_block \in Nat /\ clear_block \in Nat
    /\ owner \in Threads \cup {READY, DESTROYED}
    /\ at \in [Threads -> Places]
    /\ back \in [Threads -> Continuations]
    /\ res \in [Threads -> Results]
    /\ waiters \in Int /\ reg \in [Threads -> Int]
    /\ read_waiters \in Nat /\ count \in Nat /\ limit \in Nat
    /\ executed \in {0, 1} /\ runs \in Nat
    /\ fn \in [Threads -> FunctionNames]
    /\ has \in [Threads -> Anything]
    /\ phase \in [Threads -> {"out", "in", "passed"}]

\* The functions of the program start at places of the library.
LEMMA FunctionTypes ==
    ASSUME NEW c \in Functions
    PROVE  /\ c.at \in {"lock", "trylock", "unlock", "wait", "signal"}
           /\ c.back \in Continuations \ {"wait_block"}
           /\ c.fn \in FunctionNames
  <1>1. c.at \in {"lock", "trylock", "unlock", "wait", "signal"}
      BY DEF Functions, Call_
  <1>2. c.back \in Continuations \ {"wait_block"}
      BY DEF Functions, Call_, Continuations, ObjectPlaces
  <1> QED
      BY <1>1, <1>2 DEF FunctionNames

LEMMA NoneIsName == "none" \in FunctionNames
  BY DEF FunctionNames

LEMMA PlaceTypes == /\ Continuations \subseteq Places
                    /\ {"idle", "return"} \subseteq Places
                    /\ MutexPlaces \subseteq Places /\ CondPlaces \subseteq Places
                    /\ ObjectPlaces \subseteq Places
  BY DEF Continuations, Places, MutexPlaces, CondPlaces

LEMMA TypeInit == Init => TypeInv
  <1> SUFFICES ASSUME Init PROVE TypeInv
      OBVIOUS
  <1>1. type \in MutexTypes
      BY DEF Init, MutexInit, MutexTypes, DefaultType
  <1>2. limit \in Nat
      BY SyncAssumption DEF Init
  <1> QED
      BY <1>1, <1>2, NoneIsName, PlaceTypes
      DEF Init, TypeInv, MutexInit, Continuations, Results, Anything

LEMMA TypeStep == TypeInv /\ [Next]_vars => TypeInv'
  <1> SUFFICES ASSUME TypeInv, [Next]_vars PROVE TypeInv'
      OBVIOUS
  <1> USE DEF TypeInv, Goto, CallMutex, Ends
  <1>1. ASSUME NEW t \in Threads, MutexStep(t),
               UNCHANGED <<condVars, objectVars, programVars>>
        PROVE  TypeInv'
    <2> USE <1>1, PlaceTypes DEF condVars, objectVars, programVars, MutexPlaces, Results
    <2>1. CASE Lock(t)
        BY <2>1 DEF Lock
    <2>2. CASE LockWait(t)
        BY <2>2 DEF LockWait
    <2>3. CASE LockOwn(t)
        BY <2>3 DEF LockOwn
    <2>4. CASE Unlock(t)
        BY <2>4 DEF Unlock
    <2>5. CASE UnlockPost(t)
        BY <2>5 DEF UnlockPost
    <2>6. CASE TryLock(t)
        BY <2>6 DEF TryLock
    <2>7. CASE TryLockWait(t)
        BY <2>7 DEF TryLockWait
    <2>8. CASE TryLockOwn(t)
        BY <2>8 DEF TryLockOwn
    <2>9. CASE DestroyMark(t)
        BY <2>9 DEF DestroyMark
    <2>10. CASE DestroyPost(t)
        BY <2>10 DEF DestroyPost
    <2>11. CASE DestroyTake(t)
        BY <2>11 DEF DestroyTake
    <2> QED
        BY <2>1, <2>2, <2>3, <2>4, <2>5, <2>6, <2>7, <2>8, <2>9, <2>10, <2>11
        DEF MutexStep
  <1>2. ASSUME NEW t \in Threads, CondStep(t), UNCHANGED <<objectVars, programVars>>
        PROVE  TypeInv'
    <2>c. {"unlock", "lock", "wait_block", "return", "bar_unlock", "bar_reset"} \subseteq Places
        BY DEF Places, MutexPlaces, CondPlaces, ObjectPlaces
    <2>d. {"wait_block", "bar_unlock", "return"} \subseteq Continuations
        BY DEF Continuations, ObjectPlaces
    <2> USE <1>2, <2>c, <2>d, PlaceTypes DEF objectVars, programVars, CondPlaces, condVars
    <2>1. CASE WaitEnter(t)
        BY <2>1 DEF WaitEnter
    <2>2. CASE WaitCount(t)
        BY <2>2 DEF WaitCount
    <2>3. CASE WaitLeave(t)
        BY <2>3 DEF WaitLeave
    <2>4. CASE WaitBlock(t)
        BY <2>4 DEF WaitBlock
    <2>5. CASE WaitUncount(t)
        BY <2>5 DEF WaitUncount, AfterWait
    <2>6. CASE TimedEnter(t)
        BY <2>6 DEF TimedEnter
    <2>7. CASE TimedLeave(t)
        BY <2>7 DEF TimedLeave, AfterWait
    <2>8. CASE SignalEnter(t)
        BY <2>8 DEF SignalEnter
    <2>9. CASE SignalTest(t)
        BY <2>9 DEF SignalTest
    <2>10. CASE SignalRead(t)
        BY <2>10 DEF SignalRead
    <2>11. CASE SignalPost(t)
        BY <2>11 DEF SignalPost
    <2>12. CASE SignalSpin(t)
        BY <2>12 DEF SignalSpin
    <2>13. CASE SignalLeave(t)
        BY <2>13 DEF SignalLeave
    <2> QED
        BY <2>1, <2>2, <2>3, <2>4, <2>5, <2>6, <2>7, <2>8, <2>9, <2>10, <2>11, <2>12, <2>13
        DEF CondStep
  <1>3. ASSUME NEW t \in Threads, ObjectStep(t), UNCHANGED <<condVars, programVars>>
        PROVE  TypeInv'
    <2>c. {"unlock", "lock", "signal", "wait", "return"} \subseteq Places
        BY DEF Places, MutexPlaces, CondPlaces
    <2>d. {"return", "wr_again", "wr_test", "busy"} \subseteq Continuations
        BY DEF Continuations, ObjectPlaces
    <2> USE <1>3, <2>c, <2>d, PlaceTypes DEF condVars, programVars, objectVars, Results
    <2>1. CASE BarCount(t)
        BY <2>1 DEF BarCount
    <2>2. CASE BarReset(t)
        BY <2>2 DEF BarReset
    <2>3. CASE BarUnlock(t)
        BY <2>3 DEF BarUnlock
    <2>4. CASE ReadCount(t)
        BY <2>4 DEF ReadCount
    <2>5. CASE WriteTest(t)
        BY <2>5 DEF WriteTest
    <2>6. CASE WriteAgain(t)
        BY <2>6 DEF WriteAgain
    <2>7. CASE TryWriteTest(t)
        BY <2>7 DEF TryWriteTest
    <2>8. CASE TryWriteBusy(t)
        BY <2>8 DEF TryWriteBusy
    <2>9. CASE ReadUncount(t)
        BY <2>9 DEF ReadUncount
    <2>10. CASE OnceTest(t)
      <3>1. "once_done" \in Places
          BY DEF Places, ObjectPlaces
      <3> QED
          BY <2>10, <3>1 DEF OnceTest
    <2>11. CASE OnceDone(t)
        BY <2>11 DEF OnceDone
    <2> QED
        BY <2>1, <2>2, <2>3, <2>4, <2>5, <2>6, <2>7, <2>8, <2>9, <2>10, <2>11
        DEF ObjectStep
  <1>4. ASSUME NEW t \in Threads, Return(t)
        PROVE  TypeInv'
    <2>1. ASSUME NEW h \in Anything PROVE Gives(fn[t], h) \in Anything
        BY DEF Gives, Anything
    <2>2. "return" \in Continuations /\ "0" \in Results
        BY DEF Continuations, Results
    <2> QED
        BY <1>4, <2>1, <2>2, PlaceTypes, NoneIsName DEF Return
  <1>5. ASSUME NEW t \in Threads, NEW c \in Functions, Call(t, c)
        PROVE  TypeInv'
    <2>1. c.at \in Places
        BY FunctionTypes DEF Places, MutexPlaces, CondPlaces
    <2> QED
        BY <1>5, <2>1, FunctionTypes DEF Call, condVars, objectVars, Anything
  <1>6. CASE UNCHANGED vars
      BY <1>6 DEF vars, mutexVars, condVars, objectVars, programVars
  <1> QED
      BY <1>1, <1>2, <1>3, <1>4, <1>5, <1>6 DEF Next, Step

-----------------------------------------------------------------------------
(* The section that clear_block guards, and the permit of wait_block.       *)

\* Between sem_wait and sem_post of clear_block.
Section == {"wait_count", "wait_leave", "timed_leave", "sig_test", "sig_read",
            "sig_post", "sig_spin", "sig_leave"}

ClearInv ==
    /\ clear_block \in {0, 1}
    /\ \A t \in Threads : at[t] \in Section => clear_block = 0
    /\ \A t, u \in Threads : at[t] \in Section /\ at[u] \in Section => t = u

\* A signaller that has not yet seen a waiter leave.
Spinning(s) == at[s] = "sig_spin" /\ reg[s] = waiters

\* The permit, or the one waiter that has taken it, belongs to a signaller that
\* spins.  What the signaller has read is not changed by anybody else.
WakeInv ==
    /\ wait_block \in {0, 1}
    /\ wait_block = 1 => \E s \in Threads : Spinning(s)
    /\ \A u \in Threads : at[u] = "wait_uncount" =>
          wait_block = 0 /\ \E s \in Threads : Spinning(s)
    /\ \A u, v \in Threads : at[u] = "wait_uncount" /\ at[v] = "wait_uncount" => u = v
    /\ \A s \in Threads : /\ at[s] = "sig_read" => waiters > 0
                          /\ at[s] = "sig_post" => reg[s] = waiters /\ waiters > 0
                          /\ at[s] = "sig_spin" => reg[s] > 0
                          /\ at[s] = "sig_leave" /\ fn[s] # "signal" => waiters <= 0

CondInv == ClearInv /\ WakeInv

LEMMA CondInit == Init => CondInv
  BY DEF Init, CondInv, ClearInv, WakeInv, Section

\* A step that does not touch the condition and moves only threads that are, and
\* stay, outside of it keeps its invariant.
Outside == Places \ (Section \cup {"wait_uncount"})

LEMMA CondFrame ==
    ASSUME CondInv, TypeInv, UNCHANGED condVars, NEW t \in Threads,
           at[t] \in Outside, at'[t] \in Outside,
           \A u \in Threads \ {t} : at'[u] = at[u] /\ fn'[u] = fn[u]
    PROVE  CondInv'
  <1>1. ClearInv'
      BY DEF CondInv, ClearInv, condVars, Outside
  <1>2. ASSUME NEW s \in Threads, Spinning(s) PROVE Spinning(s)'
      BY <1>2 DEF Spinning, Outside, Section, condVars
  <1>3. WakeInv'
      BY <1>2 DEF CondInv, WakeInv, Outside, Section, condVars
  <1> QED
      BY <1>1, <1>3 DEF CondInv

LEMMA CondStepInv ==
    ASSUME CondInv, TypeInv, NEW t \in Threads, CondStep(t),
           UNCHANGED <<objectVars, programVars>>
    PROVE  CondInv'
  <1> USE DEF CondInv, ClearInv, WakeInv, TypeInv, Goto, CallMutex, Spinning, Section, programVars
  <1>1. CASE WaitEnter(t)
      BY <1>1 DEF WaitEnter
  <1>2. CASE WaitCount(t)
      BY <1>2 DEF WaitCount
  <1>3. CASE WaitLeave(t)
      BY <1>3 DEF WaitLeave
  <1>4. CASE WaitBlock(t)
      BY <1>4 DEF WaitBlock
  <1>5. CASE WaitUncount(t)
      BY <1>5 DEF WaitUncount
  <1>6. CASE TimedEnter(t)
      BY <1>6 DEF TimedEnter
  <1>7. CASE TimedLeave(t)
      BY <1>7 DEF TimedLeave
  <1>8. CASE SignalEnter(t)
      BY <1>8 DEF SignalEnter
  <1>9. CASE SignalTest(t)
      BY <1>9 DEF SignalTest, condVars
  <1>10. CASE SignalRead(t)
      BY <1>10 DEF SignalRead
  <1>11. CASE SignalPost(t)
      BY <1>11 DEF SignalPost
  <1>12. CASE SignalSpin(t)
      BY <1>12 DEF SignalSpin, condVars
  <1>13. CASE SignalLeave(t)
      BY <1>13 DEF SignalLeave
  <1> QED
      BY <1>1, <1>2, <1>3, <1>4, <1>5, <1>6, <1>7, <1>8, <1>9, <1>10, <1>11, <1>12, <1>13
      DEF CondStep

-----------------------------------------------------------------------------
(* waiters counts the threads between its increment and its decrement.      *)

IsCounted(t) == \/ at[t] \in {"wait_leave", "wait_block", "wait_uncount"}
                \/ at[t] \in {"unlock", "unlock_post"} /\ back[t] = "wait_block"

Counted == {t \in Threads : IsCounted(t)}

\* Only the unlock of a wait returns to wait_block.
UnlockOfWait(t) == back[t] = "wait_block" =>
    at[t] \notin MutexPlaces \ {"unlock", "unlock_post"}

CountInv == /\ waiters = Cardinality(Counted)
            /\ \A t \in Threads : UnlockOfWait(t)

LEMMA CountInit == Init => CountInv
  <1> SUFFICES ASSUME Init PROVE CountInv
      OBVIOUS
  <1>1. Counted = {}
      BY DEF Init, Counted, IsCounted
  <1>2. waiters = Cardinality(Counted)
      BY <1>1, FS_EmptySet DEF Init
  <1>3. ASSUME NEW t \in Threads PROVE UnlockOfWait(t)
      BY DEF Init, UnlockOfWait
  <1> QED
      BY <1>2, <1>3 DEF CountInv

\* Nothing changes for the count.
LEMMA CountFrame ==
    ASSUME CountInv, NEW t \in Threads, waiters' = waiters,
           \A u \in Threads \ {t} : at'[u] = at[u] /\ back'[u] = back[u],
           IsCounted(t)' <=> IsCounted(t), UnlockOfWait(t)'
    PROVE  CountInv'
  <1>1. ASSUME NEW u \in Threads \ {t}
        PROVE  (IsCounted(u)' <=> IsCounted(u)) /\ (UnlockOfWait(u)' <=> UnlockOfWait(u))
      BY DEF IsCounted, UnlockOfWait
  <1>2. Counted' = Counted
      BY <1>1 DEF Counted
  <1> QED
      BY <1>1, <1>2 DEF CountInv

LEMMA CountMutex ==
    ASSUME CountInv, CondInv, TypeInv, NEW t \in Threads, MutexStep(t),
           UNCHANGED <<condVars, objectVars, programVars>>
    PROVE  CountInv' /\ CondInv'
  <1> USE DEF TypeInv, Goto, Ends
  <1>a. UnlockOfWait(t) /\ back[t] \in Continuations
      BY DEF CountInv
  <1>1. /\ \A u \in Threads \ {t} : at'[u] = at[u] /\ back'[u] = back[u]
        /\ at[t] \in MutexPlaces /\ back' = back
        /\ \/ at'[t] \in MutexPlaces \/ at'[t] = "return" \/ at'[t] = back[t]
        /\ at[t] \in {"unlock", "unlock_post"} => at'[t] \in {"unlock_post", back[t]}
        /\ at[t] \notin {"unlock", "unlock_post"} => at'[t] \notin {"unlock", "unlock_post"}
    <2> USE DEF MutexPlaces, Continuations, ObjectPlaces
    <2>1. CASE Lock(t) \/ LockWait(t) \/ LockOwn(t)
        BY <2>1, <1>a DEF Lock, LockWait, LockOwn
    <2>2. CASE Unlock(t) \/ UnlockPost(t)
        BY <2>2, <1>a DEF Unlock, UnlockPost
    <2>3. CASE TryLock(t) \/ TryLockWait(t) \/ TryLockOwn(t)
        BY <2>3, <1>a DEF TryLock, TryLockWait, TryLockOwn
    <2>4. CASE DestroyMark(t) \/ DestroyPost(t) \/ DestroyTake(t)
        BY <2>4, <1>a DEF DestroyMark, DestroyPost, DestroyTake
    <2> QED
        BY <2>1, <2>2, <2>3, <2>4 DEF MutexStep
  <1>2. IsCounted(t)' <=> IsCounted(t)
      BY <1>1, <1>a DEF IsCounted, UnlockOfWait, MutexPlaces, Continuations, ObjectPlaces
  <1>3. UnlockOfWait(t)'
      BY <1>1, <1>a DEF UnlockOfWait, MutexPlaces, Continuations, ObjectPlaces
  <1>4. CountInv'
      BY <1>1, <1>2, <1>3, CountFrame DEF condVars
  <1>5. at[t] \in Outside /\ at'[t] \in Outside
      BY <1>1, <1>a
      DEF Outside, Section, Places, MutexPlaces, CondPlaces, Continuations, ObjectPlaces
  <1>6. CondInv'
      BY <1>1, <1>5, CondFrame DEF programVars
  <1> QED
      BY <1>4, <1>6

LEMMA CountCond ==
    ASSUME CountInv, TypeInv, NEW t \in Threads, CondStep(t),
           UNCHANGED <<objectVars, programVars>>
    PROVE  CountInv'
  <1> USE DEF TypeInv, Goto, CallMutex
  <1>f. IsFiniteSet(Counted)
      BY SyncAssumption, FS_Subset DEF Counted
  <1>1. CASE WaitCount(t)
    <2>1. Counted' = Counted \cup {t} /\ t \notin Counted
        BY <1>1 DEF WaitCount, Counted, IsCounted
    <2>2. waiters' = Cardinality(Counted')
        BY <1>1, <1>f, <2>1, FS_AddElement, FS_CardinalityType DEF WaitCount, CountInv
    <2> QED
        BY <1>1, <2>2 DEF WaitCount, CountInv, UnlockOfWait, MutexPlaces
  <1>2. CASE WaitUncount(t)
    <2>1. Counted' = Counted \ {t} /\ t \in Counted
        BY <1>2 DEF WaitUncount, Counted, IsCounted, AfterWait
    <2>2. waiters' = Cardinality(Counted')
        BY <1>2, <1>f, <2>1, FS_RemoveElement, FS_CardinalityType DEF WaitUncount, CountInv
    <2> QED
        BY <1>2, <2>2 DEF WaitUncount, CountInv, UnlockOfWait, MutexPlaces, AfterWait
  <1>3. CASE ~WaitCount(t) /\ ~WaitUncount(t)
    <2> USE DEF IsCounted, UnlockOfWait, MutexPlaces, AfterWait
    <2>a. UnlockOfWait(t)
        BY DEF CountInv
    <2>1. CASE WaitEnter(t) \/ WaitLeave(t) \/ WaitBlock(t)
        BY <2>1, <2>a, CountFrame DEF WaitEnter, WaitLeave, WaitBlock
    <2>2. CASE TimedEnter(t) \/ TimedLeave(t)
        BY <2>2, <2>a, CountFrame DEF TimedEnter, TimedLeave
    <2>3. CASE SignalEnter(t) \/ SignalTest(t) \/ SignalRead(t)
        BY <2>3, <2>a, CountFrame DEF SignalEnter, SignalTest, SignalRead, condVars
    <2>4. CASE SignalPost(t) \/ SignalSpin(t) \/ SignalLeave(t)
        BY <2>4, <2>a, CountFrame DEF SignalPost, SignalSpin, SignalLeave, condVars
    <2> QED
        BY <1>3, <2>1, <2>2, <2>3, <2>4 DEF CondStep
  <1> QED
      BY <1>1, <1>2, <1>3

LEMMA CountObject ==
    ASSUME CountInv, CondInv, TypeInv, NEW t \in Threads, ObjectStep(t),
           UNCHANGED <<condVars, programVars>>
    PROVE  CountInv' /\ CondInv'
  <1> USE DEF TypeInv, Goto, CallMutex
  <1>1. /\ \A u \in Threads \ {t} : at'[u] = at[u] /\ back'[u] = back[u]
        /\ at[t] \in ObjectPlaces
        /\ \/ at'[t] \in {"signal", "wait", "return", "once_done"}
              /\ back'[t] = back[t]
           \/ at'[t] \in {"lock", "unlock", "return"} /\ back'[t] # "wait_block"
    <2> USE DEF ObjectPlaces
    <2>1. CASE BarCount(t) \/ BarReset(t) \/ BarUnlock(t)
        BY <2>1 DEF BarCount, BarReset, BarUnlock
    <2>2. CASE ReadCount(t) \/ ReadUncount(t)
        BY <2>2 DEF ReadCount, ReadUncount
    <2>3. CASE WriteTest(t) \/ WriteAgain(t)
        BY <2>3 DEF WriteTest, WriteAgain
    <2>4. CASE TryWriteTest(t) \/ TryWriteBusy(t)
        BY <2>4 DEF TryWriteTest, TryWriteBusy
    <2>5. CASE OnceTest(t) \/ OnceDone(t)
        BY <2>5 DEF OnceTest, OnceDone
    <2> QED
        BY <2>1, <2>2, <2>3, <2>4, <2>5 DEF ObjectStep
  <1>2. (IsCounted(t)' <=> IsCounted(t)) /\ UnlockOfWait(t)'
      BY <1>1 DEF IsCounted, UnlockOfWait, MutexPlaces, ObjectPlaces
  <1>3. CountInv'
      BY <1>1, <1>2, CountFrame DEF condVars
  <1>4. at[t] \in Outside /\ at'[t] \in Outside
      BY <1>1 DEF Outside, Section, Places, MutexPlaces, CondPlaces, ObjectPlaces
  <1>5. CondInv'
      BY <1>1, <1>4, CondFrame DEF programVars
  <1> QED
      BY <1>3, <1>5

-----------------------------------------------------------------------------
(* The invariant of the types and the condition.                            *)

CondSafe == TypeInv /\ CondInv /\ CountInv

LEMMA CondSafeStep == CondSafe /\ [Next]_vars => CondSafe'
  <1> SUFFICES ASSUME CondSafe, [Next]_vars PROVE CondSafe'
      OBVIOUS
  <1> USE DEF CondSafe
  <1>t. TypeInv'
      BY TypeStep
  <1>1. ASSUME NEW t \in Threads, Return(t) PROVE CondInv' /\ CountInv'
    <2>1. at[t] \in Outside /\ at'[t] \in Outside
        BY <1>1 DEF Return, Goto, TypeInv, Outside, Section, Places
    <2>2. CondInv'
      <3>1. ClearInv'
          BY <1>1, <2>1 DEF Return, Goto, CondInv, ClearInv, TypeInv, Section
      <3>2. ASSUME NEW s \in Threads, Spinning(s) PROVE Spinning(s)'
          BY <1>1, <3>2 DEF Return, Goto, TypeInv, Spinning
      <3>3. WakeInv'
          BY <1>1, <3>2 DEF Return, Goto, CondInv, WakeInv, TypeInv
      <3> QED
          BY <3>1, <3>3 DEF CondInv
    <2>3. CountInv'
        BY <1>1, CountFrame
        DEF Return, Goto, TypeInv, CountInv, IsCounted, UnlockOfWait, MutexPlaces
    <2> QED
        BY <2>2, <2>3
  <1>2. ASSUME NEW t \in Threads, NEW c \in Functions, Call(t, c)
        PROVE  CondInv' /\ CountInv'
    <2>1. /\ at'[t] = c.at /\ back'[t] = c.back /\ at[t] = "idle"
          /\ \A u \in Threads \ {t} : at'[u] = at[u] /\ back'[u] = back[u] /\ fn'[u] = fn[u]
        BY <1>2 DEF Call, TypeInv
    <2>2. at[t] \in Outside /\ at'[t] \in Outside
        BY <2>1, FunctionTypes DEF Outside, Section, Places, MutexPlaces, CondPlaces
    <2>3. CondInv'
        BY <1>2, <2>1, <2>2, CondFrame DEF Call
    <2>4. CountInv'
        BY <1>2, <2>1, FunctionTypes, CountFrame
        DEF Call, condVars, IsCounted, UnlockOfWait, MutexPlaces
    <2> QED
        BY <2>3, <2>4
  <1>3. CASE UNCHANGED vars
    <2>1. UNCHANGED <<at, back, fn, waiters, wait_block, clear_block, reg>>
        BY <1>3 DEF vars, mutexVars, condVars, programVars
    <2>2. CondInv'
        BY <2>1 DEF CondInv, ClearInv, WakeInv, Spinning
    <2>3. CountInv'
        BY <2>1 DEF CountInv, Counted, IsCounted, UnlockOfWait
    <2> QED
        BY <1>t, <2>2, <2>3
  <1>4. ASSUME NEW t \in Threads, Step(t) PROVE CondInv' /\ CountInv'
    <2>1. CASE MutexStep(t) /\ UNCHANGED <<condVars, objectVars, programVars>>
        BY <2>1, CountMutex
    <2>2. CASE CondStep(t) /\ UNCHANGED <<objectVars, programVars>>
        BY <2>2, CountCond, CondStepInv
    <2>3. CASE ObjectStep(t) /\ UNCHANGED <<condVars, programVars>>
        BY <2>3, CountObject
    <2> QED
        BY <1>1, <1>4, <2>1, <2>2, <2>3 DEF Step
  <1> QED
      BY <1>t, <1>2, <1>3, <1>4 DEF Next

LEMMA CondSafeInit == Init => CondSafe
  BY TypeInit, CondInit, CountInit DEF CondSafe

\* No permit stays in wait_block for a thread that begins to wait later.
THEOREM NoStray == Spec => []NoStrayWakeup
  <1>1. CondSafe => NoStrayWakeup
      BY DEF CondSafe, CondInv, WakeInv, TypeInv, NoStrayWakeup, Spinning
  <1> QED
      BY <1>1, CondSafeInit, CondSafeStep, PTL DEF Spec

\* A broadcast that ends leaves no thread asleep on the condition.
THEOREM AllWoken == Spec => []BroadcastWakesAll
  <1>1. CondSafe => BroadcastWakesAll
    <2> SUFFICES ASSUME CondSafe, NEW t \in Threads, NEW u \in Threads,
                        at[t] = "sig_leave", fn[t] = "broadcast", at[u] = "wait_block"
                 PROVE  FALSE
        BY DEF BroadcastWakesAll
    <2>1. waiters <= 0
        BY DEF CondSafe, CondInv, WakeInv
    <2>2. IsFiniteSet(Counted) /\ u \in Counted
        BY SyncAssumption, FS_Subset DEF Counted, IsCounted
    <2>3. Cardinality(Counted) \in Nat /\ Cardinality(Counted) # 0
        BY <2>2, FS_CardinalityType, FS_EmptySet
    <2> QED
        BY <2>1, <2>3 DEF CondSafe, CountInv
  <1> QED
      BY <1>1, CondSafeInit, CondSafeStep, PTL DEF Spec

-----------------------------------------------------------------------------
(***************************************************************************)
(* Mutual exclusion of the mutex and of the read-write lock, and the       *)
(* permit that is never lost, for any number of threads.                   *)
(***************************************************************************)

(* Where the functions call those of the mutex.                             *)

LockPlaces == {"lock", "lock_wait", "lock_own"}
TryPlaces == {"trylock", "trylock_wait", "trylock_own"}
UnlockPlaces == {"unlock", "unlock_post"}

LockCalls == {<<"lock", "return">>, <<"wait", "return">>, <<"timedwait", "return">>,
              <<"barrier_wait", "bar_count">>, <<"barrier_wait", "bar_unlock">>,
              <<"rdlock", "rd_count">>, <<"wrlock", "wr_test">>,
              <<"rwunlock", "ru_count">>, <<"once", "once_test">>}

TryCalls == {<<"trylock", "return">>, <<"destroy", "destroy">>,
             <<"tryrdlock", "rd_count">>, <<"trywrlock", "tw_test">>}

UnlockCalls == {<<"unlock", "return">>, <<"wait", "wait_block">>,
                <<"timedwait", "wait_block">>, <<"barrier_wait", "wait_block">>,
                <<"barrier_wait", "return">>, <<"rdlock", "return">>,
                <<"tryrdlock", "return">>, <<"wrlock", "wr_again">>,
                <<"trywrlock", "busy">>, <<"rwunlock", "return">>, <<"once", "return">>}

\* The kinds of object a function is for.
KindsOf(f) == CASE f \in {"lock", "trylock", "unlock", "destroy"} -> {"mutex", "cond"}
                [] f \in {"wait", "timedwait", "signal", "broadcast"} -> {"cond"}
                [] f = "barrier_wait" -> {"barrier"}
                [] f \in {"rdlock", "tryrdlock", "wrlock", "trywrlock", "rwunlock"} -> {"rwlock"}
                [] f = "once" -> {"once"}
                [] OTHER -> AllKinds

Code(t) ==
    /\ fn[t] # "none" => kind \in KindsOf(fn[t])
    /\ fn[t] = "destroy" => kind = "mutex"
    /\ at[t] \in LockPlaces => <<fn[t], back[t]>> \in LockCalls
    /\ at[t] \in TryPlaces => <<fn[t], back[t]>> \in TryCalls
    /\ at[t] \in UnlockPlaces => <<fn[t], back[t]>> \in UnlockCalls
    /\ at[t] \in {"destroy", "destroy_post", "destroy_take"} => fn[t] = "destroy"
    /\ at[t] = "rd_count" => fn[t] \in {"rdlock", "tryrdlock"}
    /\ at[t] \in {"wr_test", "wr_again"} => fn[t] = "wrlock"
    /\ at[t] \in {"tw_test", "busy"} => fn[t] = "trywrlock"
    /\ at[t] = "ru_count" => fn[t] = "rwunlock"
    /\ at[t] \in {"bar_count", "bar_unlock", "bar_reset"} => fn[t] = "barrier_wait"
    /\ at[t] \in {"once_test", "once_done"} => fn[t] = "once"
    /\ at[t] \in {"wait", "wait_count", "wait_leave", "wait_block", "wait_uncount"}
          => fn[t] \in {"wait", "timedwait", "barrier_wait"}
    /\ at[t] \in {"timed_enter", "timed_leave"} => fn[t] = "timedwait"
    /\ at[t] \in {"signal", "sig_test", "sig_read", "sig_post", "sig_spin", "sig_leave"}
          => fn[t] \in {"signal", "broadcast", "barrier_wait"}
    /\ has[t] = "read" => kind = "rwlock"
    /\ has[t] \in {"lock", "write"} => kind \in {"mutex", "cond", "rwlock"}
    /\ fn[t] \in Releases => has[t] = "nothing"

-----------------------------------------------------------------------------
(* Who has the permit of the semaphore.                                     *)

\* In the mutex functions, between the semaphore and the owner.
Between(t) == at[t] \in {"lock_own", "trylock_own", "unlock_post", "destroy_post"}

HasLock(t) == has[t] \in {"lock", "write"}

\* About to return with the lock.
Locking == {"lock", "trylock", "wait", "timedwait", "wrlock", "trywrlock"}
Got(t) == at[t] = "return" /\ res[t] = "0" /\ fn[t] \in Locking

\* About to destroy the mutex it has locked.
Destroys(t) == at[t] = "destroy" /\ res[t] = "0"

\* The thread that has the permit.  A destroyed mutex may be left with it.
Permit(t) == \/ Between(t) \/ owner = t
             \/ owner = DESTROYED /\ (HasLock(t) \/ Got(t) \/ Destroys(t))

\* Places of the other objects where their mutex is owned.
Acquired == {"rd_count", "wr_test", "tw_test", "once_test", "destroy"}
Inside == {"unlock", "ru_count", "bar_count", "bar_unlock", "bar_reset", "once_done",
           "wait", "wait_count", "wait_leave"}
Signalling == {"signal", "sig_test", "sig_read", "sig_post", "sig_spin", "sig_leave"}

PermitInv ==
    /\ sem \in {0, 1}
    /\ \A t \in Threads : Permit(t) => sem = 0
    /\ \A t, u \in Threads : Permit(t) /\ Permit(u) => t = u
    /\ LockNotLost

\* Where a thread has no lock yet, or has given it back.
Lockless(t) ==
    \/ at[t] \in {"trylock_wait", "trylock_own", "destroy_post", "destroy_take"}
    \/ at[t] \in UnlockPlaces \/ Destroys(t)
    \/ at[t] = "return" /\ res[t] = "0" /\ fn[t] \in {"rdlock", "tryrdlock"}

OwnerInv(t) ==
    /\ at[t] \in {"lock_own", "trylock_own"} => owner \in {READY, DESTROYED}
    /\ at[t] = "unlock_post" => owner = READY
    /\ at[t] \in {"destroy_post", "destroy_take"} => owner = DESTROYED
    /\ HasLock(t) \/ Got(t) \/ Destroys(t) => owner \in {t, DESTROYED}
    /\ owner = DESTROYED => kind = "mutex"
    /\ owner = t => \/ HasLock(t) \/ Got(t) \/ at[t] \in Inside
                    \/ (at[t] \in Acquired /\ res[t] = "0")
                    \/ (at[t] \in Signalling /\ kind = "barrier")
    /\ at[t] \in {"rd_count", "wr_test", "tw_test"} /\ res[t] = "0"
          => owner = t /\ ~HasLock(t)
    /\ Lockless(t) => ~HasLock(t)
    /\ at[t] = "wr_test" /\ res[t] # "0" => owner = t /\ HasLock(t)

-----------------------------------------------------------------------------
(* The readers.                                                             *)

IsReader(t) ==
    \/ has[t] = "read"
    \/ /\ fn[t] \in {"rdlock", "tryrdlock"}
       /\ \/ at[t] \in UnlockPlaces
          \/ at[t] = "return" /\ res[t] = "0"
    \/ fn[t] = "rwunlock" /\ (at[t] \in LockPlaces \/ at[t] = "ru_count")

Readers == {t \in Threads : IsReader(t)}

ReadInv ==
    /\ read_waiters >= Cardinality(Readers)
    /\ \A t \in Threads : kind = "rwlock" /\ (HasLock(t) \/ Got(t)) => read_waiters = 0

LockInv == /\ TypeInv
           /\ \A t \in Threads : Code(t) /\ OwnerInv(t)
           /\ PermitInv /\ ReadInv

-----------------------------------------------------------------------------

LEMMA LockInit == Init => LockInv
  <1> SUFFICES ASSUME Init PROVE LockInv
      OBVIOUS
  <1> USE OwnerAssumption DEF Init, MutexInit
  <1>1. ASSUME NEW t \in Threads PROVE Code(t) /\ OwnerInv(t) /\ ~Permit(t) /\ ~IsReader(t)
      BY DEF Code, OwnerInv, Permit, Between, HasLock, Got, Destroys, Lockless, IsReader,
             LockPlaces, TryPlaces, UnlockPlaces, Acquired
  <1>2. PermitInv
      BY <1>1 DEF PermitInv, LockNotLost
  <1>3. Readers = {}
      BY <1>1 DEF Readers
  <1>4. ReadInv
      BY <1>3, FS_EmptySet DEF ReadInv, HasLock, Got
  <1> QED
      BY <1>1, <1>2, <1>4, TypeInit DEF LockInv

\* One thread moves: the code of the others is as it was.
LEMMA CodeFrame ==
    ASSUME LockInv, NEW t \in Threads, kind' = kind, Code(t)',
           \A u \in Threads \ {t} : /\ at'[u] = at[u] /\ back'[u] = back[u]
                                    /\ fn'[u] = fn[u] /\ has'[u] = has[u]
    PROVE  \A u \in Threads : Code(u)'
  <1>1. ASSUME NEW u \in Threads \ {t} PROVE Code(u)'
    <2>1. Code(u)
        BY DEF LockInv
    <2> QED
        BY <2>1 DEF Code
  <1> QED
      BY <1>1

\* The mutex functions return to where their callers have called them.
LEMMA CodeMutex ==
    ASSUME LockInv, NEW t \in Threads, MutexStep(t),
           UNCHANGED <<condVars, objectVars, programVars>>
    PROVE  \A u \in Threads : Code(u)'
  <1> USE DEF Goto, Ends
  <1>0. Code(t) /\ TypeInv
      BY DEF LockInv
  <1>1. /\ \A u \in Threads \ {t} : /\ at'[u] = at[u] /\ back'[u] = back[u]
                                    /\ fn'[u] = fn[u] /\ has'[u] = has[u]
        /\ kind' = kind /\ back' = back /\ fn' = fn /\ has' = has
        /\ at \in [Threads -> Places] /\ at' \in [Threads -> Places]
      BY <1>0, TypeStep DEF TypeInv, MutexStep, Next, Step, programVars, Lock, LockWait, LockOwn,
         Unlock, UnlockPost, TryLock, TryLockWait, TryLockOwn, DestroyMark, DestroyPost, DestroyTake
  <1>2. Code(t)'
    <2> USE <1>0, <1>1 DEF LockPlaces, TryPlaces, UnlockPlaces
    <2>1. CASE at[t] \in LockPlaces /\ at'[t] \in LockPlaces \cup {back[t]}
        BY <2>1 DEF Code, LockCalls
    <2>2. CASE at[t] \in TryPlaces /\ at'[t] \in TryPlaces \cup {back[t]}
        BY <2>2 DEF Code, TryCalls
    <2>3. CASE at[t] \in UnlockPlaces /\ at'[t] \in UnlockPlaces \cup {back[t]}
        BY <2>3 DEF Code, UnlockCalls
    <2>4. CASE at[t] \in {"destroy", "destroy_post", "destroy_take"}
               /\ at'[t] \in {"destroy_post", "destroy_take", "return"}
        BY <2>4 DEF Code
    <2>5. CASE Lock(t) \/ LockWait(t) \/ LockOwn(t)
        BY <2>1, <2>5 DEF Lock, LockWait, LockOwn
    <2>6. CASE Unlock(t) \/ UnlockPost(t)
        BY <2>3, <2>6 DEF Unlock, UnlockPost
    <2>7. CASE TryLock(t) \/ TryLockWait(t) \/ TryLockOwn(t)
        BY <2>2, <2>7 DEF TryLock, TryLockWait, TryLockOwn
    <2>8. CASE DestroyMark(t) \/ DestroyPost(t) \/ DestroyTake(t)
        BY <2>4, <2>8 DEF DestroyMark, DestroyPost, DestroyTake
    <2> QED
        BY <2>5, <2>6, <2>7, <2>8 DEF MutexStep
  <1> QED
      BY <1>1, <1>2, CodeFrame

LEMMA CodeCond ==
    ASSUME LockInv, NEW t \in Threads, CondStep(t), UNCHANGED <<objectVars, programVars>>
    PROVE  \A u \in Threads : Code(u)'
  <1> USE DEF Goto, CallMutex, TypeInv
  <1>0. Code(t) /\ TypeInv
      BY DEF LockInv
  <1>1. Code(t)'
    <2> USE <1>0 DEF Code, LockPlaces, TryPlaces, UnlockPlaces, LockCalls, UnlockCalls,
                     programVars, KindsOf, Releases
    <2>1. CASE WaitEnter(t) \/ WaitCount(t) \/ WaitLeave(t)
        BY <2>1 DEF WaitEnter, WaitCount, WaitLeave
    <2>2. CASE WaitBlock(t) \/ WaitUncount(t)
        BY <2>2 DEF WaitBlock, WaitUncount, AfterWait
    <2>3. CASE TimedEnter(t) \/ TimedLeave(t)
        BY <2>3 DEF TimedEnter, TimedLeave, AfterWait
    <2>4. CASE SignalEnter(t) \/ SignalTest(t) \/ SignalRead(t)
        BY <2>4 DEF SignalEnter, SignalTest, SignalRead
    <2>5. CASE SignalPost(t) \/ SignalSpin(t) \/ SignalLeave(t)
        BY <2>5 DEF SignalPost, SignalSpin, SignalLeave
    <2> QED
        BY <2>1, <2>2, <2>3, <2>4, <2>5 DEF CondStep
  <1>2. \A u \in Threads \ {t} : /\ at'[u] = at[u] /\ back'[u] = back[u]
                                 /\ fn'[u] = fn[u] /\ has'[u] = has[u]
      BY <1>0 DEF CondStep, programVars, WaitEnter, WaitCount, WaitLeave, WaitBlock,
         WaitUncount, TimedEnter, TimedLeave, SignalEnter, SignalTest, SignalRead,
         SignalPost, SignalSpin, SignalLeave
  <1> QED
      BY <1>1, <1>2, CodeFrame DEF programVars

LEMMA CodeObject ==
    ASSUME LockInv, NEW t \in Threads, ObjectStep(t), UNCHANGED <<condVars, programVars>>
    PROVE  \A u \in Threads : Code(u)'
  <1> USE DEF Goto, CallMutex, TypeInv
  <1>0. Code(t) /\ OwnerInv(t) /\ TypeInv
      BY DEF LockInv
  <1>1. Code(t)'
    <2> USE <1>0 DEF Code, LockPlaces, TryPlaces, UnlockPlaces, LockCalls, UnlockCalls,
                     programVars, KindsOf, Releases
    <2>1. CASE BarCount(t) \/ BarReset(t) \/ BarUnlock(t)
        BY <2>1 DEF BarCount, BarReset, BarUnlock
    <2>2. CASE ReadCount(t) \/ ReadUncount(t)
        BY <2>2 DEF ReadCount, ReadUncount
    <2>3. CASE WriteTest(t)
      <3>1. read_waiters > 0 => res[t] = "0"
        <4>1. read_waiters = 0 \/ ~HasLock(t)
            BY <2>3 DEF WriteTest, LockInv, ReadInv
        <4> QED
            BY <2>3, <4>1 DEF WriteTest, OwnerInv, HasLock
      <3> QED
          BY <2>3, <3>1 DEF WriteTest
    <2>4. CASE WriteAgain(t) \/ TryWriteTest(t) \/ TryWriteBusy(t)
        BY <2>4 DEF WriteAgain, TryWriteTest, TryWriteBusy
    <2>5. CASE OnceTest(t) \/ OnceDone(t)
        BY <2>5 DEF OnceTest, OnceDone
    <2> QED
        BY <2>1, <2>2, <2>3, <2>4, <2>5 DEF ObjectStep
  <1>2. \A u \in Threads \ {t} : /\ at'[u] = at[u] /\ back'[u] = back[u]
                                 /\ fn'[u] = fn[u] /\ has'[u] = has[u]
      BY <1>0 DEF ObjectStep, programVars, BarCount, BarReset, BarUnlock, ReadCount,
         ReadUncount, WriteTest, WriteAgain, TryWriteTest, TryWriteBusy, OnceTest, OnceDone
  <1> QED
      BY <1>1, <1>2, CodeFrame DEF programVars

LEMMA CodeProgram ==
    ASSUME LockInv, NEW t \in Threads, Return(t) \/ \E c \in Functions : Call(t, c)
    PROVE  \A u \in Threads : Code(u)'
  <1>0. Code(t) /\ TypeInv
      BY DEF LockInv
  <1>1. CASE Return(t)
    <2>1. Code(t)'
        BY <1>0, <1>1 DEF Return, Goto, TypeInv, Code, LockPlaces, TryPlaces, UnlockPlaces,
           Gives, KindsOf, Releases
    <2>2. \A u \in Threads \ {t} : /\ at'[u] = at[u] /\ back'[u] = back[u]
                                   /\ fn'[u] = fn[u] /\ has'[u] = has[u]
        BY <1>0, <1>1 DEF Return, Goto, TypeInv
    <2> QED
        BY <1>1, <2>1, <2>2, CodeFrame DEF Return
  <1>2. ASSUME NEW c \in Functions, Call(t, c) PROVE \A u \in Threads : Code(u)'
    <2>1. /\ at'[t] = c.at /\ back'[t] = c.back /\ fn'[t] = c.fn /\ kind' = kind
          /\ kind = c.kind
          /\ has'[t] = IF c.fn \in Releases THEN "nothing" ELSE has[t]
          /\ \A u \in Threads \ {t} : /\ at'[u] = at[u] /\ back'[u] = back[u]
                                      /\ fn'[u] = fn[u] /\ has'[u] = has[u]
        BY <1>0, <1>2 DEF Call, TypeInv
    <2>2. /\ c.kind \in KindsOf(c.fn)
          /\ c.fn = "destroy" => c.kind = "mutex"
          /\ c.at \in {"lock", "trylock", "unlock", "wait", "signal"}
          /\ c.at \in LockPlaces => <<c.fn, c.back>> \in LockCalls
          /\ c.at \in TryPlaces => <<c.fn, c.back>> \in TryCalls
          /\ c.at \in UnlockPlaces => <<c.fn, c.back>> \in UnlockCalls
          /\ c.at = "wait" => c.fn \in {"wait", "timedwait", "barrier_wait"}
          /\ c.at = "signal" => c.fn \in {"signal", "broadcast", "barrier_wait"}
        BY DEF Functions, Call_, KindsOf, LockPlaces, TryPlaces, UnlockPlaces,
           LockCalls, TryCalls, UnlockCalls
    <2>3. Code(t)'
        BY <1>0, <2>1, <2>2
        DEF Code, Releases, LockPlaces, TryPlaces, UnlockPlaces
    <2> QED
        BY <2>1, <2>3, CodeFrame
  <1> QED
      BY <1>1, <1>2

-----------------------------------------------------------------------------
(* The permit and the owner.                                                *)

\* A step that changes neither the semaphore nor the owner.
LEMMA PermitFrame ==
    ASSUME LockInv, NEW t \in Threads, UNCHANGED <<owner, sem, kind>>,
           \A u \in Threads \ {t} : /\ at'[u] = at[u] /\ res'[u] = res[u]
                                    /\ fn'[u] = fn[u] /\ has'[u] = has[u],
           OwnerInv(t)', Permit(t)' => Permit(t),
           owner = READY /\ at[t] \in {"lock_own", "trylock_own", "unlock_post"}
               => at'[t] = at[t]
    PROVE  PermitInv' /\ \A u \in Threads : OwnerInv(u)'
  <1>1. ASSUME NEW u \in Threads \ {t}
        PROVE  (Permit(u)' <=> Permit(u)) /\ OwnerInv(u)'
    <2>1. OwnerInv(u)
        BY DEF LockInv
    <2> QED
        BY <2>1 DEF OwnerInv, Permit, Between, HasLock, Got, Destroys, Lockless
  <1>2. PermitInv'
      BY <1>1 DEF LockInv, PermitInv, LockNotLost
  <1> QED
      BY <1>1, <1>2

\* A step that moves the permit or the owner between t and the semaphore.
LEMMA OwnerFrame ==
    ASSUME LockInv, NEW t \in Threads, kind' = kind, owner' \in {owner, t, READY, DESTROYED},
           \A u \in Threads \ {t} : /\ at'[u] = at[u] /\ res'[u] = res[u]
                                    /\ fn'[u] = fn[u] /\ has'[u] = has[u],
           Permit(t) \/ sem = 1, owner = DESTROYED => owner' = DESTROYED,
           owner' = DESTROYED => kind = "mutex"
    PROVE  \A u \in Threads \ {t} : ~Permit(u)' /\ OwnerInv(u)'
  <1> SUFFICES ASSUME NEW u \in Threads \ {t} PROVE ~Permit(u)' /\ OwnerInv(u)'
      OBVIOUS
  <1>1. ~Permit(u) /\ OwnerInv(u)
      BY DEF LockInv, PermitInv
  <1> QED
      BY <1>1, OwnerAssumption DEF OwnerInv, Permit, Between, HasLock, Got, Destroys, Lockless

\* The steps of the mutex functions.
LEMMA PermitMutex ==
    ASSUME LockInv, NEW t \in Threads, MutexStep(t),
           UNCHANGED <<condVars, objectVars, programVars>>
    PROVE  PermitInv' /\ \A u \in Threads : OwnerInv(u)'
  <1> DEFINE Others == \A u \in Threads \ {t} : /\ at'[u] = at[u] /\ res'[u] = res[u]
                                                /\ fn'[u] = fn[u] /\ has'[u] = has[u]
  <1>0. /\ Code(t) /\ OwnerInv(t) /\ PermitInv /\ TypeInv
        /\ kind' = kind /\ fn' = fn /\ has' = has
      BY DEF LockInv, programVars
  <1>i. /\ at \in [Threads -> Places] /\ res \in [Threads -> Results]
        /\ owner \in Threads \cup {READY, DESTROYED}
        /\ READY \notin Threads /\ DESTROYED \notin Threads /\ READY # DESTROYED
      BY <1>0, OwnerAssumption DEF TypeInv
  <1>o. Others
      BY <1>0, <1>i DEF MutexStep, Goto, Ends, Lock, LockWait, LockOwn,
         Unlock, UnlockPost, TryLock, TryLockWait, TryLockOwn, DestroyMark, DestroyPost, DestroyTake
  <1> USE <1>0, <1>i DEF Goto, Ends, OwnerInv, Permit, Between, HasLock, Got, Destroys,
                         Lockless, Acquired, Inside, Signalling
  <1> USE DEF Code, LockPlaces, TryPlaces, UnlockPlaces, LockCalls, TryCalls, UnlockCalls, Locking
  <1>1. CASE Lock(t)
    <2>1. OwnerInv(t)' /\ (Permit(t)' => Permit(t))
        BY <1>1 DEF Lock, KindsOf, Results
    <2> QED
        BY <1>1, <1>o, <2>1, PermitFrame DEF Lock
  <1>2. CASE TryLock(t)
    <2>1. OwnerInv(t)' /\ (Permit(t)' => Permit(t))
        BY <1>2 DEF TryLock, KindsOf
    <2> QED
        BY <1>2, <1>o, <2>1, PermitFrame DEF TryLock
  <1>3. CASE LockWait(t) \/ TryLockWait(t)
    <2>1. sem = 1 /\ sem' = 0
        BY <1>3 DEF LockWait, TryLockWait, PermitInv
    <2>2. OwnerInv(t)'
        BY <1>3, <2>1 DEF LockWait, TryLockWait, PermitInv
    <2>3. \A u \in Threads \ {t} : ~Permit(u)' /\ OwnerInv(u)'
        BY <1>3, <1>o, <2>1, OwnerFrame DEF LockWait, TryLockWait
    <2>4. LockNotLost'
        BY <1>3 DEF LockWait, TryLockWait, LockNotLost
    <2>5. PermitInv'
        BY ONLY <2>1, <2>3, <2>4 DEF PermitInv
    <2> QED
        BY ONLY <2>2, <2>3, <2>5
  <1>4. CASE LockOwn(t) \/ TryLockOwn(t)
    <2>1. Permit(t) /\ sem = 0 /\ sem' = 0
        BY <1>4 DEF LockOwn, TryLockOwn, PermitInv
    <2>2. OwnerInv(t)'
        BY <1>4 DEF LockOwn, TryLockOwn, KindsOf
    <2>3. \A u \in Threads \ {t} : ~Permit(u)' /\ OwnerInv(u)'
        BY <1>4, <1>o, <2>1, OwnerFrame DEF LockOwn, TryLockOwn
    <2>4. LockNotLost'
        BY <1>4 DEF LockOwn, TryLockOwn, LockNotLost
    <2>5. PermitInv'
        BY ONLY <2>1, <2>3, <2>4 DEF PermitInv
    <2> QED
        BY ONLY <2>2, <2>3, <2>5
  <1>5. CASE Unlock(t)
    <2>1. CASE owner = t
      <3>1. Permit(t) /\ sem = 0 /\ sem' = 0
          BY <1>5, <2>1 DEF Unlock, PermitInv
      <3>2. OwnerInv(t)'
          BY <1>5, <2>1 DEF Unlock
      <3>3. \A u \in Threads \ {t} : ~Permit(u)' /\ OwnerInv(u)'
          BY <1>5, <1>o, <2>1, <3>1, OwnerFrame DEF Unlock
      <3>4. LockNotLost'
          BY <1>5, <2>1 DEF Unlock, LockNotLost
      <3>5. PermitInv'
          BY ONLY <3>1, <3>3, <3>4 DEF PermitInv
      <3> QED
          BY ONLY <3>2, <3>3, <3>5
    <2>2. CASE owner # t
      <3>1. OwnerInv(t)' /\ (Permit(t)' => Permit(t))
          BY <1>5, <2>2 DEF Unlock, Results
      <3> QED
          BY <1>5, <1>o, <2>2, <3>1, PermitFrame DEF Unlock
    <2> QED
        BY <2>1, <2>2
  <1>6. CASE UnlockPost(t)
    <2>1. Permit(t) /\ sem = 0 /\ sem' = 1 /\ owner = READY
        BY <1>6 DEF UnlockPost, PermitInv
    <2>2. OwnerInv(t)' /\ ~Permit(t)'
        BY <1>6, <2>1 DEF UnlockPost
    <2>3. \A u \in Threads \ {t} : ~Permit(u)' /\ OwnerInv(u)'
        BY <1>6, <1>o, <2>1, OwnerFrame DEF UnlockPost
    <2>4. LockNotLost'
        BY <2>1 DEF LockNotLost
    <2>5. PermitInv'
        BY ONLY <2>1, <2>2, <2>3, <2>4 DEF PermitInv
    <2> QED
        BY ONLY <2>2, <2>3, <2>5
  <1>7. CASE DestroyMark(t)
    <2>1. CASE res[t] = "0"
      <3>1. Permit(t) /\ sem = 0 /\ sem' = 0 /\ owner' = DESTROYED
          BY <1>7, <2>1 DEF DestroyMark, PermitInv
      <3>2. OwnerInv(t)'
          BY <1>7, <2>1, <3>1 DEF DestroyMark
      <3>3. \A u \in Threads \ {t} : ~Permit(u)' /\ OwnerInv(u)'
          BY <1>7, <1>o, <3>1, OwnerFrame DEF DestroyMark
      <3>4. LockNotLost'
          BY <3>1 DEF LockNotLost
      <3>5. PermitInv'
          BY ONLY <3>1, <3>3, <3>4 DEF PermitInv
      <3> QED
          BY ONLY <3>2, <3>3, <3>5
    <2>2. CASE res[t] # "0"
      <3>1. OwnerInv(t)' /\ (Permit(t)' => Permit(t))
          BY <1>7, <2>2 DEF DestroyMark
      <3> QED
          BY <1>7, <1>o, <2>2, <3>1, PermitFrame DEF DestroyMark
    <2> QED
        BY <2>1, <2>2
  <1>8. CASE DestroyPost(t)
    <2>1. Permit(t) /\ sem = 0 /\ sem' = 1 /\ owner = DESTROYED
        BY <1>8 DEF DestroyPost, PermitInv
    <2>2. OwnerInv(t)' /\ ~Permit(t)'
      <3>1. ~HasLock(t)
          BY <1>8 DEF DestroyPost
      <3> QED
          BY <1>8, <2>1, <3>1 DEF DestroyPost
    <2>3. \A u \in Threads \ {t} : ~Permit(u)' /\ OwnerInv(u)'
        BY <1>8, <1>o, <2>1, OwnerFrame DEF DestroyPost
    <2>4. LockNotLost'
        BY <2>1 DEF LockNotLost
    <2>5. PermitInv'
        BY ONLY <2>1, <2>2, <2>3, <2>4 DEF PermitInv
    <2> QED
        BY ONLY <2>2, <2>3, <2>5
  <1>9. CASE DestroyTake(t)
    <2>1. /\ owner = DESTROYED /\ owner' = DESTROYED
          /\ sem' \in {0, 1} /\ (sem = 0 => sem' = 0)
        BY <1>9 DEF DestroyTake, PermitInv
    <2>2. OwnerInv(t)' /\ (Permit(t)' => Permit(t))
        BY <1>9, <2>1 DEF DestroyTake
    <2>3. ASSUME NEW u \in Threads \ {t}
          PROVE  (Permit(u)' <=> Permit(u)) /\ OwnerInv(u)'
      <3>1. OwnerInv(u)
          BY DEF LockInv
      <3> QED
          BY <1>o, <2>1, <3>1
    <2>4. LockNotLost'
        BY <2>1 DEF LockNotLost
    <2>5. PermitInv'
        BY ONLY <1>0, <2>1, <2>2, <2>3, <2>4 DEF PermitInv
    <2> QED
        BY ONLY <2>2, <2>3, <2>5
  <1> QED
      BY <1>1, <1>2, <1>3, <1>4, <1>5, <1>6, <1>7, <1>8, <1>9 DEF MutexStep

\* The steps of a condition keep what the thread has of the mutex.
LEMMA PermitCond ==
    ASSUME LockInv, NEW t \in Threads, CondStep(t), UNCHANGED <<objectVars, programVars>>
    PROVE  PermitInv' /\ \A u \in Threads : OwnerInv(u)'
  <1>0. /\ Code(t) /\ OwnerInv(t) /\ TypeInv
        /\ kind' = kind /\ fn' = fn /\ has' = has
      BY DEF LockInv, programVars
  <1> USE <1>0 DEF TypeInv, Goto, CallMutex
  <1>1. /\ \A u \in Threads \ {t} : at'[u] = at[u] /\ res'[u] = res[u]
        /\ owner' = owner /\ sem' = sem /\ res' = res
        /\ at[t] \notin {"lock_own", "trylock_own", "unlock_post"}
      BY DEF CondStep, WaitEnter, WaitCount, WaitLeave, WaitBlock, WaitUncount, TimedEnter,
         TimedLeave, SignalEnter, SignalTest, SignalRead, SignalPost, SignalSpin, SignalLeave,
         condVars
  <1>2. OwnerInv(t)' /\ (Permit(t)' => Permit(t))
    <2> USE DEF OwnerInv, Permit, Between, HasLock, Got, Destroys, Lockless, Acquired, Inside,
                Signalling, Locking, UnlockPlaces, Code, Releases, KindsOf
    <2>1. CASE WaitEnter(t) \/ WaitCount(t) \/ WaitLeave(t)
        BY <2>1 DEF WaitEnter, WaitCount, WaitLeave
    <2>2. CASE WaitBlock(t) \/ WaitUncount(t)
        BY <2>2 DEF WaitBlock, WaitUncount
    <2>3. CASE TimedEnter(t) \/ TimedLeave(t)
        BY <2>3 DEF TimedEnter, TimedLeave
    <2>4. CASE SignalEnter(t) \/ SignalTest(t) \/ SignalRead(t)
        BY <2>4 DEF SignalEnter, SignalTest, SignalRead
    <2>5. CASE SignalPost(t) \/ SignalSpin(t)
        BY <2>5 DEF SignalPost, SignalSpin
    <2>6. CASE SignalLeave(t)
        BY <2>6 DEF SignalLeave
    <2> QED
        BY <2>1, <2>2, <2>3, <2>4, <2>5, <2>6 DEF CondStep
  <1> QED
      BY <1>1, <1>2, PermitFrame

LEMMA PermitObject ==
    ASSUME LockInv, NEW t \in Threads, ObjectStep(t), UNCHANGED <<condVars, programVars>>
    PROVE  PermitInv' /\ \A u \in Threads : OwnerInv(u)'
  <1>0. /\ Code(t) /\ OwnerInv(t) /\ TypeInv
        /\ kind' = kind /\ fn' = fn /\ has' = has
      BY DEF LockInv, programVars
  <1> USE <1>0 DEF TypeInv, Goto, CallMutex
  <1>1. /\ \A u \in Threads \ {t} : at'[u] = at[u] /\ res'[u] = res[u]
        /\ owner' = owner /\ sem' = sem
        /\ at[t] \notin {"lock_own", "trylock_own", "unlock_post"}
      BY DEF ObjectStep, BarCount, BarReset, BarUnlock, ReadCount, ReadUncount, WriteTest,
         WriteAgain, TryWriteTest, TryWriteBusy, OnceTest, OnceDone
  <1>2. OwnerInv(t)' /\ (Permit(t)' => Permit(t))
    <2> USE DEF OwnerInv, Permit, Between, HasLock, Got, Destroys, Lockless, Acquired, Inside,
                Signalling, Locking, UnlockPlaces, Code, Releases, KindsOf
    <2>1. CASE BarCount(t) \/ BarReset(t) \/ BarUnlock(t)
        BY <2>1 DEF BarCount, BarReset, BarUnlock
    <2>2. CASE ReadCount(t) \/ ReadUncount(t)
        BY <2>2 DEF ReadCount, ReadUncount
    <2>3. CASE WriteTest(t)
      <3>1. read_waiters > 0 => res[t] = "0"
        <4>1. read_waiters = 0 \/ ~HasLock(t) \/ kind # "rwlock"
            BY DEF LockInv, ReadInv
        <4> QED
            BY <2>3, <4>1 DEF WriteTest
      <3> QED
          BY <2>3, <3>1 DEF WriteTest
    <2>4. CASE WriteAgain(t) \/ TryWriteTest(t) \/ TryWriteBusy(t)
        BY <2>4 DEF WriteAgain, TryWriteTest, TryWriteBusy
    <2>5. CASE OnceTest(t) \/ OnceDone(t)
        BY <2>5 DEF OnceTest, OnceDone
    <2> QED
        BY <2>1, <2>2, <2>3, <2>4, <2>5 DEF ObjectStep
  <1> QED
      BY <1>1, <1>2, PermitFrame

LEMMA PermitProgram ==
    ASSUME LockInv, NEW t \in Threads, Return(t) \/ \E c \in Functions : Call(t, c)
    PROVE  PermitInv' /\ \A u \in Threads : OwnerInv(u)'
  <1>0. Code(t) /\ OwnerInv(t) /\ TypeInv
      BY DEF LockInv
  <1> USE <1>0 DEF TypeInv, Goto
  <1> USE DEF OwnerInv, Permit, Between, HasLock, Got, Destroys, Lockless, Acquired, Inside,
              Signalling, Locking, UnlockPlaces, Code, Releases, KindsOf
  <1>1. CASE Return(t)
    <2>1. OwnerInv(t)' /\ (Permit(t)' => Permit(t))
        BY <1>1 DEF Return, Gives
    <2>2. \A u \in Threads \ {t} : /\ at'[u] = at[u] /\ res'[u] = res[u]
                                   /\ fn'[u] = fn[u] /\ has'[u] = has[u]
        BY <1>1 DEF Return
    <2> QED
        BY <1>1, <2>1, <2>2, PermitFrame DEF Return
  <1>2. ASSUME NEW c \in Functions, Call(t, c)
        PROVE  PermitInv' /\ \A u \in Threads : OwnerInv(u)'
    <2>1. /\ c.at = "wait" => c.fn \in Releases
          /\ c.at = "unlock" => c.fn \in Releases
          /\ c.fn \in Releases => c.at \in {"wait", "unlock"} \/ c.fn = "rwunlock"
          /\ c.at \in {"lock", "trylock", "unlock", "wait", "signal"}
        BY DEF Functions, Call_, Releases
    <2>2. \A u \in Threads \ {t} : /\ at'[u] = at[u] /\ res'[u] = res[u]
                                   /\ fn'[u] = fn[u] /\ has'[u] = has[u]
        BY <1>2 DEF Call
    <2>3. OwnerInv(t)' /\ (Permit(t)' => Permit(t))
        BY <1>2, <2>1 DEF Call
    <2> QED
        BY <1>2, <2>2, <2>3, PermitFrame DEF Call
  <1> QED
      BY <1>1, <1>2

-----------------------------------------------------------------------------
(* The readers are counted, and a writer finds none.                        *)

LEMMA ReadersFinite == IsFiniteSet(Readers) /\ Cardinality(Readers) \in Nat
  BY SyncAssumption, FS_Subset, FS_CardinalityType DEF Readers

\* A step that does not change the count, and makes nobody a reader.
LEMMA ReadFrame ==
    ASSUME LockInv, NEW t \in Threads, UNCHANGED <<read_waiters, kind>>,
           \A u \in Threads \ {t} : /\ at'[u] = at[u] /\ res'[u] = res[u]
                                    /\ fn'[u] = fn[u] /\ has'[u] = has[u],
           IsReader(t)' => IsReader(t),
           kind = "rwlock" /\ (HasLock(t)' \/ Got(t)') => read_waiters = 0
    PROVE  ReadInv'
  <1>1. ASSUME NEW u \in Threads \ {t}
        PROVE  /\ IsReader(u)' <=> IsReader(u)
               /\ HasLock(u)' \/ Got(u)' => HasLock(u) \/ Got(u)
      BY DEF IsReader, HasLock, Got
  <1>2. Readers' \subseteq Readers
      BY <1>1 DEF Readers
  <1>3. Cardinality(Readers') <= Cardinality(Readers) /\ Cardinality(Readers') \in Nat
      BY <1>2, ReadersFinite, FS_Subset, FS_CardinalityType
  <1>4. read_waiters' >= Cardinality(Readers')
      BY <1>3, ReadersFinite DEF LockInv, ReadInv, TypeInv
  <1> QED
      BY <1>1, <1>4 DEF LockInv, ReadInv

LEMMA ReadMutex ==
    ASSUME LockInv, NEW t \in Threads, MutexStep(t),
           UNCHANGED <<condVars, objectVars, programVars>>
    PROVE  ReadInv'
  <1>0. /\ Code(t) /\ TypeInv /\ ReadInv
        /\ kind' = kind /\ fn' = fn /\ has' = has /\ read_waiters' = read_waiters
      BY DEF LockInv, programVars, objectVars
  <1> USE <1>0 DEF TypeInv, Goto, Ends
  <1>1. \A u \in Threads \ {t} : /\ at'[u] = at[u] /\ res'[u] = res[u]
                                 /\ fn'[u] = fn[u] /\ has'[u] = has[u]
      BY DEF MutexStep, Lock, LockWait, LockOwn, Unlock, UnlockPost, TryLock, TryLockWait,
         TryLockOwn, DestroyMark, DestroyPost, DestroyTake
  <1>2. /\ IsReader(t)' => IsReader(t)
        /\ kind = "rwlock" /\ (HasLock(t)' \/ Got(t)') => read_waiters = 0
    <2> USE DEF IsReader, HasLock, Got, Locking, Code, LockPlaces, TryPlaces, UnlockPlaces,
                LockCalls, TryCalls, UnlockCalls, KindsOf, ReadInv
    <2>1. CASE Lock(t) \/ LockWait(t) \/ LockOwn(t)
        BY <2>1 DEF Lock, LockWait, LockOwn
    <2>2. CASE Unlock(t) \/ UnlockPost(t)
        BY <2>2 DEF Unlock, UnlockPost
    <2>3. CASE TryLock(t) \/ TryLockWait(t) \/ TryLockOwn(t)
        BY <2>3 DEF TryLock, TryLockWait, TryLockOwn
    <2>4. CASE DestroyMark(t) \/ DestroyPost(t) \/ DestroyTake(t)
        BY <2>4 DEF DestroyMark, DestroyPost, DestroyTake
    <2> QED
        BY <2>1, <2>2, <2>3, <2>4 DEF MutexStep
  <1> QED
      BY <1>1, <1>2, ReadFrame

LEMMA ReadCond ==
    ASSUME LockInv, NEW t \in Threads, CondStep(t), UNCHANGED <<objectVars, programVars>>
    PROVE  ReadInv'
  <1>0. /\ Code(t) /\ TypeInv /\ ReadInv
        /\ kind' = kind /\ fn' = fn /\ has' = has /\ read_waiters' = read_waiters
      BY DEF LockInv, programVars, objectVars
  <1>1. /\ \A u \in Threads \ {t} : at'[u] = at[u] /\ res'[u] = res[u]
        /\ fn[t] \in {"wait", "timedwait", "barrier_wait", "signal", "broadcast"}
      BY <1>0 DEF TypeInv, Code, Goto, CallMutex, CondStep, WaitEnter, WaitCount, WaitLeave,
         WaitBlock, WaitUncount, TimedEnter, TimedLeave, SignalEnter, SignalTest, SignalRead,
         SignalPost, SignalSpin, SignalLeave, condVars
  <1>2. kind # "rwlock"
      BY <1>0, <1>1 DEF Code, KindsOf
  <1>3. IsReader(t)' => IsReader(t)
      BY <1>0, <1>1 DEF IsReader
  <1> QED
      BY <1>0, <1>1, <1>2, <1>3, ReadFrame

LEMMA ReadObject ==
    ASSUME LockInv, NEW t \in Threads, ObjectStep(t), UNCHANGED <<condVars, programVars>>
    PROVE  ReadInv'
  <1>0. /\ Code(t) /\ OwnerInv(t) /\ TypeInv /\ ReadInv
        /\ kind' = kind /\ fn' = fn /\ has' = has
      BY DEF LockInv, programVars
  <1> USE <1>0 DEF TypeInv, Goto, CallMutex
  <1>1. \A u \in Threads \ {t} : at'[u] = at[u] /\ res'[u] = res[u]
      BY DEF ObjectStep, BarCount, BarReset, BarUnlock, ReadCount, ReadUncount, WriteTest,
         WriteAgain, TryWriteTest, TryWriteBusy, OnceTest, OnceDone
  <1>2. CASE ReadCount(t)
    <2>1. CASE res[t] = "0"
      <3>1. owner = t /\ ~HasLock(t)
          BY <1>2, <2>1 DEF ReadCount, OwnerInv
      <3>2. ASSUME NEW u \in Threads, kind = "rwlock", HasLock(u) \/ Got(u)
            PROVE  FALSE
        <4>1. owner \in {u, DESTROYED} /\ (owner = DESTROYED => kind = "mutex")
            BY <3>2 DEF LockInv, OwnerInv
        <4>2. u = t
            BY <3>1, <3>2, <4>1, OwnerAssumption
        <4> QED
            BY <1>2, <3>1, <3>2, <4>2 DEF ReadCount, Got
      <3>3. \A u \in Threads : HasLock(u)' \/ Got(u)' => HasLock(u) \/ Got(u)
          BY <1>1, <1>2, <2>1 DEF ReadCount, HasLock, Got
      <3>4. Readers' = Readers \cup {t}
          BY <1>1, <1>2, <2>1 DEF ReadCount, Readers, IsReader, UnlockPlaces, LockPlaces, Code
      <3>5. Cardinality(Readers') <= Cardinality(Readers) + 1 /\ Cardinality(Readers') \in Nat
        <4>1. /\ IsFiniteSet(Readers \cup {t})
              /\ Cardinality(Readers \cup {t})
                    = IF t \in Readers THEN Cardinality(Readers) ELSE Cardinality(Readers) + 1
            BY ReadersFinite, FS_AddElement
        <4> QED
            BY <3>4, <4>1, ReadersFinite
      <3>6. read_waiters' >= Cardinality(Readers')
          BY <1>2, <2>1, <3>5, ReadersFinite DEF ReadCount, ReadInv
      <3> QED
          BY <3>2, <3>3, <3>6 DEF ReadInv
    <2>2. CASE res[t] # "0"
        BY <1>1, <1>2, <2>2, ReadFrame
        DEF ReadCount, IsReader, HasLock, Got, Code, ReadInv, UnlockPlaces, LockPlaces
    <2> QED
        BY <2>1, <2>2
  <1>3. CASE ReadUncount(t)
    <2>1. \A u \in Threads : HasLock(u)' \/ Got(u)' => HasLock(u) \/ Got(u)
        BY <1>1, <1>3 DEF ReadUncount, HasLock, Got
    <2>2. t \in Readers /\ Readers' = Readers \ {t}
        BY <1>1, <1>3
        DEF ReadUncount, Readers, IsReader, UnlockPlaces, LockPlaces, Code, Releases
    <2>3. Cardinality(Readers') = Cardinality(Readers) - 1
        BY <2>2, ReadersFinite, FS_RemoveElement
    <2>4. read_waiters' >= Cardinality(Readers') /\ (read_waiters = 0 => read_waiters' = 0)
        BY <1>3, <2>3, ReadersFinite DEF ReadUncount, ReadInv
    <2> QED
        BY <2>1, <2>4 DEF ReadInv
  <1>4. CASE ~ReadCount(t) /\ ~ReadUncount(t)
    <2>1. /\ read_waiters' = read_waiters
          /\ IsReader(t)' => IsReader(t)
          /\ kind = "rwlock" /\ (HasLock(t)' \/ Got(t)') => read_waiters = 0
      <3> USE DEF IsReader, HasLock, Got, Locking, Code, LockPlaces, UnlockPlaces, KindsOf,
                  ReadInv, objectVars
      <3>1. CASE BarCount(t) \/ BarReset(t) \/ BarUnlock(t)
          BY <3>1 DEF BarCount, BarReset, BarUnlock
      <3>2. CASE WriteTest(t) \/ WriteAgain(t)
          BY <3>2 DEF WriteTest, WriteAgain
      <3>3. CASE TryWriteTest(t) \/ TryWriteBusy(t)
          BY <3>3 DEF TryWriteTest, TryWriteBusy
      <3>4. CASE OnceTest(t) \/ OnceDone(t)
          BY <3>4 DEF OnceTest, OnceDone
      <3> QED
          BY <1>4, <3>1, <3>2, <3>3, <3>4 DEF ObjectStep
    <2> QED
        BY <1>1, <2>1, ReadFrame
  <1> QED
      BY <1>2, <1>3, <1>4

LEMMA ReadProgram ==
    ASSUME LockInv, NEW t \in Threads, Return(t) \/ \E c \in Functions : Call(t, c)
    PROVE  ReadInv'
  <1>0. Code(t) /\ OwnerInv(t) /\ TypeInv /\ ReadInv
      BY DEF LockInv
  <1> USE <1>0 DEF TypeInv, Goto
  <1>1. CASE Return(t)
    <2>1. /\ IsReader(t)' => IsReader(t)
          /\ kind = "rwlock" /\ (HasLock(t)' \/ Got(t)') => read_waiters = 0
        BY <1>1 DEF Return, Gives, IsReader, HasLock, Got, Locking, ReadInv,
           LockPlaces, UnlockPlaces
    <2>2. \A u \in Threads \ {t} : /\ at'[u] = at[u] /\ res'[u] = res[u]
                                   /\ fn'[u] = fn[u] /\ has'[u] = has[u]
        BY <1>1 DEF Return
    <2> QED
        BY <1>1, <2>1, <2>2, ReadFrame DEF Return
  <1>2. ASSUME NEW c \in Functions, Call(t, c) PROVE ReadInv'
    <2>1. /\ c.at = "unlock" => c.fn \in Releases
          /\ c.fn = "rwunlock" => c.kind = "rwlock" /\ c.has = {"read", "write"}
          /\ c.at \in {"lock", "trylock", "unlock", "wait", "signal"}
        BY DEF Functions, Call_, Releases
    <2>2. \A u \in Threads \ {t} : /\ at'[u] = at[u] /\ res'[u] = res[u]
                                   /\ fn'[u] = fn[u] /\ has'[u] = has[u]
        BY <1>2 DEF Call
    <2>3. c.fn = "rwunlock" /\ c.at # "unlock" => has[t] = "read"
        BY <1>2, <2>1 DEF Call, OwnerInv, HasLock
    <2>4. /\ IsReader(t)' => IsReader(t)
          /\ kind = "rwlock" /\ (HasLock(t)' \/ Got(t)') => read_waiters = 0
        BY <1>2, <2>1, <2>3 DEF Call, IsReader, HasLock, Got, ReadInv, Releases,
           LockPlaces, UnlockPlaces
    <2> QED
        BY <1>2, <2>2, <2>4, ReadFrame DEF Call, objectVars
  <1> QED
      BY <1>1, <1>2

-----------------------------------------------------------------------------

LEMMA LockStep == LockInv /\ [Next]_vars => LockInv'
  <1> SUFFICES ASSUME LockInv, [Next]_vars PROVE LockInv'
      OBVIOUS
  <1>t. TypeInv'
      BY TypeStep DEF LockInv
  <1>1. ASSUME NEW t \in Threads, Step(t) \/ \E c \in Functions : Call(t, c)
        PROVE  /\ \A u \in Threads : Code(u)' /\ OwnerInv(u)'
               /\ PermitInv' /\ ReadInv'
    <2>1. CASE MutexStep(t) /\ UNCHANGED <<condVars, objectVars, programVars>>
        BY <2>1, CodeMutex, PermitMutex, ReadMutex
    <2>2. CASE CondStep(t) /\ UNCHANGED <<objectVars, programVars>>
        BY <2>2, CodeCond, PermitCond, ReadCond
    <2>3. CASE ObjectStep(t) /\ UNCHANGED <<condVars, programVars>>
        BY <2>3, CodeObject, PermitObject, ReadObject
    <2>4. CASE Return(t) \/ \E c \in Functions : Call(t, c)
        BY <2>4, CodeProgram, PermitProgram, ReadProgram
    <2> QED
        BY <1>1, <2>1, <2>2, <2>3, <2>4 DEF Step
  <1>2. CASE Next
      BY <1>t, <1>1, <1>2 DEF Next, LockInv
  <1>3. CASE UNCHANGED vars
    <2>1. UNCHANGED <<sem, owner, kind, at, back, res, fn, has, read_waiters>>
        BY <1>3 DEF vars, mutexVars, objectVars, programVars
    <2>2. \A u \in Threads : Code(u)' /\ OwnerInv(u)'
        BY <2>1 DEF LockInv, Code, OwnerInv, HasLock, Got, Destroys, Lockless
    <2>3. PermitInv'
        BY <2>1 DEF LockInv, PermitInv, Permit, Between, HasLock, Got, Destroys, LockNotLost
    <2>4. ReadInv'
        BY <2>1 DEF LockInv, ReadInv, Readers, IsReader, HasLock, Got
    <2> QED
        BY <1>t, <2>2, <2>3, <2>4 DEF LockInv
  <1> QED
      BY <1>2, <1>3

\* The objects have their types; no semaphore has more than one permit.
THEOREM SyncTypes == Spec => []SyncTypeOK
  <1>1. LockInv /\ CondSafe => SyncTypeOK
      BY DEF LockInv, PermitInv, CondSafe, CondInv, ClearInv, WakeInv, TypeInv, SyncTypeOK
  <1> QED
      BY <1>1, LockInit, LockStep, CondSafeInit, CondSafeStep, PTL DEF Spec

\* A mutex has one holder, and a writer is alone.
THEOREM Excludes == Spec => []Exclusion
  <1>1. LockInv => Exclusion
    <2> SUFFICES ASSUME LockInv, NEW t \in Threads, NEW u \in Threads, t # u, HasLock(t),
                        has[u] \in {"lock", "read", "write"}
                 PROVE  FALSE
        BY DEF Exclusion, HasLock
    <2>1. Permit(t) /\ ~Permit(u)
        BY DEF LockInv, OwnerInv, Permit, PermitInv
    <2>2. has[u] = "read" /\ kind = "rwlock"
        BY <2>1 DEF LockInv, OwnerInv, Permit, HasLock, Code
    <2>3. read_waiters = 0 /\ u \in Readers
        BY <2>2 DEF LockInv, ReadInv, Readers, IsReader
    <2> QED
        BY <2>3, ReadersFinite, FS_EmptySet DEF LockInv, ReadInv
  <1> QED
      BY <1>1, LockInit, LockStep, PTL DEF Spec

\* The permit of a mutex without an owner is not lost.
THEOREM KeepsPermit == Spec => []LockNotLost
  BY LockInit, LockStep, PTL DEF Spec, LockInv, PermitInv

-----------------------------------------------------------------------------
(***************************************************************************)
(* The once routine runs once and ends before anybody goes on, for any     *)
(* number of threads.                                                      *)
(***************************************************************************)

\* The routine runs with the mutex held, and before executed is set.
OnceInv(t) ==
    /\ at[t] = "once_test" /\ res[t] = "0" => owner = t
    /\ at[t] = "once_done" => owner = t /\ executed = 0 /\ runs = 1
    /\ at[t] \in UnlockPlaces \/ (at[t] = "return" /\ res[t] = "0") => executed = 1
    /\ has[t] = "done" => executed = 1

\* While no thread is in the routine, it has run as often as executed says.
RunsCounted == (\A t \in Threads : at[t] # "once_done") => runs = executed

OnceSafe == /\ LockInv
            /\ kind = "once" => RunsCounted /\ \A t \in Threads : OnceInv(t)
            /\ kind # "once" => runs = 0 /\ \A t \in Threads : has[t] # "done"

LEMMA OnceInit == Init => OnceSafe
  BY LockInit DEF Init, OnceSafe, OnceInv, RunsCounted, UnlockPlaces

\* A step of t that neither begins nor ends the routine.
LEMMA OnceFrame ==
    ASSUME OnceSafe, kind = "once", NEW t \in Threads, UNCHANGED <<executed, runs>>,
           owner' # owner => owner = t \/ owner = READY,
           \A u \in Threads \ {t} : at'[u] = at[u] /\ res'[u] = res[u] /\ has'[u] = has[u],
           OnceInv(t)', at'[t] = "once_done" <=> at[t] = "once_done"
    PROVE  RunsCounted' /\ \A u \in Threads : OnceInv(u)'
  <1>1. ASSUME NEW u \in Threads \ {t} PROVE OnceInv(u)'
    <2>1. OnceInv(u)
        BY DEF OnceSafe
    <2>2. owner = u => owner' = u
        BY OwnerAssumption
    <2> QED
        BY <2>1, <2>2 DEF OnceInv
  <1>2. RunsCounted'
      BY DEF OnceSafe, RunsCounted
  <1> QED
      BY <1>1, <1>2

LEMMA OnceMutex ==
    ASSUME OnceSafe, kind = "once", NEW t \in Threads, MutexStep(t),
           UNCHANGED <<condVars, objectVars, programVars>>
    PROVE  RunsCounted' /\ \A u \in Threads : OnceInv(u)'
  <1>0. /\ Code(t) /\ OwnerInv(t) /\ TypeInv /\ OnceInv(t)
        /\ UNCHANGED <<executed, runs, has, fn, kind>>
      BY DEF OnceSafe, LockInv, programVars, objectVars
  <1> USE <1>0 DEF TypeInv, Goto, Ends
  <1>1. \A u \in Threads \ {t} : at'[u] = at[u] /\ res'[u] = res[u] /\ has'[u] = has[u]
      BY DEF MutexStep, Lock, LockWait, LockOwn, Unlock, UnlockPost, TryLock, TryLockWait,
         TryLockOwn, DestroyMark, DestroyPost, DestroyTake
  <1>2. fn[t] = "once" /\ at[t] \in LockPlaces \cup UnlockPlaces
      BY DEF MutexStep, Lock, LockWait, LockOwn, Unlock, UnlockPost, TryLock, TryLockWait,
         TryLockOwn, DestroyMark, DestroyPost, DestroyTake, Code, LockPlaces, TryPlaces,
         UnlockPlaces, LockCalls, TryCalls, UnlockCalls, KindsOf
  <1>3. /\ at[t] \in LockPlaces => back[t] = "once_test"
        /\ at[t] \in UnlockPlaces => back[t] = "return"
      BY <1>2 DEF Code, LockCalls, UnlockCalls
  <1>4. /\ OnceInv(t)' /\ (at'[t] = "once_done" <=> at[t] = "once_done")
        /\ owner' # owner => owner = t \/ owner = READY
    <2> USE <1>2, <1>3 DEF OnceInv, LockPlaces, UnlockPlaces
    <2>1. CASE Lock(t) \/ LockWait(t)
        BY <2>1 DEF Lock, LockWait
    <2>2. CASE LockOwn(t)
        BY <2>2 DEF LockOwn
    <2>3. CASE Unlock(t) \/ UnlockPost(t)
        BY <2>3 DEF Unlock, UnlockPost
    <2> QED
        BY <2>1, <2>2, <2>3 DEF MutexStep, TryLock, TryLockWait, TryLockOwn, DestroyMark,
           DestroyPost, DestroyTake
  <1> QED
      BY <1>1, <1>4, OnceFrame

\* The functions of a condition are not called.
LEMMA OnceCond ==
    ASSUME OnceSafe, kind = "once", NEW t \in Threads, CondStep(t),
           UNCHANGED <<objectVars, programVars>>
    PROVE  FALSE
  <1>1. Code(t)
      BY DEF OnceSafe, LockInv
  <1> QED
      BY <1>1 DEF CondStep, WaitEnter, WaitCount, WaitLeave, WaitBlock, WaitUncount,
         TimedEnter, TimedLeave, SignalEnter, SignalTest, SignalRead, SignalPost,
         SignalSpin, SignalLeave, Code, KindsOf

\* Whoever holds the mutex is alone in the routine.
LEMMA OnceAlone ==
    ASSUME OnceSafe, kind = "once", NEW t \in Threads, owner = t, NEW u \in Threads \ {t}
    PROVE  at[u] # "once_done"
  <1>1. OnceInv(u)
      BY DEF OnceSafe
  <1> QED
      BY <1>1 DEF OnceInv

LEMMA OnceObject ==
    ASSUME OnceSafe, kind = "once", NEW t \in Threads, ObjectStep(t),
           UNCHANGED <<condVars, programVars>>
    PROVE  RunsCounted' /\ \A u \in Threads : OnceInv(u)'
  <1>0. /\ Code(t) /\ TypeInv /\ OnceInv(t)
        /\ UNCHANGED <<has, fn, kind>>
      BY DEF OnceSafe, LockInv, programVars
  <1> USE <1>0 DEF TypeInv, Goto, CallMutex
  <1>1. OnceTest(t) \/ OnceDone(t)
      BY DEF ObjectStep, BarCount, BarReset, BarUnlock, ReadCount, WriteTest, WriteAgain,
         TryWriteTest, TryWriteBusy, ReadUncount, Code, KindsOf
  <1>2. /\ \A u \in Threads \ {t} : at'[u] = at[u] /\ res'[u] = res[u] /\ has'[u] = has[u]
        /\ UNCHANGED <<owner, res, has>>
      BY <1>1 DEF OnceTest, OnceDone
  <1>3. CASE OnceTest(t) /\ res[t] = "0" /\ executed = 0
    <2>1. owner = t /\ at[t] = "once_test"
        BY <1>3 DEF OnceTest, OnceInv
    <2>2. runs = 0
        BY <1>3, <2>1, OnceAlone DEF OnceSafe, RunsCounted
    <2>3. /\ at'[t] = "once_done" /\ runs' = 1 /\ executed' = 0
        BY <1>3, <2>2 DEF OnceTest
    <2>4. OnceInv(t)'
        BY <1>2, <1>3, <2>1, <2>3 DEF OnceInv, UnlockPlaces
    <2>5. ASSUME NEW u \in Threads \ {t} PROVE OnceInv(u)'
      <3>1. OnceInv(u) /\ at[u] # "once_done"
          BY <2>1, OnceAlone DEF OnceSafe
      <3> QED
          BY <1>2, <1>3, <2>3, <3>1 DEF OnceInv
    <2> QED
        BY <2>3, <2>4, <2>5 DEF RunsCounted
  <1>4. CASE OnceTest(t) /\ ~(res[t] = "0" /\ executed = 0)
    <2>1. UNCHANGED <<executed, runs>> /\ executed \in {0, 1}
        BY <1>4 DEF OnceTest
    <2>2. OnceInv(t)' /\ (at'[t] = "once_done" <=> at[t] = "once_done")
        BY <1>2, <1>4, <2>1 DEF OnceTest, OnceInv, UnlockPlaces
    <2> QED
        BY <1>2, <2>1, <2>2, OnceFrame
  <1>5. CASE OnceDone(t)
    <2>1. /\ owner = t /\ runs = 1 /\ runs' = 1 /\ executed' = 1
          /\ at'[t] = "unlock"
        BY <1>5 DEF OnceDone, OnceInv
    <2>2. ASSUME NEW u \in Threads \ {t} PROVE OnceInv(u)'
      <3>1. OnceInv(u) /\ at[u] # "once_done"
          BY <2>1, OnceAlone DEF OnceSafe
      <3> QED
          BY <1>2, <2>1, <3>1 DEF OnceInv
    <2>3. OnceInv(t)'
        BY <2>1 DEF OnceInv
    <2> QED
        BY <2>1, <2>2, <2>3 DEF RunsCounted
  <1> QED
      BY <1>1, <1>3, <1>4, <1>5

LEMMA OnceProgram ==
    ASSUME OnceSafe, kind = "once", NEW t \in Threads,
           Return(t) \/ \E c \in Functions : Call(t, c)
    PROVE  RunsCounted' /\ \A u \in Threads : OnceInv(u)'
  <1>0. Code(t) /\ TypeInv /\ OnceInv(t)
      BY DEF OnceSafe, LockInv
  <1> USE <1>0 DEF TypeInv, Goto, OnceInv, UnlockPlaces
  <1>1. CASE Return(t)
    <2>1. OnceInv(t)' /\ (at'[t] = "once_done" <=> at[t] = "once_done")
        BY <1>1 DEF Return
    <2>2. /\ \A u \in Threads \ {t} : at'[u] = at[u] /\ res'[u] = res[u] /\ has'[u] = has[u]
          /\ UNCHANGED <<owner, executed, runs>>
        BY <1>1 DEF Return
    <2> QED
        BY <2>1, <2>2, OnceFrame
  <1>2. ASSUME NEW c \in Functions, Call(t, c)
        PROVE  RunsCounted' /\ \A u \in Threads : OnceInv(u)'
    <2>1. c.kind = "once" => c.at = "lock"
        BY DEF Functions, Call_
    <2>2. /\ at'[t] = "lock" /\ at[t] = "idle" /\ has'[t] \in {has[t], "nothing"}
          /\ UNCHANGED <<owner, res, executed, runs>>
        BY <1>2, <2>1 DEF Call, objectVars
    <2>3. OnceInv(t)'
        BY <2>2
    <2>4. \A u \in Threads \ {t} : at'[u] = at[u] /\ res'[u] = res[u] /\ has'[u] = has[u]
        BY <1>2 DEF Call
    <2> QED
        BY <2>2, <2>3, <2>4, OnceFrame
  <1> QED
      BY <1>1, <1>2

\* Only pthread_once runs the routine.
LEMMA NeverOnce ==
    ASSUME OnceSafe, kind # "once", NEW t \in Threads,
           Step(t) \/ \E c \in Functions : Call(t, c)
    PROVE  kind' = kind /\ runs' = 0 /\ \A u \in Threads : has'[u] # "done"
  <1>0. Code(t) /\ TypeInv /\ runs = 0 /\ \A u \in Threads : has[u] # "done"
      BY DEF OnceSafe, LockInv
  <1>1. CASE ObjectStep(t) /\ UNCHANGED <<condVars, programVars>>
    <2>1. ~OnceTest(t) /\ ~OnceDone(t)
        BY <1>0 DEF OnceTest, OnceDone, Code, KindsOf
    <2> QED
        BY <1>0, <1>1, <2>1 DEF ObjectStep, programVars, objectVars, BarCount, BarReset,
           BarUnlock, ReadCount, WriteTest, WriteAgain, TryWriteTest, TryWriteBusy, ReadUncount
  <1>2. CASE Return(t)
    <2>1. fn[t] # "once" => Gives(fn[t], has[t]) \in {"lock", "read", "write", has[t]}
        BY DEF Gives
    <2>2. fn[t] # "once"
        BY <1>0 DEF Code, KindsOf
    <2> QED
        BY <1>0, <1>2, <2>1, <2>2 DEF Return, TypeInv
  <1>3. ASSUME NEW c \in Functions, Call(t, c)
        PROVE  kind' = kind /\ runs' = 0 /\ \A u \in Threads : has'[u] # "done"
      BY <1>0, <1>3 DEF Call, objectVars, TypeInv
  <1> QED
      BY <1>0, <1>1, <1>2, <1>3 DEF Step, objectVars, programVars

LEMMA OnceStep == OnceSafe /\ [Next]_vars => OnceSafe'
  <1> SUFFICES ASSUME OnceSafe, [Next]_vars PROVE OnceSafe'
      OBVIOUS
  <1>1. LockInv'
      BY LockStep DEF OnceSafe
  <1>2. ASSUME NEW t \in Threads, Step(t) \/ \E c \in Functions : Call(t, c) PROVE OnceSafe'
    <2>1. kind' = kind
        BY <1>2 DEF Step, Call, Return, programVars
    <2>2. CASE kind # "once"
        BY <1>1, <1>2, <2>2, NeverOnce DEF OnceSafe
    <2>3. CASE kind = "once"
      <3>1. RunsCounted' /\ \A u \in Threads : OnceInv(u)'
          BY <1>2, <2>3, OnceMutex, OnceCond, OnceObject, OnceProgram DEF Step
      <3> QED
          BY <1>1, <2>1, <2>3, <3>1 DEF OnceSafe
    <2> QED
        BY <2>2, <2>3
  <1>3. CASE UNCHANGED vars
      BY <1>1, <1>3 DEF vars, mutexVars, objectVars, programVars, OnceSafe, OnceInv, RunsCounted
  <1> QED
      BY <1>2, <1>3 DEF Next

LEMMA OnceBefore == OnceSafe => OnceBeforeUse
  <1> SUFFICES ASSUME OnceSafe PROVE OnceBeforeUse
      OBVIOUS
  <1>1. CASE kind = "once"
    <2>1. runs <= 1
      <3>1. CASE \E t \in Threads : at[t] = "once_done"
          BY <1>1, <3>1 DEF OnceSafe, OnceInv
      <3>2. CASE \A t \in Threads : at[t] # "once_done"
          BY <1>1, <3>2 DEF OnceSafe, RunsCounted, LockInv, TypeInv
      <3> QED
          BY <3>1, <3>2
    <2> QED
        BY <1>1, <2>1 DEF OnceSafe, OnceInv, OnceBeforeUse
  <1>2. CASE kind # "once"
      BY <1>2 DEF OnceSafe, OnceBeforeUse
  <1> QED
      BY <1>1, <1>2

\* pthread_once runs the routine once, and returns to nobody before it has ended.
THEOREM RunsOnce == Spec => []OnceBeforeUse
  <1>1. OnceSafe => OnceBeforeUse
      BY OnceBefore
  <1> QED
      BY OnceInit, OnceStep, <1>1, PTL DEF Spec

-----------------------------------------------------------------------------
(***************************************************************************)
(* The barrier made of a mutex and a condition implements the abstract     *)
(* barrier, for any number of threads and any limit.                       *)
(***************************************************************************)

\* The thread that opens the barrier, from its count to the reset of the count.
Opening(t) == at[t] \in Signalling \cup {"bar_reset"}

Waits == {"wait", "wait_count", "wait_leave"}
ToWait(t) == at[t] \in UnlockPlaces /\ back[t] = "wait_block"

\* Before its count, in the barrier, and after the barrier has opened.
Before(t) == \/ at[t] \in {"idle", "bar_count"}
             \/ at[t] \in LockPlaces /\ back[t] = "bar_count"
Waiting(t) == at[t] \in Waits \/ ToWait(t) \/ at[t] = "wait_block"
After(t) == \/ Opening(t) \/ at[t] \in {"wait_uncount", "bar_unlock", "return"}
            \/ at[t] \in LockPlaces /\ back[t] = "bar_unlock"
            \/ at[t] \in UnlockPlaces /\ back[t] = "return"

In == {t \in Threads : phase[t] = "in"}

BarrierInv(t) ==
    /\ Opening(t) \/ at[t] \in Waits \cup {"bar_count", "bar_unlock"} => owner = t
    /\ Before(t) => phase[t] = "out"
    /\ Waiting(t) => phase[t] \in {"in", "passed"}
    /\ After(t) => phase[t] = "passed"
    /\ phase[t] = "in" => Waiting(t)
    /\ Opening(t) => In = {}

\* Between two openings the count is that of the threads in the barrier.
InCounted == (\A t \in Threads : ~Opening(t)) => count = Cardinality(In)

BarInv == /\ LockInv /\ CondSafe
          /\ kind = "barrier" => InCounted /\ \A t \in Threads : BarrierInv(t)
          /\ kind # "barrier" => \A t \in Threads : phase[t] = "out"

LEMMA InFinite == IsFiniteSet(In) /\ Cardinality(In) \in Nat
  BY SyncAssumption, FS_Subset, FS_CardinalityType DEF In

LEMMA BarInit == Init => BarInv
  <1> SUFFICES ASSUME Init PROVE BarInv
      OBVIOUS
  <1>1. In = {}
      BY DEF Init, In
  <1>2. InCounted
      BY <1>1, FS_EmptySet DEF Init, InCounted
  <1>3. ASSUME NEW t \in Threads PROVE BarrierInv(t) /\ phase[t] = "out"
      BY DEF Init, BarrierInv, Opening, Signalling, Waits, ToWait, Before, Waiting, After,
         LockPlaces, UnlockPlaces
  <1> QED
      BY <1>2, <1>3, LockInit, CondSafeInit DEF BarInv

\* A step of t that does not touch the barrier itself.
LEMMA BarFrame ==
    ASSUME BarInv, kind = "barrier", kind' = kind, NEW t \in Threads,
           count' = count, In' = In,
           owner' # owner => owner = t \/ owner = READY,
           \A u \in Threads \ {t} : /\ at'[u] = at[u] /\ back'[u] = back[u]
                                    /\ phase'[u] = phase[u],
           BarrierInv(t)', Opening(t)' <=> Opening(t)
    PROVE  InCounted' /\ \A u \in Threads : BarrierInv(u)'
  <1>2. ASSUME NEW u \in Threads \ {t}
        PROVE  BarrierInv(u)' /\ (Opening(u)' <=> Opening(u))
    <2>1. BarrierInv(u)
        BY DEF BarInv
    <2>2. Opening(u)' <=> Opening(u)
        BY DEF Opening
    <2>3. /\ Before(u)' <=> Before(u)
          /\ Waiting(u)' <=> Waiting(u)
          /\ After(u)' <=> After(u)
        BY <2>2 DEF Before, Waiting, After, ToWait
    <2>4. owner = u => owner' = u
        BY OwnerAssumption
    <2> QED
        BY <2>1, <2>2, <2>3, <2>4 DEF BarrierInv
  <1>3. InCounted'
      BY <1>2 DEF BarInv, InCounted
  <1> QED
      BY <1>2, <1>3

LEMMA BarMutex ==
    ASSUME BarInv, kind = "barrier", NEW t \in Threads, MutexStep(t),
           UNCHANGED <<condVars, objectVars, programVars>>
    PROVE  InCounted' /\ \A u \in Threads : BarrierInv(u)'
  <1>0. /\ Code(t) /\ OwnerInv(t) /\ TypeInv /\ BarrierInv(t)
        /\ kind' = kind /\ UNCHANGED <<phase, count>>
      BY DEF BarInv, LockInv, programVars, objectVars
  <1> USE <1>0 DEF TypeInv, Goto, Ends
  <1>1. \A u \in Threads \ {t} : at'[u] = at[u] /\ back'[u] = back[u]
      BY DEF MutexStep, Lock, LockWait, LockOwn, Unlock, UnlockPost, TryLock, TryLockWait,
         TryLockOwn, DestroyMark, DestroyPost, DestroyTake
  <1>2. fn[t] = "barrier_wait"
      BY DEF MutexStep, Lock, LockWait, LockOwn, Unlock, UnlockPost, TryLock, TryLockWait,
         TryLockOwn, DestroyMark, DestroyPost, DestroyTake, Code, LockPlaces, TryPlaces,
         UnlockPlaces, LockCalls, TryCalls, UnlockCalls, KindsOf
  <1>3. /\ BarrierInv(t)' /\ (Opening(t)' <=> Opening(t))
        /\ owner' # owner => owner = t \/ owner = READY
    <2>a. ~HasLock(t)
        BY DEF Code, HasLock
    <2> USE <1>2, <2>a DEF BarrierInv, Opening, Signalling, Waits, ToWait, Before, Waiting, After,
            In, Code, LockPlaces, TryPlaces, UnlockPlaces, LockCalls, TryCalls, UnlockCalls
    <2>1. CASE Lock(t) \/ LockWait(t)
      <3>1. owner # t
          BY <2>1 DEF Lock, LockWait, OwnerInv, Got, Inside, Acquired
      <3> QED
          BY <2>1, <3>1 DEF Lock, LockWait, OwnerInv
    <2>2. CASE LockOwn(t)
        BY <2>2 DEF LockOwn, OwnerInv
    <2>3. CASE Unlock(t) \/ UnlockPost(t)
        BY <2>3 DEF Unlock, UnlockPost
    <2>4. CASE TryLock(t) \/ TryLockWait(t) \/ TryLockOwn(t)
        BY <2>4 DEF TryLock, TryLockWait, TryLockOwn
    <2>5. CASE DestroyMark(t) \/ DestroyPost(t) \/ DestroyTake(t)
        BY <2>5 DEF DestroyMark, DestroyPost, DestroyTake
    <2> QED
        BY <2>1, <2>2, <2>3, <2>4, <2>5 DEF MutexStep
  <1> QED
      BY <1>1, <1>3, BarFrame DEF In

LEMMA BarCond ==
    ASSUME BarInv, kind = "barrier", NEW t \in Threads, CondStep(t),
           UNCHANGED <<objectVars, programVars>>
    PROVE  InCounted' /\ \A u \in Threads : BarrierInv(u)'
  <1>0. /\ Code(t) /\ TypeInv /\ BarrierInv(t)
        /\ kind' = kind /\ UNCHANGED <<phase, count>>
      BY DEF BarInv, LockInv, programVars, objectVars
  <1> USE <1>0 DEF TypeInv, Goto, CallMutex
  <1>1. /\ \A u \in Threads \ {t} : at'[u] = at[u] /\ back'[u] = back[u]
        /\ owner' = owner
      BY DEF CondStep, WaitEnter, WaitCount, WaitLeave, WaitBlock, WaitUncount, TimedEnter,
         TimedLeave, SignalEnter, SignalTest, SignalRead, SignalPost, SignalSpin, SignalLeave,
         condVars
  <1>2. BarrierInv(t)' /\ (Opening(t)' <=> Opening(t))
    <2> USE DEF BarrierInv, Opening, Signalling, Waits, ToWait, Before, Waiting, After,
                In, Code, LockPlaces, UnlockPlaces, KindsOf
    <2>1. CASE WaitEnter(t) \/ WaitCount(t) \/ WaitLeave(t)
        BY <2>1 DEF WaitEnter, WaitCount, WaitLeave
    <2>2. CASE WaitBlock(t)
      <3>1. PICK s \in Threads : at[s] = "sig_spin"
          BY <2>2 DEF WaitBlock, BarInv, CondSafe, CondInv, WakeInv, Spinning
      <3>2. In = {}
          BY <3>1 DEF BarInv
      <3>3. phase[t] = "passed"
          BY <2>2, <3>2 DEF WaitBlock
      <3> QED
          BY <2>2, <3>3 DEF WaitBlock
    <2>3. CASE WaitUncount(t)
        BY <2>3 DEF WaitUncount, AfterWait
    <2>4. CASE TimedEnter(t) \/ TimedLeave(t)
        BY <2>4 DEF TimedEnter, TimedLeave
    <2>5. CASE SignalEnter(t) \/ SignalTest(t) \/ SignalRead(t)
        BY <2>5 DEF SignalEnter, SignalTest, SignalRead
    <2>6. CASE SignalPost(t) \/ SignalSpin(t) \/ SignalLeave(t)
        BY <2>6 DEF SignalPost, SignalSpin, SignalLeave
    <2> QED
        BY <2>1, <2>2, <2>3, <2>4, <2>5, <2>6 DEF CondStep
  <1> QED
      BY <1>1, <1>2, BarFrame DEF In
\* The one who counts: no other thread is opening the barrier.
LEMMA AtCount ==
    ASSUME BarInv, kind = "barrier", NEW t \in Threads, at[t] = "bar_count"
    PROVE  /\ \A u \in Threads : ~Opening(u)
           /\ phase[t] = "out" /\ t \notin In /\ count = Cardinality(In)
  <1>1. BarrierInv(t)
      BY DEF BarInv
  <1>2. owner = t /\ phase[t] = "out" /\ t \notin In
      BY <1>1 DEF BarrierInv, Before, In
  <1>3. ASSUME NEW u \in Threads, Opening(u) PROVE FALSE
    <2>1. owner = u
        BY <1>3 DEF BarInv, BarrierInv
    <2> QED
        BY <1>2, <1>3, <2>1 DEF Opening, Signalling
  <1> QED
      BY <1>2, <1>3 DEF BarInv, InCounted

LEMMA BarObject ==
    ASSUME BarInv, kind = "barrier", NEW t \in Threads, ObjectStep(t),
           UNCHANGED <<condVars, programVars>>
    PROVE  InCounted' /\ \A u \in Threads : BarrierInv(u)'
  <1>0. /\ Code(t) /\ TypeInv /\ BarrierInv(t)
        /\ kind' = kind
      BY DEF BarInv, LockInv, programVars
  <1> USE <1>0 DEF TypeInv, Goto, CallMutex
  <1>1. BarCount(t) \/ BarReset(t) \/ BarUnlock(t)
      BY DEF ObjectStep, ReadCount, WriteTest, WriteAgain, TryWriteTest, TryWriteBusy,
         ReadUncount, OnceTest, OnceDone, Code, KindsOf
  <1>2. /\ \A u \in Threads \ {t} : at'[u] = at[u] /\ back'[u] = back[u]
        /\ owner' = owner
      BY <1>1 DEF BarCount, BarReset, BarUnlock
  <1>3. CASE BarCount(t) /\ count + 1 >= limit
    <2>1. In' = {}
        BY <1>3 DEF BarCount, In
    <2>2. Opening(t)' /\ BarrierInv(t)'
        BY <1>3, <2>1 DEF BarCount, BarrierInv, Opening, Signalling, Waits, ToWait, Before,
           Waiting, After, LockPlaces, UnlockPlaces
    <2>3. ASSUME NEW u \in Threads \ {t} PROVE BarrierInv(u)'
      <3>1. BarrierInv(u) /\ ~Opening(u)
          BY <1>3, AtCount DEF BarCount, BarInv
      <3>2. /\ Opening(u)' <=> Opening(u)
            /\ Before(u)' <=> Before(u)
            /\ Waiting(u)' <=> Waiting(u)
            /\ After(u)' <=> After(u)
          BY <1>2 DEF Opening, Before, Waiting, After, ToWait
      <3>3. phase'[u] = IF phase[u] = "in" THEN "passed" ELSE phase[u]
          BY <1>3 DEF BarCount
      <3> QED
          BY <1>2, <3>1, <3>2, <3>3 DEF BarrierInv
    <2> QED
        BY <2>2, <2>3 DEF InCounted
  <1>4. CASE BarCount(t) /\ ~(count + 1 >= limit)
    <2>1. In' = In \cup {t}
        BY <1>4 DEF BarCount, In
    <2>2. /\ \A u \in Threads : ~Opening(u)
          /\ t \notin In /\ count = Cardinality(In)
        BY <1>4, AtCount DEF BarCount
    <2>3. count' = Cardinality(In')
        BY <1>4, <2>1, <2>2, InFinite, FS_AddElement DEF BarCount
    <2>4. BarrierInv(t)'
        BY <1>4 DEF BarCount, BarrierInv, Opening, Signalling, Waits, ToWait, Before,
           Waiting, After, LockPlaces, UnlockPlaces
    <2>5. ASSUME NEW u \in Threads \ {t} PROVE BarrierInv(u)'
      <3>1. BarrierInv(u) /\ ~Opening(u)
          BY <2>2 DEF BarInv
      <3>2. /\ Opening(u)' <=> Opening(u)
            /\ Before(u)' <=> Before(u)
            /\ Waiting(u)' <=> Waiting(u)
            /\ After(u)' <=> After(u)
            /\ phase'[u] = phase[u]
          BY <1>2, <1>4 DEF Opening, Before, Waiting, After, ToWait, BarCount
      <3> QED
          BY <1>2, <3>1, <3>2 DEF BarrierInv
    <2> QED
        BY <2>3, <2>4, <2>5 DEF InCounted
  <1>5. CASE BarReset(t)
    <2>1. Opening(t) /\ In = {} /\ In' = {} /\ count' = 0 /\ phase' = phase
        BY <1>5 DEF BarReset, BarrierInv, Opening, In
    <2>2. BarrierInv(t)'
        BY <1>5, <2>1 DEF BarReset, BarrierInv, Opening, Signalling, Waits, ToWait, Before,
           Waiting, After, LockPlaces, UnlockPlaces
    <2>3. ASSUME NEW u \in Threads \ {t} PROVE BarrierInv(u)'
      <3>1. BarrierInv(u)
          BY DEF BarInv
      <3>2. /\ Opening(u)' <=> Opening(u)
            /\ Before(u)' <=> Before(u)
            /\ Waiting(u)' <=> Waiting(u)
            /\ After(u)' <=> After(u)
          BY <1>2 DEF Opening, Before, Waiting, After, ToWait
      <3> QED
          BY <1>2, <2>1, <3>1, <3>2 DEF BarrierInv
    <2> QED
        BY <2>1, <2>2, <2>3, FS_EmptySet DEF InCounted
  <1>6. CASE BarUnlock(t)
    <2>1. BarrierInv(t)' /\ (Opening(t)' <=> Opening(t)) /\ In' = In
          /\ phase' = phase /\ count' = count
        BY <1>6 DEF BarUnlock, objectVars, BarrierInv, Opening, Signalling, Waits, ToWait,
           Before, Waiting, After, In, LockPlaces, UnlockPlaces
    <2> QED
        BY <1>2, <2>1, BarFrame
  <1> QED
      BY <1>1, <1>3, <1>4, <1>5, <1>6

LEMMA BarProgram ==
    ASSUME BarInv, kind = "barrier", NEW t \in Threads,
           Return(t) \/ \E c \in Functions : Call(t, c)
    PROVE  InCounted' /\ \A u \in Threads : BarrierInv(u)'
  <1>0. Code(t) /\ TypeInv /\ BarrierInv(t)
      BY DEF BarInv, LockInv
  <1> USE <1>0 DEF TypeInv, Goto
  <1> USE DEF BarrierInv, Opening, Signalling, Waits, ToWait, Before, Waiting, After,
              LockPlaces, UnlockPlaces
  <1>1. CASE Return(t)
    <2>1. In' = In
        BY <1>1 DEF Return, In
    <2>2. /\ BarrierInv(t)' /\ (Opening(t)' <=> Opening(t))
          /\ owner' = owner /\ count' = count /\ kind' = kind
        BY <1>1, <2>1 DEF Return
    <2>3. \A u \in Threads \ {t} : /\ at'[u] = at[u] /\ back'[u] = back[u]
                                   /\ phase'[u] = phase[u]
        BY <1>1 DEF Return
    <2> QED
        BY <2>1, <2>2, <2>3, BarFrame
  <1>2. ASSUME NEW c \in Functions, Call(t, c)
        PROVE  InCounted' /\ \A u \in Threads : BarrierInv(u)'
    <2>1. c.kind = "barrier" => c.at = "lock" /\ c.back = "bar_count"
        BY DEF Functions, Call_
    <2>2. /\ at'[t] = "lock" /\ back'[t] = "bar_count"
          /\ phase' = phase /\ owner' = owner /\ count' = count /\ kind' = kind
          /\ at[t] = "idle"
        BY <1>2, <2>1 DEF Call, objectVars
    <2>3. In' = In
        BY <2>2 DEF In
    <2>4. BarrierInv(t)' /\ (Opening(t)' <=> Opening(t))
        BY <2>2, <2>3
    <2>5. \A u \in Threads \ {t} : at'[u] = at[u] /\ back'[u] = back[u]
        BY <1>2 DEF Call
    <2> QED
        BY <2>2, <2>3, <2>4, <2>5, BarFrame
  <1> QED
      BY <1>1, <1>2
\* Only a barrier has threads in it.
LEMMA NoPhase ==
    ASSUME BarInv, kind # "barrier", NEW t \in Threads,
           Step(t) \/ \E c \in Functions : Call(t, c)
    PROVE  kind' = kind /\ phase' = phase
  <1>0. /\ Code(t) /\ TypeInv /\ phase[t] = "out"
      BY DEF BarInv, LockInv
  <1>1. CASE ObjectStep(t) /\ UNCHANGED <<condVars, programVars>>
    <2>1. ~BarCount(t)
        BY <1>0 DEF BarCount, Code, KindsOf
    <2> QED
        BY <1>1, <2>1 DEF ObjectStep, programVars, objectVars, BarReset, BarUnlock, ReadCount,
           WriteTest, WriteAgain, TryWriteTest, TryWriteBusy, ReadUncount, OnceTest, OnceDone
  <1>2. CASE Return(t)
      BY <1>0, <1>2 DEF Return, TypeInv
  <1> QED
      BY <1>1, <1>2 DEF Step, Call, objectVars, programVars

LEMMA BarStep == BarInv /\ [Next]_vars => BarInv'
  <1> SUFFICES ASSUME BarInv, [Next]_vars PROVE BarInv'
      OBVIOUS
  <1>1. LockInv' /\ CondSafe'
      BY LockStep, CondSafeStep DEF BarInv
  <1>2. ASSUME NEW t \in Threads, Step(t) \/ \E c \in Functions : Call(t, c) PROVE BarInv'
    <2>1. kind' = kind
        BY <1>2 DEF Step, Call, Return, programVars
    <2>2. CASE kind # "barrier"
        BY <1>1, <1>2, <2>2, NoPhase DEF BarInv
    <2>3. CASE kind = "barrier"
      <3>1. InCounted' /\ \A u \in Threads : BarrierInv(u)'
          BY <1>2, <2>3, BarMutex, BarCond, BarObject, BarProgram DEF Step
      <3> QED
          BY <1>1, <2>1, <2>3, <3>1 DEF BarInv
    <2> QED
        BY <2>2, <2>3
  <1>3. CASE UNCHANGED vars
    <2>1. UNCHANGED <<kind, at, back, owner, phase, count>>
        BY <1>3 DEF vars, mutexVars, objectVars, programVars
    <2>2. In' = In /\ \A t \in Threads : Opening(t)' <=> Opening(t)
        BY <2>1 DEF In, Opening
    <2>3. InCounted => InCounted'
        BY <2>1, <2>2 DEF InCounted
    <2>4. ASSUME NEW t \in Threads, BarrierInv(t) PROVE BarrierInv(t)'
        BY <2>1, <2>2, <2>4 DEF BarrierInv, Before, Waiting, After, ToWait
    <2> QED
        BY <1>1, <2>1, <2>3, <2>4 DEF BarInv
  <1> QED
      BY <1>2, <1>3 DEF Next

LEMMA GateCardinality == \A S : Gate!Cardinality(S) = Cardinality(S)
  BY DEF Gate!Cardinality, Cardinality

\* A count is an arrival, a return is a leaving, and nothing else is seen.
LEMMA BarMaps == BarInv /\ [Next]_vars => [Gate!Next]_(Gate!vars)
  <1> SUFFICES ASSUME BarInv, [Next]_vars, ~UNCHANGED <<limit, phase>>
               PROVE  Gate!Next
      BY DEF Gate!vars
  <1>1. PICK t \in Threads : Step(t) \/ \E c \in Functions : Call(t, c)
      BY DEF Next, vars, objectVars
  <1>2. TypeInv
      BY DEF BarInv, LockInv
  <1>3. limit' = limit /\ (BarCount(t) \/ Return(t))
      BY <1>1 DEF Step, Call, Return, objectVars, ObjectStep, BarCount, BarReset, BarUnlock,
         ReadCount, WriteTest, WriteAgain, TryWriteTest, TryWriteBusy, ReadUncount,
         OnceTest, OnceDone
  <1>4. kind = "barrier"
      BY <1>1, <1>3, NoPhase
  <1>5. CASE BarCount(t)
    <2>1. phase[t] = "out" /\ t \notin In /\ count = Cardinality(In)
        BY <1>4, <1>5, AtCount DEF BarCount
    <2>2. Gate!In = In
        BY DEF Gate!In, In
    <2>3. Cardinality(In \cup {t}) = count + 1
        BY <2>1, InFinite, FS_AddElement
    <2>4. (Cardinality(In \cup {t}) < limit) <=> ~(count + 1 >= limit)
        BY <1>2, <2>3 DEF TypeInv
    <2>5. phase' = IF Cardinality(In \cup {t}) < limit
                     THEN [phase EXCEPT ![t] = "in"]
                     ELSE [u \in Threads |-> IF u \in In \cup {t} THEN "passed" ELSE phase[u]]
      <3>1. \A u \in Threads : u \in In \cup {t} <=> u = t \/ phase[u] = "in"
          BY DEF In
      <3>2. CASE count + 1 >= limit
        <4>1. phase' = [u \in Threads |-> IF u = t \/ phase[u] = "in" THEN "passed"
                                                                      ELSE phase[u]]
            BY <1>5, <3>2 DEF BarCount
        <4> QED
            BY <2>4, <3>1, <3>2, <4>1
      <3>3. CASE ~(count + 1 >= limit)
          BY <1>5, <2>4, <3>3 DEF BarCount
      <3> QED
          BY <3>2, <3>3
    <2>6. Gate!Arrive(t)
        BY <1>3, <2>1, <2>2, <2>5, GateCardinality DEF Gate!Arrive
    <2> QED
        BY <2>6 DEF Gate!Next
  <1>6. CASE Return(t)
    <2>1. phase[t] = "passed"
        BY <1>4, <1>6 DEF BarInv, BarrierInv, After, Return
    <2>2. Gate!Leave(t)
        BY <1>3, <1>6, <2>1 DEF Return, Gate!Leave
    <2> QED
        BY <2>2 DEF Gate!Next
  <1> QED
      BY <1>3, <1>5, <1>6

\* The barrier lets limit threads go on together, whatever the order in which
\* they get the mutex, sleep, are woken and return.
THEOREM BarrierImplemented == Spec => ImplementsBarrier
  <1>1. Init => Gate!Init
      BY SyncAssumption DEF Init, Gate!Init
  <1> QED
      BY <1>1, BarInit, BarStep, BarMaps, PTL DEF Spec, ImplementsBarrier, Gate!Spec
=============================================================================
