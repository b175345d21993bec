------------------------------ MODULE PtThread ------------------------------
(***************************************************************************)
(* The threads of the POSIX layer and their catalog (bld/clib/posix/c:     *)
(* _ptint, ptcreate, ptexit, ptjoin, ptdetach, ptcancel, ptclean).         *)
(*                                                                         *)
(* The catalog is a linked list of heap blocks, one for each registered    *)
(* thread, behind the semaphore __ptcatalog_sem.  A thread that looks for  *)
(* itself walks the list without the semaphore, and the head is stored     *)
(* without it.  A section under the semaphore is one step: it reads the    *)
(* list and changes at most one link of it.                                *)
(*                                                                         *)
(* Main creates threads, joins, cancels and detaches them, and does not    *)
(* end; the others push and pop cleaners, test for cancellation and exit.  *)
(* The kernel gives the id of a thread that has ended to a later one.      *)
(***************************************************************************)
EXTENDS Integers, FiniteSets

CONSTANTS Main, Workers,   \* thread ids
          Blocks,          \* addresses of the heap
          NULL

CONSTANTS MaxStarts,       \* bound: threads created
          MaxCleaners,     \* bound: cleaners pushed at a time
          Faults           \* "clone" and "malloc" may fail

Tids == Workers \cup {Main}

ASSUME ThreadAssumption ==
    /\ Main \notin Workers /\ NULL \notin Tids \cup Blocks
    /\ IsFiniteSet(Blocks) /\ Blocks # {}
    /\ MaxStarts \in Nat /\ MaxCleaners \in Nat

VARIABLES head,      \* __ptcatalog
          node,      \* the blocks; what a freed one holds stays in it
          used,      \* the blocks that are allocated
          sem,       \* permits of __ptcatalog_sem
          running,   \* owners of the running mutexes, which are never freed
          regs,      \* running mutexes allocated
          passed,    \* __thread_pass of the thread that is being created
          at,        \* the place of each thread
          back,      \* where its walk of the list returns to
          arg,       \* the thread it joins or cancels
          ptr,       \* its pointer to a block
          self,      \* what it has found to be its own id
          mtx,       \* its pointer to a running mutex
          left,      \* the cleaners it has still to run
          known,     \* the threads Main may join, cancel or detach
          starts,    \* threads created
          ended,     \* ghost: those of them whose id a later thread has got
          due        \* ghost: cleaners each thread has pushed and not popped or run

catalogVars == <<head, node, used, sem>>
mutexVars == <<running, regs>>
localVars == <<back, arg, ptr, self, mtx, left>>
programVars == <<passed, known, starts, ended, due>>
vars == <<catalogVars, mutexVars, at, localVars, programVars>>

Node(tid, m) == [tid |-> tid, mutex |-> m, cancelled |-> FALSE, detached |-> FALSE,
                 cleaners |-> 0, next |-> NULL]

\* The blocks that have not been in use are alike: malloc returns one of them,
\* or one that has been freed.
Fresh(b) == node[b].mutex = 0
Malloc == {b \in Blocks \ used : ~Fresh(b)}
          \cup (LET new == {b \in Blocks \ used : Fresh(b)}
                IN  IF new = {} THEN {} ELSE {CHOOSE b \in new : TRUE})

\* The first block, which the main thread registers before main runs; its
\* running mutex is never locked.
Init ==
    /\ head = (CHOOSE b \in Blocks : TRUE) /\ used = {head} /\ sem = 1
    /\ node = [b \in Blocks |-> IF b = head THEN Node(Main, 1) ELSE Node(NULL, 0)]
    /\ running = [m \in 1 .. MaxStarts + 1 |-> NULL] /\ regs = 1
    /\ passed = [sem |-> 0, thread |-> NULL, detached |-> FALSE]
    /\ at = [t \in Tids |-> IF t = Main THEN "run" ELSE "dead"]
    /\ back = [t \in Tids |-> "run"]
    /\ arg = [t \in Tids |-> NULL]
    /\ ptr = [t \in Tids |-> NULL]
    /\ self = [t \in Tids |-> NULL]
    /\ mtx = [t \in Tids |-> 0]
    /\ left = [t \in Tids |-> 0]
    /\ known = {} /\ ended = {} /\ starts = 0
    /\ due = [t \in Tids |-> 0]

Goto(t, place) == at' = [at EXCEPT ![t] = place]

-----------------------------------------------------------------------------
(* The catalog.                                                            *)

\* The blocks of the list, from the head; NULL after the last.
Nth[k \in Nat] == IF k = 0 THEN head
                  ELSE IF Nth[k - 1] = NULL THEN NULL ELSE node[Nth[k - 1]].next
Listed == {b \in Blocks : \E k \in 0 .. Cardinality(Blocks) : Nth[k] = b}

\* The place in the list of the first block of thread t, if it has one.
Places(t) == {k \in 0 .. Cardinality(Blocks) : Nth[k] # NULL /\ node[Nth[k]].tid = t}
Found(t) == Places(t) # {}
First(t) == CHOOSE k \in Places(t) : \A j \in Places(t) : k <= j
Entry(t) == Nth[First(t)]

\* The running mutex of thread t.
MutexOf(t) == IF Found(t) THEN node[Entry(t)].mutex ELSE 0

\* Blocks b and after are linked.
Link(nodes, b, next) == [nodes EXCEPT ![b].next = next]

\* Mutation: the predecessor is not looked for.
UnlinkAtHead(t) ==
    /\ head' = node[Entry(t)].next
    /\ UNCHANGED node

\* The block of t leaves the list.
Unlink(t) ==
    IF First(t) = 0
      THEN head' = node[Entry(t)].next /\ UNCHANGED node
      ELSE node' = Link(node, Nth[First(t) - 1], node[Entry(t)].next) /\ UNCHANGED head

-----------------------------------------------------------------------------
(* __get_current_thread: the walk without the semaphore.                   *)

\* It begins with the head.
FindSelf(t, next) ==
    /\ ptr' = [ptr EXCEPT ![t] = head]
    /\ back' = [back EXCEPT ![t] = next]
    /\ Goto(t, "walk")

\* It goes on from a block that may have been removed, or freed.
Walk(t) ==
    /\ at[t] = "walk"
    /\ IF ptr[t] # NULL /\ node[ptr[t]].tid # t
         THEN /\ ptr' = [ptr EXCEPT ![t] = node[ptr[t]].next]
              /\ UNCHANGED <<at, self>>
         ELSE /\ self' = [self EXCEPT ![t] = IF ptr[t] = NULL THEN NULL ELSE t]
              /\ Goto(t, back[t])
              /\ ptr' = [ptr EXCEPT ![t] = NULL]
    /\ UNCHANGED <<catalogVars, mutexVars, back, arg, mtx, left, programVars>>

-----------------------------------------------------------------------------
(* pthread_create and __thread_start.                                      *)

Create(detached) ==
    /\ at[Main] = "run" /\ starts < MaxStarts
    /\ passed' = [sem |-> 0, thread |-> NULL, detached |-> detached]
    /\ starts' = starts + 1
    /\ \/ \E u \in Workers : /\ at[u] = "dead"
                             /\ at' = [at EXCEPT ![Main] = "create_wait", ![u] = "register"]
                             /\ due' = [due EXCEPT ![u] = 0]
                             /\ ended' = ended \cup ({u} \cap known)
       \/ /\ "clone" \in Faults     \* _beginthread fails: nobody will post
          /\ Goto(Main, "create_wait")
          /\ UNCHANGED <<due, ended>>
    /\ UNCHANGED <<catalogVars, mutexVars, localVars, known>>

\* sem_wait on registered.
CreateWait ==
    /\ at[Main] = "create_wait" /\ passed.sem > 0
    /\ passed' = [passed EXCEPT !.sem = @ - 1]
    /\ Goto(Main, IF passed.detached THEN "create_detach" ELSE "create_end")
    /\ UNCHANGED <<catalogVars, mutexVars, localVars, known, starts, ended, due>>

\* The attribute, applied to a thread that runs already.
CreateDetach ==
    /\ at[Main] = "create_detach" /\ sem > 0
    /\ node' = IF Found(passed.thread)
                 THEN [node EXCEPT ![Entry(passed.thread)].detached = TRUE] ELSE node
    /\ Goto(Main, "create_end")
    /\ UNCHANGED <<head, used, sem, mutexVars, localVars, programVars>>

\* A detached thread, and one that could not be registered, is not joined.
CreateEnd ==
    /\ at[Main] = "create_end"
    /\ known' = IF passed.thread = NULL \/ passed.detached THEN known
                                                         ELSE known \cup {passed.thread}
    /\ passed' = [passed EXCEPT !.thread = NULL, !.detached = FALSE]
    /\ ended' = ended \ {passed.thread}
    /\ Goto(Main, "run")
    /\ UNCHANGED <<catalogVars, mutexVars, localVars, starts, due>>

\* __register_thread, and the store of its result: the block goes to the end.
Register(t) ==
    /\ at[t] = "register" /\ sem > 0
    /\ \E b \in Malloc :
        LET new == [node EXCEPT ![b] = Node(t, regs + 1)]
            last == CHOOSE a \in Listed : node[a].next = NULL
        IN  /\ used' = used \cup {b}
            /\ IF head = NULL THEN head' = b /\ node' = new
                              ELSE node' = Link(new, last, b) /\ UNCHANGED head
    /\ regs' = regs + 1
    /\ passed' = [passed EXCEPT !.thread = t]
    /\ Goto(t, "start_get")
    /\ UNCHANGED <<sem, running, localVars, known, starts, ended, due>>

\* Its malloc fails: the thread runs without an entry.
RegisterFails(t) ==
    /\ at[t] = "register" /\ "malloc" \in Faults
    /\ Goto(t, "start_get")
    /\ UNCHANGED <<catalogVars, mutexVars, localVars, programVars>>

\* __get_thread_running_mutex for the entry of u.
GetMutex(t, u) ==
    /\ sem > 0
    /\ mtx' = [mtx EXCEPT ![t] = MutexOf(u)]
    /\ UNCHANGED <<catalogVars, mutexVars, back, arg, ptr, self, left, programVars>>

StartGet(t) ==
    /\ at[t] = "start_get"
    /\ GetMutex(t, passed.thread)
    /\ Goto(t, "start_lock")

\* pthread_mutex_lock of the running mutex (module PtMutex), which is NULL when
\* there is no entry.
CanLock(t) == mtx[t] \in {m \in DOMAIN running : running[m] \in {NULL, t}} \cup {0}
Owns(t, was, is) ==
    /\ running' = [m \in DOMAIN running |-> IF m = mtx[t] /\ running[m] \in was
                                              THEN is ELSE running[m]]
    /\ mtx' = [mtx EXCEPT ![t] = 0]
    /\ UNCHANGED <<catalogVars, regs, back, arg, ptr, self, left, programVars>>
Locks(t) == CanLock(t) /\ Owns(t, {NULL}, t)
Unlocks(t) == Owns(t, {t}, NULL)

\* Mutation: the thread starts without its running mutex.
StartNoLock(t) ==
    /\ at[t] = "start_lock"
    /\ Owns(t, {}, t)
    /\ Goto(t, "start_post")

StartLock(t) ==
    /\ at[t] = "start_lock"
    /\ Locks(t)
    /\ Goto(t, "start_post")

StartPost(t) ==
    /\ at[t] = "start_post"
    /\ passed' = [passed EXCEPT !.sem = @ + 1]
    /\ Goto(t, "run")
    /\ UNCHANGED <<catalogVars, mutexVars, localVars, known, starts, ended, due>>

-----------------------------------------------------------------------------
(* The cleaners.  A function that does not find the thread, or has no      *)
(* memory, returns from inside the section: the permit is lost.            *)

LosesPermit == sem' = sem - 1

PushCleaner(t) ==
    /\ at[t] = "run" /\ sem > 0 /\ due[t] < MaxCleaners
    /\ IF Found(t)
         THEN /\ node' = [node EXCEPT ![Entry(t)].cleaners = @ + 1]
              /\ due' = [due EXCEPT ![t] = @ + 1]
              /\ UNCHANGED sem
         ELSE LosesPermit /\ UNCHANGED <<node, due>>
    /\ UNCHANGED <<head, used, mutexVars, at, localVars, passed, known, starts, ended>>

PushFails(t) ==
    /\ at[t] = "run" /\ sem > 0 /\ "malloc" \in Faults
    /\ LosesPermit
    /\ UNCHANGED <<head, node, used, mutexVars, at, localVars, programVars>>

\* Mutation: an empty list of cleaners is not looked for.
PopEmpty(t) ==
    /\ at[t] = "run" /\ sem > 0
    /\ IF ~Found(t) THEN LosesPermit /\ UNCHANGED <<node, due>>
       ELSE /\ node' = [node EXCEPT ![Entry(t)].cleaners = @ - 1]
            /\ due' = [due EXCEPT ![t] = IF @ > 0 THEN @ - 1 ELSE 0]
            /\ UNCHANGED sem
    /\ UNCHANGED <<head, used, mutexVars, at, localVars, passed, known, starts, ended>>

\* The cleaner is run, or not, after the section.
PopCleaner(t) ==
    /\ at[t] = "run" /\ sem > 0
    /\ IF ~Found(t) THEN LosesPermit /\ UNCHANGED <<node, due>>
       ELSE /\ node[Entry(t)].cleaners > 0
            /\ node' = [node EXCEPT ![Entry(t)].cleaners = @ - 1]
            /\ due' = [due EXCEPT ![t] = IF @ > 0 THEN @ - 1 ELSE 0]
            /\ UNCHANGED sem
    /\ UNCHANGED <<head, used, mutexVars, at, localVars, passed, known, starts, ended>>

-----------------------------------------------------------------------------
(* pthread_join.                                                           *)

Join(u) ==
    /\ at[Main] = "run" /\ u \in known
    /\ arg' = [arg EXCEPT ![Main] = u]
    /\ Goto(Main, "join_get")
    /\ UNCHANGED <<catalogVars, mutexVars, back, ptr, self, mtx, left, programVars>>

JoinGet ==
    /\ at[Main] = "join_get"
    /\ GetMutex(Main, arg[Main])
    /\ Goto(Main, "join_lock")

\* Without an entry the lock fails, and so does the join.
JoinLock ==
    /\ at[Main] = "join_lock"
    /\ Locks(Main)
    /\ Goto(Main, IF mtx[Main] = 0 THEN "run" ELSE "join_get2")

JoinGet2 ==
    /\ at[Main] = "join_get2"
    /\ GetMutex(Main, arg[Main])
    /\ Goto(Main, "join_unlock")

JoinUnlock ==
    /\ at[Main] = "join_unlock"
    /\ Unlocks(Main)
    /\ Goto(Main, "joined")

\* The return value that the entry never got.
JoinEnd ==
    /\ at[Main] = "joined" /\ sem > 0
    /\ known' = known \ {arg[Main]} /\ ended' = ended \ {arg[Main]}
    /\ Goto(Main, "run")
    /\ UNCHANGED <<catalogVars, mutexVars, localVars, passed, starts, due>>

-----------------------------------------------------------------------------
(* pthread_detach; pthread_cancel and pthread_testcancel.                  *)

Detach(u) ==
    /\ at[Main] = "run" /\ u \in known /\ sem > 0
    /\ node' = IF Found(u) THEN [node EXCEPT ![Entry(u)].detached = TRUE] ELSE node
    /\ known' = known \ {u} /\ ended' = ended \ {u}
    /\ UNCHANGED <<head, used, sem, mutexVars, at, localVars, passed, starts, due>>

\* The section that reads the state: it is enabled and deferred, or there is
\* no entry.
Cancel(u) ==
    /\ at[Main] = "run" /\ u \in known /\ sem > 0 /\ Found(u)
    /\ arg' = [arg EXCEPT ![Main] = u]
    /\ Goto(Main, "cancel_set")
    /\ UNCHANGED <<catalogVars, mutexVars, back, ptr, self, mtx, left, programVars>>

CancelSet ==
    /\ at[Main] = "cancel_set" /\ sem > 0
    /\ node' = IF Found(arg[Main])
                 THEN [node EXCEPT ![Entry(arg[Main])].cancelled = TRUE] ELSE node
    /\ Goto(Main, "run")
    /\ UNCHANGED <<head, used, sem, mutexVars, localVars, programVars>>

TestCancel(t) ==
    /\ at[t] = "run"
    /\ FindSelf(t, "test")
    /\ UNCHANGED <<catalogVars, mutexVars, self, arg, mtx, left, programVars>>

Test(t) ==
    /\ at[t] = "test" /\ sem > 0
    /\ Goto(t, IF self[t] # NULL /\ Found(t) /\ node[Entry(t)].cancelled
                 THEN "exit_clean" ELSE "run")
    /\ UNCHANGED <<catalogVars, mutexVars, localVars, programVars>>

-----------------------------------------------------------------------------
(* pthread_exit, which the end of the thread's routine calls too.          *)

Exit(t) ==
    /\ at[t] = "run"
    /\ Goto(t, "exit_clean")
    /\ UNCHANGED <<catalogVars, mutexVars, localVars, programVars>>

\* __call_all_pthread_cleaners takes them from the entry,
ExitClean(t) ==
    /\ at[t] = "exit_clean" /\ sem > 0
    /\ IF Found(t)
         THEN /\ left' = [left EXCEPT ![t] = node[Entry(t)].cleaners]
              /\ node' = [node EXCEPT ![Entry(t)].cleaners = 0]
              /\ UNCHANGED sem
         ELSE LosesPermit /\ UNCHANGED <<left, node>>
    /\ Goto(t, "exit_run")
    /\ UNCHANGED <<head, used, mutexVars, back, arg, ptr, self, mtx, programVars>>

\* and runs them one after the other.
ExitRun(t) ==
    /\ at[t] = "exit_run" /\ left[t] > 0
    /\ left' = [left EXCEPT ![t] = @ - 1]
    /\ due' = [due EXCEPT ![t] = IF @ > 0 THEN @ - 1 ELSE 0]
    /\ UNCHANGED <<catalogVars, mutexVars, at, back, arg, ptr, self, mtx,
                   passed, known, starts, ended>>

ExitSelf(t) ==
    /\ at[t] = "exit_run" /\ left[t] = 0
    /\ FindSelf(t, "exit_get")
    /\ UNCHANGED <<catalogVars, mutexVars, self, arg, mtx, left, programVars>>

\* A thread that has not found itself ends with its running mutex locked.
ExitLost(t) ==
    /\ at[t] = "exit_get" /\ self[t] = NULL
    /\ Goto(t, "end")
    /\ UNCHANGED <<catalogVars, mutexVars, localVars, programVars>>

ExitGet(t) ==
    /\ at[t] = "exit_get" /\ self[t] # NULL
    /\ GetMutex(t, self[t])
    /\ Goto(t, "exit_unlock")

\* Mutation: a thread that is not detached leaves the unlock out.
ExitKeeps(t) ==
    /\ at[t] = "exit_unlock"
    /\ IF Found(t) /\ node[Entry(t)].detached THEN Unlocks(t) ELSE Owns(t, {}, NULL)
    /\ Goto(t, "exit_detached")

\* "Unlock to release any joins".
ExitUnlock(t) ==
    /\ at[t] = "exit_unlock"
    /\ Unlocks(t)
    /\ Goto(t, "exit_detached")

ExitDetached(t) ==
    /\ at[t] = "exit_detached" /\ sem > 0
    /\ Goto(t, IF Found(t) /\ node[Entry(t)].detached THEN "remove" ELSE "end")
    /\ UNCHANGED <<catalogVars, mutexVars, localVars, programVars>>

\* __remove_thread: the block leaves the list,
Remove(t) ==
    /\ at[t] = "remove" /\ sem > 0
    /\ IF Found(t) THEN /\ Unlink(t)
                        /\ ptr' = [ptr EXCEPT ![t] = Entry(t)]
                        /\ Goto(t, "remove_cut")
                   ELSE Goto(t, "remove_head") /\ UNCHANGED <<head, node, ptr>>
    /\ UNCHANGED <<used, sem, mutexVars, back, arg, self, mtx, left, programVars>>

\* loses its link after the section, where a walk may stand on it,
RemoveCut(t) ==
    /\ at[t] = "remove_cut"
    /\ node' = Link(node, ptr[t], NULL)
    /\ Goto(t, "remove_free")
    /\ UNCHANGED <<head, used, sem, mutexVars, localVars, programVars>>

\* and goes back to the heap, which writes over its first words.
RemoveFree(t) ==
    /\ at[t] = "remove_free"
    /\ used' = used \ {ptr[t]}
    /\ node' = [node EXCEPT ![ptr[t]].tid = NULL]
    /\ Goto(t, "remove_head")
    /\ UNCHANGED <<head, sem, mutexVars, localVars, programVars>>

\* return( __ptcatalog ), without the semaphore,
RemoveHead(t) ==
    /\ at[t] = "remove_head"
    /\ ptr' = [ptr EXCEPT ![t] = head]
    /\ Goto(t, "remove_store")
    /\ UNCHANGED <<catalogVars, mutexVars, back, arg, self, mtx, left, programVars>>

\* and __unregister_thread stores it.
RemoveStore(t) ==
    /\ at[t] = "remove_store"
    /\ head' = ptr[t]
    /\ Goto(t, "end")
    /\ UNCHANGED <<node, used, sem, mutexVars, localVars, programVars>>

\* _endthread.  What the locals held is forgotten.
End(t) ==
    /\ at[t] = "end"
    /\ Goto(t, "dead")
    /\ ptr' = [ptr EXCEPT ![t] = NULL] /\ back' = [back EXCEPT ![t] = "run"]
    /\ UNCHANGED <<catalogVars, mutexVars, arg, self, mtx, left, programVars>>

-----------------------------------------------------------------------------

\* What a thread does inside the functions, once it is called.
MainStep == CreateWait \/ CreateDetach \/ CreateEnd
            \/ JoinGet \/ JoinLock \/ JoinGet2 \/ JoinUnlock \/ JoinEnd \/ CancelSet
StartStep(t) == Register(t) \/ RegisterFails(t) \/ StartGet(t) \/ StartLock(t) \/ StartPost(t)
ExitStep(t) == \/ ExitClean(t) \/ ExitRun(t) \/ ExitSelf(t) \/ ExitLost(t) \/ ExitGet(t)
               \/ ExitUnlock(t) \/ ExitDetached(t) \/ Remove(t) \/ RemoveCut(t)
               \/ RemoveFree(t) \/ RemoveHead(t) \/ RemoveStore(t) \/ End(t)
Step(t) == Walk(t) \/ Test(t) \/ StartStep(t) \/ ExitStep(t)

Calls(t) == PushCleaner(t) \/ PushFails(t) \/ PopCleaner(t) \/ TestCancel(t) \/ Exit(t)
MainCalls == \/ \E detached \in BOOLEAN : Create(detached)
             \/ \E u \in known : Join(u) \/ Detach(u) \/ Cancel(u)

Next == \/ MainStep \/ MainCalls
        \/ \E t \in Workers : Step(t) \/ Calls(t)

Spec == Init /\ [][Next]_vars

\* A thread inside a function goes on; no thread need call one.
FairSpec == Spec /\ WF_vars(MainStep) /\ \A t \in Workers : WF_vars(Step(t))

=============================================================================
