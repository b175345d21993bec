--------------------------- MODULE PtThreadProps ---------------------------
(***************************************************************************)
(* What the thread catalog, pthread_create, pthread_exit and pthread_join  *)
(* promise.                                                                *)
(***************************************************************************)
EXTENDS PtThread

ThreadPlaces ==
    {"dead", "run", "walk", "test",
     "create_wait", "create_detach", "create_end",
     "register", "start_get", "start_lock", "start_post",
     "join_get", "join_lock", "join_get2", "join_unlock", "joined", "cancel_set",
     "exit_clean", "exit_run", "exit_get", "exit_unlock", "exit_detached",
     "remove", "remove_cut", "remove_free", "remove_head", "remove_store", "end"}

\* The types of the catalog and of the threads.
ThreadTypeOK ==
    /\ head \in Blocks \cup {NULL} /\ used \subseteq Blocks /\ sem \in {0, 1}
    /\ node \in [Blocks -> [tid : Tids \cup {NULL}, mutex : 0 .. MaxStarts + 1,
                            cancelled : BOOLEAN, detached : BOOLEAN,
                            cleaners : Nat, next : Blocks \cup {NULL}]]
    /\ running \in [1 .. MaxStarts + 1 -> Tids \cup {NULL}]
    /\ regs \in 1 .. starts + 1 /\ starts \in 0 .. MaxStarts
    /\ passed \in [sem : {0, 1}, thread : Workers \cup {NULL}, detached : BOOLEAN]
    /\ at \in [Tids -> ThreadPlaces]
    /\ back \in [Tids -> {"run", "test", "exit_get"}]
    /\ arg \in [Tids -> Workers \cup {NULL}]
    /\ ptr \in [Tids -> Blocks \cup {NULL}]
    /\ self \in [Tids -> Tids \cup {NULL}]
    /\ mtx \in [Tids -> 0 .. MaxStarts + 1]
    /\ left \in [Tids -> Nat] /\ due \in [Tids -> Nat]
    /\ known \subseteq Workers /\ ended \subseteq known

-----------------------------------------------------------------------------

\* The thread has released its joiners, or will not: pthread_exit is past that.
Released(t) == at[t] \in {"exit_detached", "remove", "remove_cut", "remove_free",
                          "remove_head", "remove_store", "end", "dead"}

\* pthread_join returns 0 only when the thread has left its routine and has run
\* every cleaner it pushed.  The id may be that of a later thread by then.
JoinAfterExit == at[Main] = "joined" => \/ arg[Main] \in ended
                                        \/ Released(arg[Main]) /\ due[arg[Main]] = 0

\* The blocks that a thread has taken from the list and not freed yet.
Removed == {ptr[t] : t \in {u \in Tids : at[u] \in {"remove_cut", "remove_free"}}}

\* The catalog lists the blocks that are allocated, all of them and no other,
\* although its head is stored without the semaphore.
CatalogIntact == Listed = used \ Removed

\* A join of a thread that has ended returns, unless a failed call has kept the
\* semaphore or the thread has not found itself in the catalog.
JoinReturns ==
    (at[Main] = "join_lock" /\ arg[Main] \in {t \in Workers : Released(t)})
        ~> at[Main] = "run" \/ sem = 0 \/ arg[Main] \in {t \in Workers : self[t] = NULL}

\* "Unlock to release any joins", without the exceptions: it does not hold, even
\* when no call fails.  A thread on its walk stands on a block that is removed.
JoinsReturn ==
    (at[Main] = "join_lock" /\ arg[Main] \in {t \in Workers : Released(t)})
        ~> at[Main] = "run"
=============================================================================
