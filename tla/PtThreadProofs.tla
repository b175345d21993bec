--------------------------- MODULE PtThreadProofs ---------------------------
(***************************************************************************)
(* The thread catalog lists the blocks in use, and a join returns after    *)
(* the thread and its cleaners, for any number of blocks and threads.      *)
(***************************************************************************)
EXTENDS PtThreadProps, FiniteSetTheorems, WellFoundedInduction, TLAPS

\* A set of natural numbers has a least element.
LEMMA Least ==
    ASSUME NEW S, S \subseteq Nat, S # {}
    PROVE  \E m \in S : \A k \in S : m <= k
  <1>1. PICK m \in S : \A k \in S : ~ (<<k, m>> \in OpToRel(<, Nat))
      BY WFMin, NatLessThanWellFounded, Zenon
  <1>2. \A k \in S : k < m => <<k, m>> \in OpToRel(<, Nat)
      BY DEF OpToRel
  <1>3. \A k \in S : ~ (k < m)
      BY <1>1, <1>2, Zenon
  <1> QED BY <1>3

\* Induction, for a property given by a set.
LEMMA Induction ==
    ASSUME NEW S, 0 \in S, \A k \in Nat : k \in S => k + 1 \in S
    PROVE  Nat \subseteq S
  <1> DEFINE Out == {k \in Nat : k \notin S}
  <1>1. SUFFICES ASSUME Out # {} PROVE FALSE
      OBVIOUS
  <1>2. PICK m \in Out : \A k \in Out : m <= k
    <2>1. Out \subseteq Nat
        OBVIOUS
    <2> QED BY <1>1, <2>1, Least, Zenon
  <1>3. m - 1 \in Nat /\ m - 1 \in S
    <2>1. m \in Nat /\ m # 0
        BY <1>2
    <2>2. m - 1 \in Nat /\ ~ (m <= m - 1)
        BY <2>1
    <2> QED BY <1>2, <2>2
  <1> QED BY <1>2, <1>3

-----------------------------------------------------------------------------
(* The list.                                                               *)

\* The list of the n blocks of s, from block h along the links of nodes.
IsList(h, nodes, s, n) ==
    /\ n \in Nat \ {0} /\ s \in [0 .. n - 1 -> Blocks] /\ s[0] = h
    /\ \A k \in 0 .. n - 1 : nodes[s[k]].next = IF k = n - 1 THEN NULL ELSE s[k + 1]
    /\ \A j, k \in 0 .. n - 1 : s[j] = s[k] => j = k

\* The first block of thread u is the one at k.
IsFirst(nodes, s, n, u, k) ==
    /\ k \in 0 .. n - 1 /\ nodes[s[k]].tid = u
    /\ \A j \in 0 .. k - 1 : nodes[s[j]].tid # u

\* The walk from the head meets the blocks of the list, then NULL.
LEMMA NthOfList ==
    ASSUME NEW n, NEW s, IsList(head, node, s, n)
    PROVE  \A k \in Nat : Nth[k] = IF k < n THEN s[k] ELSE NULL
  <1> DEFINE f == [k \in Nat |-> IF k < n THEN s[k] ELSE NULL]
             Walks(g) == [k \in Nat |-> IF k = 0 THEN head
                                        ELSE IF g[k - 1] = NULL THEN NULL
                                        ELSE node[g[k - 1]].next]
  <1>1. n \in Nat \ {0} /\ NULL \notin Blocks
      BY ThreadAssumption DEF IsList
  <1>2. f = Walks(f)
    <2>1. ASSUME NEW k \in Nat PROVE f[k] = Walks(f)[k]
      <3>1. CASE k = 0
          BY <1>1, <3>1 DEF IsList
      <3>2. CASE k # 0
        <4>1. k - 1 \in Nat /\ k - 1 < k
            BY <3>2
        <4>2. CASE k - 1 >= n
            BY <4>1, <4>2, <1>1, <3>2
        <4>3. CASE k - 1 < n
          <5>1. k - 1 \in 0 .. n - 1
              BY <4>1, <4>3, <1>1
          <5>2. f[k - 1] = s[k - 1] /\ s[k - 1] # NULL
              BY <5>1, <4>1, <4>3, <1>1 DEF IsList
          <5>3. node[s[k - 1]].next = IF k - 1 = n - 1 THEN NULL ELSE s[k]
              BY <5>1 DEF IsList
          <5> QED BY <5>2, <5>3, <5>1, <4>3, <3>2, <1>1
        <4> QED BY <4>1, <4>2, <4>3, <1>1
      <3> QED BY <3>1, <3>2
    <2> QED BY <2>1, Zenon
  <1>3. Nth = Walks(Nth)
      BY <1>2, Zenon DEF Nth
  <1> DEFINE S == {k \in Nat : Nth[k] = f[k]}
  <1>4. 0 \in S
    <2>1. Nth[0] = head
        BY <1>3, Zenon
    <2> QED BY <2>1, <1>1 DEF IsList
  <1>5. ASSUME NEW k \in Nat, k \in S PROVE k + 1 \in S
    <2>1. k + 1 \in Nat /\ k + 1 # 0 /\ (k + 1) - 1 = k
        OBVIOUS
    <2> HIDE DEF f
    <2>2. Nth[k + 1] = IF Nth[k] = NULL THEN NULL ELSE node[Nth[k]].next
        BY <2>1, <1>3, Zenon
    <2>3. f[k + 1] = IF f[k] = NULL THEN NULL ELSE node[f[k]].next
        BY <2>1, <1>2, Zenon
    <2> QED BY <2>1, <2>2, <2>3, <1>5
  <1>6. Nat \subseteq S
    <2> HIDE DEF S
    <2> QED BY <1>4, <1>5, Induction
  <1> QED BY <1>6

\* A list is not longer than the heap.
LEMMA ListLength ==
    ASSUME NEW h, NEW nodes, NEW n, NEW s, IsList(h, nodes, s, n)
    PROVE  n <= Cardinality(Blocks)
  <1>1. n \in Nat \ {0} /\ s \in [0 .. n - 1 -> Blocks] /\ 0 \in Int /\ n - 1 \in Int
      BY DEF IsList
  <1>2. IsFiniteSet(0 .. n - 1) /\ Cardinality(0 .. n - 1) = n
    <2>1. IsFiniteSet(0 .. n - 1) /\ Cardinality(0 .. n - 1) = IF 0 > n - 1 THEN 0 ELSE (n - 1) - 0 + 1
        BY <1>1, FS_Interval, Zenon
    <2> QED BY <1>1, <2>1
  <1>3. IsFiniteSet(Blocks) /\ Cardinality(Blocks) \in Nat
      BY ThreadAssumption, FS_CardinalityType
  <1>4. ~ (Cardinality(Blocks) < Cardinality(0 .. n - 1))
    <2>1. SUFFICES ASSUME Cardinality(Blocks) < Cardinality(0 .. n - 1) PROVE FALSE
        OBVIOUS
    <2> DEFINE D == 0 .. n - 1
    <2>2. IsFiniteSet(D) /\ s \in [D -> Blocks] /\ Cardinality(Blocks) < Cardinality(D)
        BY <1>1, <1>2, <2>1
    <2>3. \E j, k \in D : j # k /\ s[j] = s[k]
      <3> HIDE DEF D
      <3> QED BY <1>3, <2>2, FS_PigeonHole, Zenon
    <2> QED BY <2>3 DEF IsList
  <1> QED BY <1>1, <1>2, <1>3, <1>4

\* What the operators on the catalog find in a list.
LEMMA Lists ==
    ASSUME NEW n, NEW s, IsList(head, node, s, n)
    PROVE  /\ Listed = {s[k] : k \in 0 .. n - 1}
           /\ \A u : Found(u) <=> \E k \in 0 .. n - 1 : node[s[k]].tid = u
           /\ \A u : Found(u) => \E k : IsFirst(node, s, n, u, k)
           /\ \A u, k : IsFirst(node, s, n, u, k) => First(u) = k /\ Entry(u) = s[k]
  <1>1. n \in Nat \ {0} /\ s \in [0 .. n - 1 -> Blocks]
      BY DEF IsList
  <1>2. NULL \notin Blocks /\ Cardinality(Blocks) \in Nat /\ n <= Cardinality(Blocks)
      BY ThreadAssumption, FS_CardinalityType, ListLength
  <1>3. \A k \in Nat : Nth[k] = IF k < n THEN s[k] ELSE NULL
      BY NthOfList, Zenon
  <1>4. ASSUME NEW k \in 0 .. n - 1
        PROVE  k \in 0 .. Cardinality(Blocks) /\ Nth[k] = s[k] /\ s[k] \in Blocks
      BY <1>1, <1>2, <1>3
  <1>5. ASSUME NEW k \in 0 .. Cardinality(Blocks), Nth[k] # NULL
        PROVE  k \in 0 .. n - 1
      BY <1>1, <1>2, <1>3, <1>5
  <1>6. Listed = {s[k] : k \in 0 .. n - 1}
      BY <1>2, <1>4, <1>5 DEF Listed
  <1>7. ASSUME NEW u PROVE Places(u) = {k \in 0 .. n - 1 : node[s[k]].tid = u}
      BY <1>2, <1>4, <1>5 DEF Places
  <1>8. ASSUME NEW u PROVE Found(u) <=> \E k \in 0 .. n - 1 : node[s[k]].tid = u
      BY <1>7 DEF Found
  <1>9. ASSUME NEW u, Found(u) PROVE \E k : IsFirst(node, s, n, u, k)
    <2>1. Places(u) # {} /\ Places(u) \subseteq Nat
        BY <1>1, <1>7, <1>9 DEF Found
    <2>2. PICK k \in Places(u) : \A j \in Places(u) : k <= j
        BY <2>1, Least, Zenon
    <2>3. k \in 0 .. n - 1 /\ node[s[k]].tid = u
        BY <2>2, <1>7
    <2>4. ASSUME NEW j \in 0 .. k - 1 PROVE node[s[j]].tid # u
      <3>1. j \in 0 .. n - 1 /\ ~ (k <= j)
          BY <2>3, <1>1
      <3> QED BY <3>1, <2>2, <1>7
    <2>5. IsFirst(node, s, n, u, k)
        BY <2>3, <2>4 DEF IsFirst
    <2> QED BY <2>5
  <1>10. ASSUME NEW u, NEW k, IsFirst(node, s, n, u, k)
         PROVE  First(u) = k /\ Entry(u) = s[k]
    <2>1. k \in Places(u) /\ \A j \in Places(u) : k <= j
        BY <1>1, <1>7, <1>10 DEF IsFirst
    <2>2. \A i \in Places(u) : (\A j \in Places(u) : i <= j) => i = k
        BY <2>1, <1>7, <1>1
    <2>3. First(u) \in Places(u) /\ \A j \in Places(u) : First(u) <= j
        BY <2>1, Zenon DEF First
    <2>4. First(u) = k
        BY <2>2, <2>3
    <2>5. k \in 0 .. n - 1
        BY <1>10 DEF IsFirst
    <2> QED BY <2>4, <2>5, <1>4 DEF Entry
  <1> QED BY <1>6, <1>8, <1>9, <1>10

\* The same in one formula, to be used of the next state too.
Finds(s, n) ==
    /\ Listed = {s[k] : k \in 0 .. n - 1}
    /\ \A u : Found(u) <=> \E k \in 0 .. n - 1 : node[s[k]].tid = u
    /\ \A u : Found(u) => \E k : IsFirst(node, s, n, u, k)
    /\ \A u, k : IsFirst(node, s, n, u, k) => First(u) = k /\ Entry(u) = s[k]
AllFind == \A n, s : IsList(head, node, s, n) => Finds(s, n)

LEMMA AllFindAlways == AllFind
  <1>1. ASSUME NEW n, NEW s, IsList(head, node, s, n) PROVE Finds(s, n)
      BY <1>1, Lists, Zenon DEF Finds
  <1> QED BY <1>1, Zenon DEF AllFind

-----------------------------------------------------------------------------
(* The inductive invariant.                                                *)

Listing(s, n) == /\ IsList(head, node, s, n)
                 /\ {s[k] : k \in 0 .. n - 1} = used \ Removed

Cutting == {"remove_cut", "remove_free"}

\* The list has the blocks in use but for those under removal; it begins with the
\* block of Main, which is never removed.
CatalogInv ==
    /\ \E n, s : Listing(s, n)
    /\ node[head].tid = Main
    /\ \A b \in used : node[b].tid # NULL
    /\ \A t \in Tids : at[t] \in Cutting => ptr[t] \in used /\ node[ptr[t]].tid = t
    /\ \A t \in Workers : at[t] = "remove_store" => ptr[t] = head

\* Running mutexes are numbered as they are allocated.
MutexInv ==
    /\ \A b \in Blocks : node[b].mutex \in 0 .. regs
    /\ \A b \in used : node[b].mutex # 0
    /\ \A t \in Tids : mtx[t] \in 0 .. regs

MainPlaces == {"run", "create_wait", "create_detach", "create_end", "join_get", "join_lock",
               "join_get2", "join_unlock", "joined", "cancel_set"}
Joining == {"join_get", "join_lock", "join_get2", "join_unlock", "joined"}
Starting == {"register", "start_get", "start_lock", "start_post"}

PlaceInv ==
    /\ at[Main] \in MainPlaces
    /\ \A t \in Workers : at[t] \in ThreadPlaces \ (MainPlaces \ {"run"})
    /\ \A t \in Workers : at[t] = "walk" => back[t] \in {"test", "exit_get"}
    /\ at[Main] \in Joining \cup {"cancel_set"} => arg[Main] \in known

\* One thread starts at a time, while its creator waits.
StartInv ==
    /\ passed.sem = 1 => at[Main] = "create_wait"
    /\ \A t \in Workers : at[t] \in Starting =>
        /\ at[Main] = "create_wait" /\ passed.sem = 0 /\ due[t] = 0
        /\ passed.thread \in {t, NULL}
        /\ \A u \in Workers : at[u] \in Starting => u = t
        /\ at[t] = "register" => passed.thread = NULL /\ regs <= starts
        /\ at[t] = "start_lock" => mtx[t] = IF passed.thread = t THEN MutexOf(t) ELSE 0

\* A thread that may be joined has its running mutex locked, or is past its end.
Holds(u) == Found(u) /\ MutexOf(u) # 0 /\ running[MutexOf(u)] = u
Good(u) == Released(u) \/ Holds(u)

JoinInv ==
    /\ \A u \in known \ ended : Good(u)
    /\ \A u \in Workers : passed.thread = u =>
         Good(u) \/ (at[u] \in {"start_get", "start_lock"} /\ Found(u))
    /\ \A u \in Workers : arg[Main] = u /\ u \notin ended =>
         /\ at[Main] = "join_lock" => \/ Released(u)
                                      \/ mtx[Main] # 0 /\ running[mtx[Main]] = u
         /\ at[Main] \in {"join_get2", "join_unlock", "joined"} => Released(u)

\* What a thread has pushed is in its entry, then in the list it runs.
Cleaned(t) == \/ Released(t)
              \/ at[t] \in {"exit_get", "exit_unlock"}
              \/ at[t] = "walk" /\ back[t] = "exit_get"
InEntry(t) == IF Found(t) THEN node[Entry(t)].cleaners ELSE 0
DueInv == \A t \in Workers :
    /\ Cleaned(t) => due[t] = 0
    /\ at[t] = "exit_run" => due[t] <= left[t]
    /\ ~Cleaned(t) /\ at[t] # "exit_run" => due[t] <= InEntry(t)

ThreadInv == /\ ThreadTypeOK /\ CatalogInv /\ MutexInv /\ PlaceInv /\ StartInv
             /\ JoinInv /\ DueInv

-----------------------------------------------------------------------------
(* How a step changes the list.                                            *)

\* What the first block of a thread is.
LEMMA Entries ==
    ASSUME CatalogInv
    PROVE  /\ head \in used \ Removed /\ head \in Blocks
           /\ Listed = used \ Removed
           /\ \A u : Found(u) => /\ Entry(u) \in used \ Removed /\ Entry(u) \in Blocks
                                 /\ node[Entry(u)].tid = u /\ u # NULL
  <1>1. PICK n, s : Listing(s, n)
      BY DEF CatalogInv
  <1>2. IsList(head, node, s, n) /\ used \ Removed = {s[k] : k \in 0 .. n - 1}
      BY <1>1 DEF Listing
  <1>3. n \in Nat \ {0} /\ s \in [0 .. n - 1 -> Blocks] /\ s[0] = head
      BY <1>2 DEF IsList
  <1>4. Finds(s, n)
      BY <1>2, AllFindAlways, Zenon DEF AllFind
  <1>5. head \in used \ Removed /\ head \in Blocks
      BY <1>2, <1>3
  <1>6. ASSUME NEW u, Found(u)
        PROVE  /\ Entry(u) \in used \ Removed /\ Entry(u) \in Blocks
               /\ node[Entry(u)].tid = u /\ u # NULL
    <2>1. PICK k : IsFirst(node, s, n, u, k)
        BY <1>4, <1>6, Zenon DEF Finds
    <2>2. Entry(u) = s[k] /\ k \in 0 .. n - 1 /\ node[s[k]].tid = u
        BY <2>1, <1>4 DEF Finds, IsFirst
    <2> QED BY <2>2, <1>2, <1>3 DEF CatalogInv
  <1> QED BY <1>2, <1>4, <1>5, <1>6 DEF Finds

\* The thread u keeps its first block, with its running mutex.
Keeps(u) ==
    /\ Found(u)' <=> Found(u)
    /\ Found(u) => Entry(u)' = Entry(u) /\ node'[Entry(u)].mutex = node[Entry(u)].mutex

\* Links and ids of the blocks of the list do not change.
LEMMA SameList ==
    ASSUME CatalogInv, head' = head, (used \ Removed)' = used \ Removed,
           \A b \in used \ Removed : node'[b].next = node[b].next /\ node'[b].tid = node[b].tid
                                     /\ node'[b].mutex = node[b].mutex
    PROVE  (\E n, s : Listing(s, n))' /\ \A u : Keeps(u)
  <1>1. PICK n, s : Listing(s, n)
      BY DEF CatalogInv
  <1>2. IsList(head, node, s, n) /\ {s[k] : k \in 0 .. n - 1} = used \ Removed
      BY <1>1 DEF Listing
  <1>3. \A k \in 0 .. n - 1 : /\ s[k] \in used \ Removed
                              /\ node'[s[k]].next = node[s[k]].next
                              /\ node'[s[k]].tid = node[s[k]].tid
      BY <1>2
  <1>4. IsList(head, node, s, n)'
      BY <1>2, <1>3 DEF IsList
  <1>5. Listing(s, n)'
      BY <1>2, <1>4 DEF Listing
  <1>6. Finds(s, n) /\ Finds(s, n)'
    <2>1. AllFind /\ AllFind'
        BY AllFindAlways, PTL
    <2>2. Finds(s, n)
        BY <2>1, <1>2, Zenon DEF AllFind
    <2>3. Finds(s, n)'
        BY <2>1, <1>4, Zenon DEF AllFind
    <2> QED BY <2>2, <2>3
  <1>7. ASSUME NEW u PROVE Keeps(u)
    <2>1. Found(u)' <=> Found(u)
      <3>1. Found(u) <=> \E k \in 0 .. n - 1 : node[s[k]].tid = u
          BY <1>6, Zenon DEF Finds
      <3>2. Found(u)' <=> \E k \in 0 .. n - 1 : node'[s[k]].tid = u
          BY <1>6, Zenon DEF Finds
      <3> QED BY <3>1, <3>2, <1>3
    <2>2. ASSUME Found(u)
          PROVE  Entry(u)' = Entry(u) /\ node'[Entry(u)].mutex = node[Entry(u)].mutex
      <3>1. PICK k : IsFirst(node, s, n, u, k)
          BY <1>6, <2>2, Zenon DEF Finds
      <3>2. IsFirst(node', s, n, u, k)
        <4>1. \A j \in 0 .. k - 1 : j \in 0 .. n - 1
            BY <3>1, <1>2 DEF IsFirst, IsList
        <4> QED BY <3>1, <4>1, <1>3 DEF IsFirst
      <3>3. Entry(u) = s[k]
          BY <3>1, <1>6, Zenon DEF Finds
      <3>4. Entry(u)' = s[k]
          BY <3>2, <1>6, Zenon DEF Finds
      <3>5. k \in 0 .. n - 1
          BY <3>1 DEF IsFirst
      <3> QED BY <3>3, <3>4, <3>5, <1>3
    <2> QED BY <2>1, <2>2, Zenon DEF Keeps
  <1> QED BY <1>5, <1>7, Zenon

\* A block under removal stays under removal as long as its thread is at it.
LEMMA RemovedSame ==
    ASSUME ThreadTypeOK, NEW t \in Tids, at[t] \notin Cutting,
           NEW x, at' = [at EXCEPT ![t] = x], x \notin Cutting,
           \A u \in Tids \ {t} : ptr'[u] = ptr[u]
    PROVE  Removed' = Removed
  <1>1. Removed = {ptr[u] : u \in {v \in Tids : at[v] \in Cutting}}
      BY DEF Removed, Cutting
  <1>2. Removed' = {ptr'[u] : u \in {v \in Tids : at'[v] \in Cutting}}
      BY DEF Removed, Cutting
  <1>3. \A u \in Tids : (at'[u] \in Cutting <=> at[u] \in Cutting)
                        /\ (at[u] \in Cutting => u # t)
      BY DEF ThreadTypeOK
  <1> QED BY <1>1, <1>2, <1>3

\* The other blocks of a list that has got one more.
LEMMA RegisterNode ==
    ASSUME ThreadTypeOK, CatalogInv, NEW t \in Workers, Register(t),
           NEW n, NEW s, Listing(s, n)
    PROVE  \E b \in Blocks \ used :
             /\ used' = used \cup {b} /\ head' = head
             /\ node'[b] = Node(t, regs + 1)
             /\ node'[s[n - 1]] = [node[s[n - 1]] EXCEPT !.next = b]
             /\ \A a \in Blocks \ {b, s[n - 1]} : node'[a] = node[a]
  <1>1. IsList(head, node, s, n) /\ {s[k] : k \in 0 .. n - 1} = used \ Removed
      BY DEF Listing
  <1>2. n \in Nat \ {0} /\ s \in [0 .. n - 1 -> Blocks] /\ n - 1 \in 0 .. n - 1
      BY <1>1 DEF IsList
  <1>3. head # NULL
      BY Entries, ThreadAssumption
  <1>4. (CHOOSE a \in Listed : node[a].next = NULL) = s[n - 1]
    <2>1. Listed = {s[k] : k \in 0 .. n - 1}
        BY <1>1, Entries
    <2>2. \A k \in 0 .. n - 1 : node[s[k]].next = NULL <=> k = n - 1
      <3>1. ASSUME NEW k \in 0 .. n - 1, k # n - 1 PROVE s[k + 1] \in Blocks
          BY <3>1, <1>2
      <3> QED BY <3>1, <1>1, ThreadAssumption DEF IsList
    <2>3. s[n - 1] \in Listed /\ node[s[n - 1]].next = NULL
        BY <2>1, <2>2, <1>2
    <2>4. \A a \in Listed : node[a].next = NULL => a = s[n - 1]
        BY <2>1, <2>2
    <2> QED BY <2>3, <2>4, Zenon
  <1>5. PICK b \in Malloc :
           /\ used' = used \cup {b} /\ head' = head
           /\ node' = Link([node EXCEPT ![b] = Node(t, regs + 1)], s[n - 1], b)
      BY <1>3, <1>4, Zenon DEF Register
  <1>6. b \in Blocks \ used
    <2>1. CASE {c \in Blocks \ used : Fresh(c)} = {}
        BY <2>1, <1>5 DEF Malloc
    <2>2. CASE {c \in Blocks \ used : Fresh(c)} # {}
        BY <2>2, <1>5 DEF Malloc
    <2> QED BY <2>1, <2>2
  <1>7. s[n - 1] \in Blocks /\ s[n - 1] \in used
      BY <1>1, <1>2
  <1>8. /\ node'[b] = Node(t, regs + 1)
        /\ node'[s[n - 1]] = [node[s[n - 1]] EXCEPT !.next = b]
        /\ \A a \in Blocks \ {b, s[n - 1]} : node'[a] = node[a]
    <2> DEFINE new == [node EXCEPT ![b] = Node(t, regs + 1)]
    <2>1. new = [a \in Blocks |-> IF a = b THEN Node(t, regs + 1) ELSE node[a]]
        BY DEF ThreadTypeOK
    <2>2. \A a \in Blocks : new[a] = IF a = b THEN Node(t, regs + 1) ELSE node[a]
        BY <2>1
    <2>3. node' = [new EXCEPT ![s[n - 1]].next = b]
        BY <1>5 DEF Link
    <2> HIDE DEF new
    <2>4. /\ node'[s[n - 1]] = [new[s[n - 1]] EXCEPT !.next = b]
          /\ \A a \in Blocks \ {s[n - 1]} : node'[a] = new[a]
        BY <2>1, <2>3, <1>7
    <2> QED BY <2>2, <2>4, <1>6, <1>7
  <1> QED BY <1>5, <1>6, <1>8

\* __register_thread: the list has one more block, the last.
LEMMA RegisterList ==
    ASSUME ThreadTypeOK, CatalogInv, NEW t \in Workers, Register(t)
    PROVE  /\ (\E n, s : Listing(s, n))'
           /\ Found(t)' /\ \A u : u # t \/ Found(u) => Keeps(u)
  <1>1. PICK n, s : Listing(s, n)
      BY DEF CatalogInv
  <1>2. IsList(head, node, s, n) /\ {s[k] : k \in 0 .. n - 1} = used \ Removed
      BY <1>1 DEF Listing
  <1>3. n \in Nat \ {0} /\ s \in [0 .. n - 1 -> Blocks] /\ s[0] = head /\ n - 1 \in 0 .. n - 1
      BY <1>2 DEF IsList
  <1>4. PICK b \in Blocks \ used :
             /\ used' = used \cup {b} /\ head' = head
             /\ node'[b] = Node(t, regs + 1)
             /\ node'[s[n - 1]] = [node[s[n - 1]] EXCEPT !.next = b]
             /\ \A a \in Blocks \ {b, s[n - 1]} : node'[a] = node[a]
      BY <1>1, RegisterNode
  <1> DEFINE r == [k \in 0 .. n |-> IF k < n THEN s[k] ELSE b]
  <1>5. /\ \A k \in 0 .. n - 1 : r[k] = s[k] /\ s[k] \in Blocks \ {b}
        /\ r[n] = b /\ r \in [0 .. n -> Blocks]
    <2>1. \A k \in 0 .. n - 1 : k \in 0 .. n /\ k < n /\ s[k] \in Blocks /\ s[k] \in used
        BY <1>2, <1>3
    <2>2. n \in 0 .. n /\ ~ (n < n) /\ \A k \in 0 .. n : ~ (k < n) \/ k \in 0 .. n - 1
        BY <1>3
    <2>3. \A k \in 0 .. n : r[k] \in Blocks
        BY <2>1, <2>2
    <2> QED BY <2>1, <2>2, <2>3, <1>4
  <1>6. \A k \in 0 .. n - 1 : k # n - 1 => s[k] # s[n - 1]
      BY <1>2, <1>3 DEF IsList
  <1>7. node[s[n - 1]] \in [tid : Tids \cup {NULL}, mutex : 0 .. MaxStarts + 1,
                            cancelled : BOOLEAN, detached : BOOLEAN,
                            cleaners : Nat, next : Blocks \cup {NULL}]
      BY <1>3 DEF ThreadTypeOK
  <1>8. ASSUME NEW k \in 0 .. n - 1
        PROVE  /\ node'[s[k]].tid = node[s[k]].tid
               /\ node'[s[k]].mutex = node[s[k]].mutex
               /\ node'[s[k]].next = IF k = n - 1 THEN b ELSE node[s[k]].next
    <2>1. CASE k = n - 1
        BY <1>4, <1>7, <2>1
    <2>2. CASE k # n - 1
      <3>1. s[k] \in Blocks \ {b, s[n - 1]}
          BY <1>5, <1>6, <2>2
      <3> QED BY <1>4, <2>2, <3>1
    <2> QED BY <2>1, <2>2
  <1>9. node'[b].tid = t /\ node'[b].next = NULL
      BY <1>4 DEF Node
  <1> HIDE DEF r
  <1>10. IsList(head, node, r, n + 1)'
    <2>1. n + 1 \in Nat \ {0} /\ (n + 1) - 1 = n /\ r[0] = head'
        BY <1>3, <1>4, <1>5
    <2>2. ASSUME NEW k \in 0 .. n
          PROVE  node'[r[k]].next = IF k = n THEN NULL ELSE r[k + 1]
      <3>1. CASE k = n
          BY <3>1, <1>5, <1>9
      <3>2. CASE k = n - 1
        <4>1. k \in 0 .. n - 1 /\ k # n /\ k + 1 = n
            BY <3>2, <1>3
        <4> QED BY <4>1, <3>2, <1>5, <1>8
      <3>3. CASE k \in 0 .. n - 1 /\ k # n - 1
        <4>1. node'[r[k]].next = node[s[k]].next
            BY <3>3, <1>5, <1>8
        <4>2. node[s[k]].next = s[k + 1]
            BY <3>3, <1>2 DEF IsList
        <4>3. k + 1 \in 0 .. n - 1 /\ k # n
            BY <3>3, <1>3
        <4> QED BY <4>1, <4>2, <4>3, <1>5
      <3> QED BY <3>1, <3>2, <3>3, <1>3
    <2>3. ASSUME NEW j \in 0 .. n, NEW k \in 0 .. n, r[j] = r[k] PROVE j = k
      <3>1. \A i, l \in 0 .. n - 1 : s[i] = s[l] => i = l
          BY <1>2 DEF IsList
      <3>2. \A i \in 0 .. n : i \in 0 .. n - 1 \/ i = n
          BY <1>3
      <3> QED BY <2>3, <3>1, <3>2, <1>5
    <2> QED BY <2>1, <2>2, <2>3, <1>5 DEF IsList
  <1>11. {r[k] : k \in 0 .. (n + 1) - 1} = (used \ Removed)'
    <2>1. Removed' = Removed
      <3>1. at[t] \notin Cutting /\ "start_get" \notin Cutting /\ t \in Tids
            /\ at' = [at EXCEPT ![t] = "start_get"] /\ ptr' = ptr
          BY DEF Register, Goto, localVars, Cutting, Tids
      <3> QED BY <3>1, RemovedSame
    <2>2. b \notin Removed
        BY <1>4 DEF Removed, CatalogInv, Cutting
    <2>3. (used \ Removed)' = (used \ Removed) \cup {b}
        BY <2>1, <2>2, <1>4
    <2>4. \A k : k \in 0 .. (n + 1) - 1 <=> k \in 0 .. n - 1 \/ k = n
        BY <1>3
    <2> QED BY <2>3, <2>4, <1>2, <1>5
  <1>12. Finds(s, n) /\ Finds(r, n + 1)'
    <2>1. AllFind /\ AllFind'
        BY AllFindAlways, PTL
    <2>2. Finds(s, n)
        BY <2>1, <1>2, Zenon DEF AllFind
    <2>3. Finds(r, n + 1)'
        BY <2>1, <1>10, Zenon DEF AllFind
    <2> QED BY <2>2, <2>3
  <1>13. \A u : Found(u)' <=> \E k \in 0 .. n : node'[r[k]].tid = u
    <2>1. (n + 1) - 1 = n
        BY <1>3
    <2> QED BY <2>1, <1>12, Zenon DEF Finds
  <1>14. Found(t)'
    <2>1. n \in 0 .. n
        BY <1>3
    <2> QED BY <2>1, <1>13, <1>5, <1>9
  <1>15. ASSUME NEW u, Found(u) PROVE Keeps(u)
    <2>1. PICK k : IsFirst(node, s, n, u, k)
        BY <1>12, <1>15, Zenon DEF Finds
    <2>2. k \in 0 .. n - 1 /\ \A j \in 0 .. k - 1 : j \in 0 .. n - 1
        BY <2>1, <1>3 DEF IsFirst
    <2>3. IsFirst(node', r, n + 1, u, k)
      <3>1. k \in 0 .. (n + 1) - 1
          BY <2>2, <1>3
      <3> QED BY <3>1, <2>1, <2>2, <1>5, <1>8 DEF IsFirst
    <2>4. Entry(u) = s[k]
        BY <2>1, <1>12, Zenon DEF Finds
    <2>5. Entry(u)' = r[k]
        BY <2>3, <1>12, Zenon DEF Finds
    <2>6. node'[r[k]].tid = u
        BY <2>3 DEF IsFirst
    <2>7. Found(u)'
      <3>1. k \in 0 .. n
          BY <2>2, <1>3
      <3> QED BY <3>1, <2>6, <1>13
    <2> QED BY <2>2, <2>4, <2>5, <2>7, <1>5, <1>8, <1>15 DEF Keeps
  <1>16. ASSUME NEW u, u # t, ~Found(u) PROVE Keeps(u)
    <2>1. \A k \in 0 .. n - 1 : node[s[k]].tid # u
        BY <1>12, <1>16, Zenon DEF Finds
    <2>2. \A k \in 0 .. n : k \in 0 .. n - 1 \/ k = n
        BY <1>3
    <2>3. \A k \in 0 .. n : node'[r[k]].tid # u
        BY <2>1, <2>2, <1>5, <1>8, <1>9, <1>16
    <2> QED BY <2>3, <1>13, <1>16, Zenon DEF Keeps
  <1>17. (\E m, q : Listing(q, m))'
    <2>1. Listing(r, n + 1)'
        BY <1>10, <1>11 DEF Listing
    <2> QED BY <2>1, Zenon
  <1> QED BY <1>14, <1>15, <1>16, <1>17, Zenon

\* The list without the block at i.
LEMMA CutList ==
    ASSUME NEW h, NEW nodes, NEW n, NEW s, IsList(h, nodes, s, n),
           NEW i \in 1 .. n - 1, NEW more,
           \A k \in 0 .. n - 1 :
               more[s[k]].next = IF k = i - 1 THEN nodes[s[i]].next ELSE nodes[s[k]].next
    PROVE  \E r : /\ IsList(h, more, r, n - 1)
                  /\ \A k \in 0 .. n - 2 : r[k] = IF k < i THEN s[k] ELSE s[k + 1]
  <1> DEFINE r == [k \in 0 .. n - 2 |-> IF k < i THEN s[k] ELSE s[k + 1]]
  <1>1. /\ n \in Nat \ {0} /\ s \in [0 .. n - 1 -> Blocks] /\ s[0] = h
        /\ n - 1 \in Nat \ {0} /\ (n - 1) - 1 = n - 2 /\ i \in Nat
      BY DEF IsList
  <1>2. ASSUME NEW k \in 0 .. n - 2
        PROVE  /\ k \in 0 .. n - 1 /\ k + 1 \in 0 .. n - 1
               /\ k < i => r[k] = s[k]
               /\ ~ (k < i) => r[k] = s[k + 1]
               /\ r[k] \in Blocks
      BY <1>1
  <1>3. r \in [0 .. n - 2 -> Blocks] /\ r[0] = h
      BY <1>1, <1>2
  <1> HIDE DEF r
  <1>4. ASSUME NEW k \in 0 .. n - 2
        PROVE  more[r[k]].next = IF k = n - 2 THEN NULL ELSE r[k + 1]
    <2>1. CASE k < i - 1
      <3>1. k \in 0 .. n - 1 /\ k # i - 1 /\ k # n - 1 /\ k < i
            /\ k + 1 \in 0 .. n - 2 /\ k + 1 < i /\ k # n - 2
          BY <2>1, <1>1
      <3>2. nodes[s[k]].next = s[k + 1]
          BY <3>1 DEF IsList
      <3> QED BY <3>1, <3>2, <1>2
    <2>2. CASE k = i - 1
      <3>1. k \in 0 .. n - 1 /\ k < i /\ i \in 0 .. n - 1 /\ (k = n - 2 <=> i = n - 1) /\ k + 1 = i
          BY <2>2, <1>1
      <3>2. more[r[k]].next = nodes[s[i]].next
          BY <3>1, <2>2, <1>2
      <3>3. nodes[s[i]].next = IF i = n - 1 THEN NULL ELSE s[i + 1]
          BY <3>1 DEF IsList
      <3>4. i # n - 1 => i \in 0 .. n - 2 /\ ~ (i < i)
          BY <1>1
      <3> QED BY <3>1, <3>2, <3>3, <3>4, <1>2
    <2>3. CASE k >= i
      <3>1. k + 1 \in 0 .. n - 1 /\ k + 1 # i - 1 /\ ~ (k < i) /\ (k = n - 2 <=> k + 1 = n - 1)
          BY <2>3, <1>1
      <3>2. more[r[k]].next = nodes[s[k + 1]].next
          BY <3>1, <1>2
      <3>3. nodes[s[k + 1]].next = IF k + 1 = n - 1 THEN NULL ELSE s[(k + 1) + 1]
          BY <3>1 DEF IsList
      <3>4. k # n - 2 => k + 1 \in 0 .. n - 2 /\ ~ (k + 1 < i)
          BY <2>3, <1>1
      <3> QED BY <3>1, <3>2, <3>3, <3>4, <1>2
    <2> QED BY <2>1, <2>2, <2>3, <1>1
  <1>5. ASSUME NEW j \in 0 .. n - 2, NEW k \in 0 .. n - 2, r[j] = r[k] PROVE j = k
    <2>1. \A a, b \in 0 .. n - 1 : s[a] = s[b] => a = b
        BY DEF IsList
    <2>2. j \in 0 .. n - 1 /\ j + 1 \in 0 .. n - 1 /\ k \in 0 .. n - 1 /\ k + 1 \in 0 .. n - 1
        BY <1>2
    <2>3. CASE j < i /\ k < i
        BY <2>1, <2>2, <2>3, <1>2, <1>5
    <2>4. CASE j < i /\ ~ (k < i)
      <3>1. s[j] = s[k + 1] /\ j # k + 1
          BY <2>4, <1>1, <1>2, <1>5
      <3> QED BY <3>1, <2>1, <2>2
    <2>5. CASE ~ (j < i) /\ k < i
      <3>1. s[j + 1] = s[k] /\ j + 1 # k
          BY <2>5, <1>1, <1>2, <1>5
      <3> QED BY <3>1, <2>1, <2>2
    <2>6. CASE ~ (j < i) /\ ~ (k < i)
      <3>1. s[j + 1] = s[k + 1]
          BY <2>6, <1>2, <1>5
      <3>2. j + 1 = k + 1
          BY <3>1, <2>1, <2>2
      <3> QED BY <3>2
    <2> QED BY <2>3, <2>4, <2>5, <2>6
  <1>6. IsList(h, more, r, n - 1)
      BY <1>1, <1>3, <1>4, <1>5 DEF IsList
  <1>7. \A k \in 0 .. n - 2 : r[k] = IF k < i THEN s[k] ELSE s[k + 1]
      BY <1>2
  <1> QED BY <1>6, <1>7

\* __remove_thread: the block leaves the list and is under removal.
LEMMA RemoveList ==
    ASSUME ThreadTypeOK, CatalogInv, NEW t \in Workers, Remove(t), Found(t)
    PROVE  /\ (\E n, s : Listing(s, n))'
           /\ \A u : u # t => Keeps(u)
           /\ head' = head /\ used' = used
           /\ \A b \in Blocks : node'[b].tid = node[b].tid /\ node'[b].mutex = node[b].mutex
           /\ ptr'[t] = Entry(t) /\ at' = [at EXCEPT ![t] = "remove_cut"]
           /\ \A u \in Tids \ {t} : ptr'[u] = ptr[u]
  <1>1. PICK n, s : Listing(s, n)
      BY DEF CatalogInv
  <1>2. IsList(head, node, s, n) /\ {s[k] : k \in 0 .. n - 1} = used \ Removed
      BY <1>1 DEF Listing
  <1>3. n \in Nat \ {0} /\ s \in [0 .. n - 1 -> Blocks] /\ s[0] = head
      BY <1>2 DEF IsList
  <1>4. Finds(s, n)
      BY <1>2, AllFindAlways, Zenon DEF AllFind
  <1>5. PICK i : IsFirst(node, s, n, t, i)
      BY <1>4, Zenon DEF Finds
  <1>6. First(t) = i /\ Entry(t) = s[i]
      BY <1>4, <1>5, Zenon DEF Finds
  <1>7. i \in 1 .. n - 1 /\ i - 1 \in 0 .. n - 1 /\ node[s[i]].tid = t
    <2>1. node[s[0]].tid # t
        BY <1>3, ThreadAssumption DEF CatalogInv
    <2> QED BY <2>1, <1>3, <1>5 DEF IsFirst
  <1>8. Nth[i - 1] = s[i - 1]
    <2>1. \A k \in Nat : Nth[k] = IF k < n THEN s[k] ELSE NULL
        BY <1>2, NthOfList, Zenon
    <2> QED BY <2>1, <1>3, <1>7
  <1>9. /\ head' = head /\ used' = used
        /\ node' = Link(node, s[i - 1], node[s[i]].next)
        /\ ptr' = [ptr EXCEPT ![t] = Entry(t)]
        /\ at' = [at EXCEPT ![t] = "remove_cut"]
      BY <1>6, <1>7, <1>8 DEF Remove, Unlink, Goto
  <1>10. s[i - 1] \in Blocks /\ s[i] \in Blocks
      BY <1>3, <1>7
  <1>11. \A b \in Blocks : /\ node'[b].tid = node[b].tid /\ node'[b].mutex = node[b].mutex
                           /\ node'[b].next = IF b = s[i - 1] THEN node[s[i]].next
                                                              ELSE node[b].next
      BY <1>9, <1>10 DEF Link, ThreadTypeOK
  <1>12. \A k \in 0 .. n - 1 :
            node'[s[k]].next = IF k = i - 1 THEN node[s[i]].next ELSE node[s[k]].next
    <2>1. \A k \in 0 .. n - 1 : s[k] \in Blocks /\ (s[k] = s[i - 1] <=> k = i - 1)
        BY <1>2, <1>3, <1>7 DEF IsList
    <2> QED BY <2>1, <1>11
  <1>13. PICK r : /\ IsList(head, node', r, n - 1)
                  /\ \A k \in 0 .. n - 2 : r[k] = IF k < i THEN s[k] ELSE s[k + 1]
      BY <1>2, <1>7, <1>12, CutList
  <1>14. IsList(head, node, r, n - 1)'
      BY <1>9, <1>13 DEF IsList
  <1>15. (n - 1) - 1 = n - 2 /\ t \in Tids
      BY <1>3 DEF Tids
  <1>16. {r[k] : k \in 0 .. (n - 1) - 1} = (used \ Removed)'
    <2>1. Removed' = Removed \cup {s[i]}
      <3>1. Removed = {ptr[u] : u \in {v \in Tids : at[v] \in Cutting}}
          BY DEF Removed, Cutting
      <3>2. Removed' = {ptr'[u] : u \in {v \in Tids : at'[v] \in Cutting}}
          BY DEF Removed, Cutting
      <3>3. at[t] \notin Cutting
          BY DEF Remove, Cutting
      <3>4. \A u \in Tids : /\ at'[u] \in Cutting <=> at[u] \in Cutting \/ u = t
                            /\ ptr'[u] = IF u = t THEN s[i] ELSE ptr[u]
          BY <1>6, <1>9, <1>15 DEF ThreadTypeOK, Cutting
      <3> QED BY <3>1, <3>2, <3>3, <3>4, <1>15
    <2>2. (used \ Removed)' = {s[k] : k \in 0 .. n - 1} \ {s[i]}
        BY <2>1, <1>2, <1>9
    <2>3. ASSUME NEW k \in 0 .. n - 2 PROVE r[k] \in {s[j] : j \in 0 .. n - 1} \ {s[i]}
      <3>1. k \in 0 .. n - 1 /\ k + 1 \in 0 .. n - 1 /\ i \in 0 .. n - 1
          BY <1>3, <1>7
      <3>2. r[k] = IF k < i THEN s[k] ELSE s[k + 1]
          BY <1>13
      <3>3. CASE k < i
        <4>1. k # i
            BY <3>3
        <4> QED BY <4>1, <3>1, <3>2, <3>3, <1>2 DEF IsList
      <3>4. CASE ~ (k < i)
        <4>1. k + 1 # i
            BY <3>4, <1>7
        <4> QED BY <4>1, <3>1, <3>2, <3>4, <1>2 DEF IsList
      <3> QED BY <3>3, <3>4
    <2>4. ASSUME NEW k \in 0 .. n - 1, s[k] # s[i]
          PROVE  \E j \in 0 .. n - 2 : r[j] = s[k]
      <3>1. CASE k < i
        <4>1. k \in 0 .. n - 2
            BY <3>1, <1>3, <1>7
        <4> QED BY <4>1, <3>1, <1>13
      <3>2. CASE ~ (k < i)
        <4>1. k - 1 \in 0 .. n - 2 /\ ~ (k - 1 < i) /\ (k - 1) + 1 = k
          <5>1. k # i
              BY <2>4
          <5> QED BY <5>1, <3>2, <1>3, <1>7
        <4>2. r[k - 1] = s[k]
            BY <4>1, <1>13
        <4> QED BY <4>1, <4>2
      <3> QED BY <3>1, <3>2
    <2>5. ASSUME NEW b PROVE b \in {r[k] : k \in 0 .. n - 2} <=> b \in (used \ Removed)'
        BY <2>2, <2>3, <2>4
    <2> QED BY <2>5, <1>15
  <1>17. (\E m, q : Listing(q, m))'
    <2>1. Listing(r, n - 1)'
        BY <1>14, <1>16 DEF Listing
    <2> QED BY <2>1, Zenon
  <1>18. Finds(r, n - 1)'
    <2>1. AllFind'
        BY AllFindAlways, PTL
    <2> QED BY <2>1, <1>14, Zenon DEF AllFind
  <1>19. \A k \in 0 .. n - 2 : /\ k \in 0 .. n - 1 /\ k + 1 \in 0 .. n - 1
                               /\ s[k] \in Blocks /\ s[k + 1] \in Blocks
                               /\ k < i => r[k] = s[k]
                               /\ ~ (k < i) => r[k] = s[k + 1]
      BY <1>3, <1>13
  <1>20. ASSUME NEW u, u # t, Found(u) PROVE Keeps(u)
    <2>1. PICK k : IsFirst(node, s, n, u, k)
        BY <1>4, <1>20, Zenon DEF Finds
    <2>2. Entry(u) = s[k] /\ k \in 0 .. n - 1 /\ s[k] \in Blocks /\ node[s[k]].tid = u
        BY <2>1, <1>3, <1>4 DEF Finds, IsFirst
    <2> DEFINE q == IF k < i THEN k ELSE k - 1
    <2>3. q \in 0 .. n - 2 /\ r[q] = s[k]
      <3>1. k # i
          BY <2>2, <1>7, <1>20
      <3>2. CASE k < i
        <4>1. k \in 0 .. n - 2
            BY <3>2, <2>2, <1>3, <1>7
        <4> QED BY <4>1, <3>2, <1>19
      <3>3. CASE ~ (k < i)
        <4>1. k - 1 \in 0 .. n - 2 /\ ~ (k - 1 < i) /\ (k - 1) + 1 = k
            BY <3>1, <3>3, <2>2, <1>3, <1>7
        <4> QED BY <4>1, <3>3, <1>19
      <3> QED BY <3>2, <3>3
    <2>4. ASSUME NEW j \in 0 .. q - 1 PROVE node'[r[j]].tid # u
      <3>1. j \in 0 .. n - 2 /\ j \in 0 .. k - 1 /\ (~ (j < i) => j + 1 \in 0 .. k - 1)
          BY <2>2, <2>3, <1>3, <1>7
      <3>2. \A l \in 0 .. k - 1 : node[s[l]].tid # u
          BY <2>1 DEF IsFirst
      <3> QED BY <3>1, <3>2, <1>11, <1>19
    <2>5. node'[r[q]].tid = u
        BY <2>2, <2>3, <1>11
    <2> HIDE DEF q
    <2>6. IsFirst(node', r, n - 1, u, q)
        BY <2>3, <2>4, <2>5, <1>15 DEF IsFirst
    <2>7. Entry(u)' = r[q]
        BY <2>6, <1>18, Zenon DEF Finds
    <2>8. Found(u)'
      <3>1. q \in 0 .. (n - 1) - 1
          BY <2>3, <1>15
      <3> QED BY <3>1, <2>5, <1>18, Zenon DEF Finds
    <2> QED BY <2>2, <2>3, <2>7, <2>8, <1>11, <1>20 DEF Keeps
  <1>21. ASSUME NEW u, u # t, ~Found(u) PROVE Keeps(u)
    <2>1. \A k \in 0 .. n - 1 : node[s[k]].tid # u
        BY <1>4, <1>21, Zenon DEF Finds
    <2>2. \A k \in 0 .. n - 2 : node'[r[k]].tid # u
        BY <2>1, <1>11, <1>19
    <2>3. ~ Found(u)'
        BY <2>2, <1>15, <1>18 DEF Finds
    <2> QED BY <2>3, <1>21, Zenon DEF Keeps
  <1>22. ptr'[t] = Entry(t) /\ \A u \in Tids \ {t} : ptr'[u] = ptr[u]
      BY <1>9, <1>15 DEF ThreadTypeOK
  <1> QED BY <1>9, <1>11, <1>17, <1>20, <1>21, <1>22, Zenon

-----------------------------------------------------------------------------
(* The catalog, step by step.                                               *)

\* A step that changes neither the list nor what is under removal.
Frame ==
    /\ head' = head /\ used' = used
    /\ \A b \in Blocks : /\ node'[b].next = node[b].next /\ node'[b].tid = node[b].tid
                         /\ node'[b].mutex = node[b].mutex
    /\ \A u \in Tids : at[u] \in Cutting \/ at'[u] \in Cutting =>
                           at'[u] = at[u] /\ ptr'[u] = ptr[u]
    /\ \A u \in Workers : at'[u] = "remove_store" =>
                              ptr'[u] = head \/ (at'[u] = at[u] /\ ptr'[u] = ptr[u])

LEMMA CatalogFrame ==
    ASSUME ThreadInv, Frame
    PROVE  CatalogInv' /\ \A u : Keeps(u)
  <1>1. ThreadTypeOK /\ CatalogInv
      BY DEF ThreadInv
  <1>2. Removed' = Removed
    <2>1. Removed = {ptr[u] : u \in {v \in Tids : at[v] \in Cutting}}
        BY DEF Removed, Cutting
    <2>2. Removed' = {ptr'[u] : u \in {v \in Tids : at'[v] \in Cutting}}
        BY DEF Removed, Cutting
    <2> QED BY <2>1, <2>2 DEF Frame
  <1>3. used \subseteq Blocks /\ head \in Blocks
      BY <1>1, Entries DEF ThreadTypeOK
  <1>4. (\E n, s : Listing(s, n))' /\ \A u : Keeps(u)
    <2>1. \A b \in used \ Removed : /\ node'[b].next = node[b].next /\ node'[b].tid = node[b].tid
                                    /\ node'[b].mutex = node[b].mutex
        BY <1>3 DEF Frame
    <2>2. head' = head /\ (used \ Removed)' = used \ Removed
        BY <1>2 DEF Frame
    <2> QED BY <1>1, <2>1, <2>2, SameList
  <1>5. node'[head'].tid = Main /\ \A b \in used' : node'[b].tid # NULL
      BY <1>1, <1>3 DEF Frame, CatalogInv
  <1>6. \A u \in Tids : at'[u] \in Cutting => ptr'[u] \in used' /\ node'[ptr'[u]].tid = u
      BY <1>1, <1>3 DEF Frame, CatalogInv
  <1>7. \A u \in Workers : at'[u] = "remove_store" => ptr'[u] = head'
      BY <1>1 DEF Frame, CatalogInv
  <1> QED BY <1>4, <1>5, <1>6, <1>7, Zenon DEF CatalogInv

\* The cleaners of an entry are not among what the list is made of.
LEMMA CleanersOnly ==
    ASSUME ThreadTypeOK, NEW e \in Blocks, NEW v, node' = [node EXCEPT ![e].cleaners = v]
    PROVE  \A b \in Blocks : /\ node'[b].next = node[b].next /\ node'[b].tid = node[b].tid
                             /\ node'[b].mutex = node[b].mutex
  <1>1. node'[e] = [node[e] EXCEPT !.cleaners = v]
        /\ \A b \in Blocks \ {e} : node'[b] = node[b]
      BY DEF ThreadTypeOK
  <1>2. node[e] \in [tid : Tids \cup {NULL}, mutex : 0 .. MaxStarts + 1,
                    cancelled : BOOLEAN, detached : BOOLEAN,
                    cleaners : Nat, next : Blocks \cup {NULL}]
      BY DEF ThreadTypeOK
  <1> QED BY <1>1, <1>2

\* The steps of Main.
LEMMA MainFrames ==
    ASSUME ThreadInv, MainStep \/ MainCalls
    PROVE  Frame
  <1>1. Main \in Tids /\ Workers \subseteq Tids
      BY DEF Tids
  <1>2. ThreadTypeOK /\ CatalogInv
      BY DEF ThreadInv
  <1>3. \A u : Found(u) => Entry(u) \in Blocks
      BY <1>2, Entries
  <1> USE DEF catalogVars, mutexVars, localVars, programVars, Goto, Cutting
  <1>4. CASE CreateWait
      BY <1>1, <1>2, <1>4 DEF Frame, ThreadTypeOK, CreateWait
  <1>5. CASE CreateDetach
      BY <1>1, <1>2, <1>3, <1>5 DEF Frame, ThreadTypeOK, CreateDetach
  <1>6. CASE CreateEnd
      BY <1>1, <1>2, <1>6 DEF Frame, ThreadTypeOK, CreateEnd
  <1>7. CASE JoinGet
      BY <1>1, <1>2, <1>7 DEF Frame, ThreadTypeOK, JoinGet, GetMutex
  <1>8. CASE JoinLock
      BY <1>1, <1>2, <1>8 DEF Frame, ThreadTypeOK, JoinLock, Locks, Owns
  <1>9. CASE JoinGet2
      BY <1>1, <1>2, <1>9 DEF Frame, ThreadTypeOK, JoinGet2, GetMutex
  <1>10. CASE JoinUnlock
      BY <1>1, <1>2, <1>10 DEF Frame, ThreadTypeOK, JoinUnlock, Unlocks, Owns
  <1>11. CASE JoinEnd
      BY <1>1, <1>2, <1>11 DEF Frame, ThreadTypeOK, JoinEnd
  <1>12. CASE CancelSet
      BY <1>1, <1>2, <1>3, <1>12 DEF Frame, ThreadTypeOK, CancelSet
  <1>13. ASSUME NEW detached \in BOOLEAN, Create(detached) PROVE Frame
      BY <1>1, <1>2, <1>13 DEF Frame, ThreadTypeOK, Create
  <1>14. ASSUME NEW u \in known, Join(u) PROVE Frame
      BY <1>1, <1>2, <1>14 DEF Frame, ThreadTypeOK, Join
  <1>15. ASSUME NEW u \in known, Detach(u) PROVE Frame
      BY <1>1, <1>2, <1>3, <1>15, SMTT(30) DEF Frame, ThreadTypeOK, Detach
  <1>16. ASSUME NEW u \in known, Cancel(u) PROVE Frame
      BY <1>1, <1>2, <1>16 DEF Frame, ThreadTypeOK, Cancel
  <1> QED BY <1>4, <1>5, <1>6, <1>7, <1>8, <1>9, <1>10, <1>11, <1>12, <1>13, <1>14, <1>15, <1>16 DEF MainStep, MainCalls

\* Those of the other threads, but for the three that change the list or its blocks.
LEMMA WorkerFrames ==
    ASSUME ThreadInv, NEW t \in Workers, Step(t) \/ Calls(t),
           ~Register(t), ~(Remove(t) /\ Found(t)), ~RemoveCut(t), ~RemoveFree(t)
    PROVE  Frame
  <1>1. t \in Tids /\ Workers \subseteq Tids
      BY DEF Tids
  <1>2. ThreadTypeOK /\ CatalogInv
      BY DEF ThreadInv
  <1>3. \A u : Found(u) => Entry(u) \in Blocks
      BY <1>2, Entries
  <1> USE DEF catalogVars, mutexVars, localVars, programVars, Goto, Cutting
  <1>4. CASE Walk(t)
      BY <1>1, <1>2, <1>4, ZenonT(30) DEF Frame, ThreadTypeOK, ThreadInv, PlaceInv, Walk
  <1>5. CASE Test(t)
      BY <1>1, <1>2, <1>5 DEF Frame, ThreadTypeOK, Test
  <1>6. CASE RegisterFails(t)
      BY <1>1, <1>2, <1>6 DEF Frame, ThreadTypeOK, RegisterFails
  <1>7. CASE StartGet(t)
      BY <1>1, <1>2, <1>7 DEF Frame, ThreadTypeOK, StartGet, GetMutex
  <1>8. CASE StartLock(t)
      BY <1>1, <1>2, <1>8 DEF Frame, ThreadTypeOK, StartLock, Locks, Owns
  <1>9. CASE StartPost(t)
      BY <1>1, <1>2, <1>9 DEF Frame, ThreadTypeOK, StartPost
  <1>10. CASE ExitClean(t)
    <2>1. head' = head /\ used' = used /\ ptr' = ptr /\ at' = [at EXCEPT ![t] = "exit_run"] /\ at[t] = "exit_clean"
        BY <1>10 DEF ExitClean
    <2>2. node' = node \/ (Found(t) /\ node' = [node EXCEPT ![Entry(t)].cleaners = 0])
        BY <1>10 DEF ExitClean
    <2>3. \A b \in Blocks : /\ node'[b].next = node[b].next /\ node'[b].tid = node[b].tid
                             /\ node'[b].mutex = node[b].mutex
        BY <1>2, <1>3, <2>2, CleanersOnly
    <2> QED BY <1>1, <1>2, <2>1, <2>3 DEF Frame, ThreadTypeOK
  <1>11. CASE ExitRun(t)
      BY <1>1, <1>2, <1>11 DEF Frame, ThreadTypeOK, ExitRun
  <1>12. CASE ExitSelf(t)
      BY <1>1, <1>2, <1>12 DEF Frame, ThreadTypeOK, ExitSelf, FindSelf
  <1>13. CASE ExitLost(t)
      BY <1>1, <1>2, <1>13 DEF Frame, ThreadTypeOK, ExitLost
  <1>14. CASE ExitGet(t)
      BY <1>1, <1>2, <1>14 DEF Frame, ThreadTypeOK, ExitGet, GetMutex
  <1>15. CASE ExitUnlock(t)
      BY <1>1, <1>2, <1>15 DEF Frame, ThreadTypeOK, ExitUnlock, Unlocks, Owns
  <1>16. CASE ExitDetached(t)
      BY <1>1, <1>2, <1>16 DEF Frame, ThreadTypeOK, ExitDetached
  <1>17. CASE RemoveHead(t)
    <2>1. head' = head /\ used' = used /\ node' = node /\ at[t] = "remove_head"
          /\ at' = [at EXCEPT ![t] = "remove_store"] /\ ptr' = [ptr EXCEPT ![t] = head]
        BY <1>17 DEF RemoveHead
    <2>2. \A u \in Tids : /\ at'[u] = IF u = t THEN "remove_store" ELSE at[u]
                          /\ ptr'[u] = IF u = t THEN head ELSE ptr[u]
        BY <1>2, <2>1 DEF ThreadTypeOK
    <2> QED BY <1>1, <2>1, <2>2 DEF Frame
  <1>18. CASE RemoveStore(t)
      BY <1>1, <1>2, <1>18 DEF Frame, ThreadTypeOK, CatalogInv, RemoveStore
  <1>19. CASE End(t)
      BY <1>1, <1>2, <1>19 DEF Frame, ThreadTypeOK, End
  <1>20. CASE PushCleaner(t)
    <2>1. head' = head /\ used' = used /\ ptr' = ptr /\ at' = at
        BY <1>20 DEF PushCleaner
    <2>2. node' = node \/ (Found(t) /\ node' = [node EXCEPT ![Entry(t)].cleaners = node[Entry(t)].cleaners + 1])
        BY <1>20 DEF PushCleaner
    <2>3. \A b \in Blocks : /\ node'[b].next = node[b].next /\ node'[b].tid = node[b].tid
                             /\ node'[b].mutex = node[b].mutex
        BY <1>2, <1>3, <2>2, CleanersOnly
    <2> QED BY <1>1, <1>2, <2>1, <2>3 DEF Frame, ThreadTypeOK
  <1>21. CASE PushFails(t)
      BY <1>1, <1>2, <1>21 DEF Frame, ThreadTypeOK, PushFails, LosesPermit
  <1>22. CASE PopCleaner(t)
    <2>1. head' = head /\ used' = used /\ ptr' = ptr /\ at' = at
        BY <1>22 DEF PopCleaner
    <2>2. node' = node \/ (Found(t) /\ node' = [node EXCEPT ![Entry(t)].cleaners = node[Entry(t)].cleaners - 1])
        BY <1>22 DEF PopCleaner
    <2>3. \A b \in Blocks : /\ node'[b].next = node[b].next /\ node'[b].tid = node[b].tid
                             /\ node'[b].mutex = node[b].mutex
        BY <1>2, <1>3, <2>2, CleanersOnly
    <2> QED BY <1>1, <1>2, <2>1, <2>3 DEF Frame, ThreadTypeOK
  <1>23. CASE TestCancel(t)
      BY <1>1, <1>2, <1>23 DEF Frame, ThreadTypeOK, TestCancel, FindSelf
  <1>24. CASE Exit(t)
      BY <1>1, <1>2, <1>24 DEF Frame, ThreadTypeOK, Exit
  <1>25. CASE Remove(t) /\ ~Found(t)
      BY <1>1, <1>2, <1>25 DEF Frame, ThreadTypeOK, Remove
  <1> QED BY <1>4, <1>5, <1>6, <1>7, <1>8, <1>9, <1>10, <1>11, <1>12, <1>13, <1>14, <1>15, <1>16, <1>17, <1>18, <1>19, <1>20, <1>21, <1>22, <1>23, <1>24, <1>25
           DEF Step, Calls, StartStep, ExitStep

\* The blocks under removal, and who removes them.
LEMMA RemovedAre ==
    Removed = {ptr[u] : u \in {v \in Tids : at[v] \in Cutting}}
  BY DEF Removed, Cutting

LEMMA RemovedAreNext ==
    Removed' = {ptr'[u] : u \in {v \in Tids : at'[v] \in Cutting}}
  BY DEF Removed, Cutting

\* A removed block loses its link.
LEMMA CutFrame ==
    ASSUME ThreadInv, NEW t \in Workers, RemoveCut(t)
    PROVE  CatalogInv' /\ \A u : Keeps(u)
  <1>1. ThreadTypeOK /\ CatalogInv /\ t \in Tids
      BY DEF ThreadInv, Tids
  <1>2. /\ head' = head /\ used' = used /\ ptr' = ptr /\ at[t] \in Cutting
        /\ node' = [node EXCEPT ![ptr[t]].next = NULL]
        /\ \A u \in Tids : at'[u] = IF u = t THEN "remove_free" ELSE at[u]
      BY <1>1 DEF RemoveCut, Link, Goto, localVars, Cutting, ThreadTypeOK
  <1>3. Removed' = Removed
    <2>1. \A u \in Tids : at'[u] \in Cutting <=> at[u] \in Cutting
        BY <1>2 DEF Cutting
    <2> QED BY <2>1, <1>2, RemovedAre, RemovedAreNext
  <1>4. ptr[t] \in Removed /\ ptr[t] \in Blocks /\ used \subseteq Blocks /\ head \in used \ Removed
      BY <1>1, <1>2, RemovedAre, Entries DEF CatalogInv, ThreadTypeOK
  <1>5. \A b \in Blocks : /\ node'[b].tid = node[b].tid /\ node'[b].mutex = node[b].mutex
                          /\ b # ptr[t] => node'[b].next = node[b].next
      BY <1>1, <1>2, <1>4 DEF ThreadTypeOK
  <1>6. (\E n, s : Listing(s, n))' /\ \A u : Keeps(u)
    <2>1. \A b \in used \ Removed : /\ node'[b].next = node[b].next /\ node'[b].tid = node[b].tid
                                    /\ node'[b].mutex = node[b].mutex
        BY <1>4, <1>5
    <2>2. head' = head /\ (used \ Removed)' = used \ Removed
        BY <1>2, <1>3
    <2> QED BY <1>1, <2>1, <2>2, SameList
  <1>7. \A u \in Tids : at'[u] \in Cutting => ptr'[u] \in used' /\ node'[ptr'[u]].tid = u
      BY <1>1, <1>2, <1>4, <1>5 DEF CatalogInv, Cutting
  <1>8. \A u \in Workers : at'[u] = "remove_store" => ptr'[u] = head'
      BY <1>1, <1>2 DEF CatalogInv, Tids
  <1>9. node'[head'].tid = Main /\ \A b \in used' : node'[b].tid # NULL
      BY <1>1, <1>2, <1>4, <1>5 DEF CatalogInv
  <1> QED BY <1>6, <1>7, <1>8, <1>9, Zenon DEF CatalogInv

\* It goes back to the heap, and is under removal no more.
LEMMA FreeFrame ==
    ASSUME ThreadInv, NEW t \in Workers, RemoveFree(t)
    PROVE  CatalogInv' /\ \A u : Keeps(u)
  <1>1. ThreadTypeOK /\ CatalogInv /\ t \in Tids
      BY DEF ThreadInv, Tids
  <1>2. /\ head' = head /\ used' = used \ {ptr[t]} /\ ptr' = ptr /\ at[t] \in Cutting
        /\ node' = [node EXCEPT ![ptr[t]].tid = NULL]
        /\ \A u \in Tids : at'[u] = IF u = t THEN "remove_head" ELSE at[u]
      BY <1>1 DEF RemoveFree, Goto, localVars, Cutting, ThreadTypeOK
  <1>3. ptr[t] \in Removed /\ ptr[t] \in Blocks /\ used \subseteq Blocks /\ head \in used \ Removed
      BY <1>1, <1>2, RemovedAre, Entries DEF CatalogInv, ThreadTypeOK
  <1>4. \A u \in Tids \ {t} : at[u] \in Cutting => ptr[u] # ptr[t]
      BY <1>1, <1>2 DEF CatalogInv
  <1>5. \A u \in Tids : at'[u] \in Cutting <=> at[u] \in Cutting /\ u # t
      BY <1>2 DEF Cutting
  <1>6. Removed' = Removed \ {ptr[t]}
      BY <1>2, <1>4, <1>5, RemovedAre, RemovedAreNext
  <1>7. (used \ Removed)' = used \ Removed
      BY <1>2, <1>3, <1>6
  <1>8. \A b \in Blocks : /\ node'[b].next = node[b].next /\ node'[b].mutex = node[b].mutex
                          /\ b # ptr[t] => node'[b].tid = node[b].tid
      BY <1>1, <1>2, <1>3 DEF ThreadTypeOK
  <1>9. (\E n, s : Listing(s, n))' /\ \A u : Keeps(u)
    <2>1. \A b \in used \ Removed : /\ node'[b].next = node[b].next /\ node'[b].tid = node[b].tid
                                    /\ node'[b].mutex = node[b].mutex
        BY <1>3, <1>8
    <2>2. head' = head
        BY <1>2
    <2> QED BY <1>1, <1>7, <2>1, <2>2, SameList
  <1>10. \A u \in Tids : at'[u] \in Cutting => ptr'[u] \in used' /\ node'[ptr'[u]].tid = u
      BY <1>1, <1>2, <1>3, <1>4, <1>5, <1>8 DEF CatalogInv
  <1>11. \A u \in Workers : at'[u] = "remove_store" => ptr'[u] = head'
      BY <1>1, <1>2 DEF CatalogInv, Tids
  <1>12. node'[head'].tid = Main /\ \A b \in used' : node'[b].tid # NULL
      BY <1>1, <1>2, <1>3, <1>8 DEF CatalogInv
  <1> QED BY <1>9, <1>10, <1>11, <1>12, Zenon DEF CatalogInv

\* The two that change the list.
LEMMA RegisterFrame ==
    ASSUME ThreadInv, NEW t \in Workers, Register(t)
    PROVE  CatalogInv' /\ Found(t)' /\ \A u : u # t \/ Found(u) => Keeps(u)
  <1>1. ThreadTypeOK /\ CatalogInv /\ t \in Tids
      BY DEF ThreadInv, Tids
  <1>2. /\ (\E n, s : Listing(s, n))'
        /\ Found(t)' /\ \A u : u # t \/ Found(u) => Keeps(u)
      BY <1>1, RegisterList
  <1>3. ptr' = ptr /\ \A u \in Tids : at'[u] = IF u = t THEN "start_get" ELSE at[u]
      BY <1>1 DEF Register, Goto, localVars, ThreadTypeOK
  <1>4. PICK n, s : Listing(s, n)
      BY <1>1 DEF CatalogInv
  <1>5. PICK b \in Blocks \ used :
             /\ used' = used \cup {b} /\ head' = head
             /\ node'[b] = Node(t, regs + 1)
             /\ node'[s[n - 1]] = [node[s[n - 1]] EXCEPT !.next = b]
             /\ \A a \in Blocks \ {b, s[n - 1]} : node'[a] = node[a]
      BY <1>1, <1>4, RegisterNode, SMTT(30)
  <1>6. s[n - 1] \in used /\ used \subseteq Blocks
    <2>1. n - 1 \in 0 .. n - 1
        BY <1>4 DEF Listing, IsList
    <2> QED BY <2>1, <1>1, <1>4 DEF Listing, ThreadTypeOK
  <1>7. node'[b].tid = t /\ \A a \in used : node'[a].tid = node[a].tid
    <2>1. node[s[n - 1]] \in [tid : Tids \cup {NULL}, mutex : 0 .. MaxStarts + 1,
                              cancelled : BOOLEAN, detached : BOOLEAN,
                              cleaners : Nat, next : Blocks \cup {NULL}]
        BY <1>1, <1>6 DEF ThreadTypeOK
    <2> QED BY <2>1, <1>5, <1>6 DEF Node
  <1>8. head \in used
      BY <1>1, Entries
  <1>9. node'[head'].tid = Main /\ \A a \in used' : node'[a].tid # NULL
      BY <1>1, <1>5, <1>7, <1>8, ThreadAssumption DEF CatalogInv
  <1>10. \A u \in Tids : at'[u] \in Cutting => ptr'[u] \in used' /\ node'[ptr'[u]].tid = u
      BY <1>1, <1>3, <1>5, <1>7 DEF CatalogInv, Cutting
  <1>11. \A u \in Workers : at'[u] = "remove_store" => ptr'[u] = head'
      BY <1>1, <1>3, <1>5 DEF CatalogInv, Tids
  <1> QED BY <1>2, <1>9, <1>10, <1>11, Zenon DEF CatalogInv

LEMMA RemoveFrame ==
    ASSUME ThreadInv, NEW t \in Workers, Remove(t), Found(t)
    PROVE  CatalogInv' /\ \A u : u # t => Keeps(u)
  <1>1. ThreadTypeOK /\ CatalogInv /\ t \in Tids
      BY DEF ThreadInv, Tids
  <1>2. /\ (\E n, s : Listing(s, n))'
        /\ \A u : u # t => Keeps(u)
        /\ head' = head /\ used' = used
        /\ \A b \in Blocks : node'[b].tid = node[b].tid /\ node'[b].mutex = node[b].mutex
        /\ ptr'[t] = Entry(t) /\ at' = [at EXCEPT ![t] = "remove_cut"]
        /\ \A u \in Tids \ {t} : ptr'[u] = ptr[u]
      BY <1>1, RemoveList
  <1>3. \A u \in Tids : at'[u] = IF u = t THEN "remove_cut" ELSE at[u]
      BY <1>1, <1>2 DEF ThreadTypeOK
  <1>4. /\ Entry(t) \in used /\ node[Entry(t)].tid = t /\ used \subseteq Blocks
        /\ head \in used
      BY <1>1, Entries DEF ThreadTypeOK
  <1>5. node'[head'].tid = Main /\ \A b \in used' : node'[b].tid # NULL
      BY <1>1, <1>2, <1>4 DEF CatalogInv
  <1>6. \A u \in Tids : at'[u] \in Cutting => ptr'[u] \in used' /\ node'[ptr'[u]].tid = u
      BY <1>1, <1>2, <1>3, <1>4 DEF CatalogInv
  <1>7. \A u \in Workers : at'[u] = "remove_store" => ptr'[u] = head'
      BY <1>1, <1>2, <1>3 DEF CatalogInv, Tids
  <1> QED BY <1>2, <1>5, <1>6, <1>7, Zenon DEF CatalogInv

\* What a step does to the entry of u: nothing, unless u registers or is removed.
Changes(u) ==
    \/ Keeps(u)
    \/ at[u] = "register" /\ at'[u] = "start_get" /\ Found(u)' /\ ~Found(u)
    \/ at[u] = "remove" /\ at'[u] \in {"remove_cut", "remove_head"}

LEMMA CatalogStep ==
    ASSUME ThreadInv, Next
    PROVE  CatalogInv' /\ \A u : Changes(u)
  <1>1. CASE MainStep \/ MainCalls
      BY <1>1, MainFrames, CatalogFrame DEF Changes
  <1>2. ASSUME NEW t \in Workers, Step(t) \/ Calls(t) PROVE CatalogInv' /\ \A u : Changes(u)
    <2>1. at \in [Tids -> ThreadPlaces] /\ t \in Tids
        BY DEF ThreadInv, ThreadTypeOK, Tids
    <2>2. CASE Register(t)
      <3>1. at[t] = "register" /\ at'[t] = "start_get"
          BY <2>1, <2>2 DEF Register, Goto
      <3> QED BY <3>1, <2>2, RegisterFrame, Zenon DEF Changes
    <2>3. CASE Remove(t) /\ Found(t)
      <3>1. at[t] = "remove" /\ at'[t] = "remove_cut"
          BY <2>1, <2>3 DEF Remove, Goto
      <3>2. CatalogInv' /\ \A u : u # t => Keeps(u)
          BY <2>3, RemoveFrame
      <3> QED BY <3>1, <3>2 DEF Changes
    <2>4. CASE RemoveCut(t)
        BY <2>4, CutFrame DEF Changes
    <2>5. CASE RemoveFree(t)
        BY <2>5, FreeFrame DEF Changes
    <2>6. CASE ~Register(t) /\ ~(Remove(t) /\ Found(t)) /\ ~RemoveCut(t) /\ ~RemoveFree(t)
        BY <1>2, <2>6, WorkerFrames, CatalogFrame DEF Changes
    <2> QED BY <2>2, <2>3, <2>4, <2>5, <2>6
  <1> QED BY <1>1, <1>2 DEF Next

-----------------------------------------------------------------------------
(* Types.                                                                   *)

NodeType == [tid : Tids \cup {NULL}, mutex : 0 .. MaxStarts + 1,
             cancelled : BOOLEAN, detached : BOOLEAN,
             cleaners : Nat, next : Blocks \cup {NULL}]

\* A step writes a field of a block, or the whole of it.
LEMMA NodeWrites ==
    ASSUME node \in [Blocks -> NodeType], NEW b \in Blocks
    PROVE  /\ \A v \in Nat : [node EXCEPT ![b].cleaners = v] \in [Blocks -> NodeType]
           /\ \A v \in BOOLEAN : /\ [node EXCEPT ![b].detached = v] \in [Blocks -> NodeType]
                                 /\ [node EXCEPT ![b].cancelled = v] \in [Blocks -> NodeType]
           /\ \A v \in Blocks \cup {NULL} : [node EXCEPT ![b].next = v] \in [Blocks -> NodeType]
           /\ [node EXCEPT ![b].tid = NULL] \in [Blocks -> NodeType]
           /\ \A v \in NodeType : [node EXCEPT ![b] = v] \in [Blocks -> NodeType]
           /\ node[b].cleaners \in Nat
  BY DEF NodeType

LEMMA MutexRange ==
    ASSUME ThreadInv
    PROVE  \A u : MutexOf(u) \in 0 .. regs /\ (Found(u) => MutexOf(u) # 0)
  <1>1. ASSUME NEW u, Found(u) PROVE node[Entry(u)].mutex \in 0 .. regs \ {0}
      BY <1>1, Entries DEF ThreadInv, MutexInv
  <1>2. regs \in Nat
      BY DEF ThreadInv, ThreadTypeOK
  <1> QED BY <1>1, <1>2 DEF MutexOf

\* The types in two parts: those of the catalog, and of the rest.
CatalogTypes ==
    /\ head \in Blocks \cup {NULL} /\ used \subseteq Blocks /\ sem \in {0, 1}
    /\ node \in [Blocks -> NodeType]
LocalTypes ==
    /\ running \in [1 .. MaxStarts + 1 -> Tids \cup {NULL}]
    /\ regs \in 1 .. starts + 1 /\ starts \in 0 .. MaxStarts
    /\ passed \in [sem : {0, 1}, thread : Workers \cup {NULL}, detached : BOOLEAN]
    /\ at \in [Tids -> ThreadPlaces]
    /\ back \in [Tids -> {"run", "test", "exit_get"}]
    /\ arg \in [Tids -> Workers \cup {NULL}]
    /\ ptr \in [Tids -> Blocks \cup {NULL}]
    /\ self \in [Tids -> Tids \cup {NULL}]
    /\ mtx \in [Tids -> 0 .. MaxStarts + 1]
    /\ left \in [Tids -> Nat] /\ due \in [Tids -> Nat]
    /\ known \subseteq Workers /\ ended \subseteq known

LEMMA TypeParts == ThreadTypeOK <=> CatalogTypes /\ LocalTypes
  BY DEF ThreadTypeOK, CatalogTypes, LocalTypes, NodeType

LEMMA MainTypes ==
    ASSUME ThreadInv, MainStep \/ MainCalls
    PROVE  CatalogTypes' /\ LocalTypes'
  <1>1. Main \in Tids /\ Workers \subseteq Tids /\ MaxStarts \in Nat
      BY ThreadAssumption DEF Tids
  <1>2. CatalogTypes /\ LocalTypes /\ CatalogInv
      BY TypeParts DEF ThreadInv
  <1>3. /\ \A u : Found(u) => Entry(u) \in Blocks
        /\ \A u : MutexOf(u) \in 0 .. MaxStarts + 1
    <2>1. regs \in Nat /\ regs <= MaxStarts + 1
        BY <1>1, <1>2 DEF LocalTypes
    <2> QED BY <1>1, <1>2, <2>1, Entries, MutexRange
  <1>4. \A b \in Blocks : node[b].cleaners \in Nat /\ node[b].next \in Blocks \cup {NULL}
      BY <1>2 DEF CatalogTypes, NodeType
  <1> USE DEF catalogVars, mutexVars, localVars, programVars, Goto
  <1>5. CASE CreateWait
    <2>1. CatalogTypes'
        BY <1>1, <1>2, <1>5 DEF CatalogTypes, LocalTypes, CreateWait
    <2>2. passed' \in [sem : {0, 1}, thread : Workers \cup {NULL}, detached : BOOLEAN]
      <3>1. passed.sem = 1 /\ passed' = [passed EXCEPT !.sem = 0]
          BY <1>2, <1>5 DEF LocalTypes, CreateWait
      <3> QED BY <1>2, <3>1 DEF LocalTypes
    <2>3. LocalTypes'
        BY <1>1, <1>2, <1>5, <2>2 DEF LocalTypes, ThreadPlaces, CreateWait
    <2> QED BY <2>1, <2>3
  <1>6. CASE CreateDetach
    <2>1. CatalogTypes'
      <3>1. CASE Found(passed.thread)
        <4>1. Entry(passed.thread) \in Blocks
            BY <1>3, <3>1
        <4> QED BY <1>2, <1>6, <3>1, <4>1, NodeWrites DEF CatalogTypes, CreateDetach
      <3>2. CASE ~Found(passed.thread)
          BY <1>2, <1>6, <3>2 DEF CatalogTypes, CreateDetach
      <3> QED BY <3>1, <3>2
    <2>2. LocalTypes'
        BY <1>1, <1>2, <1>3, <1>6 DEF LocalTypes, ThreadPlaces, CreateDetach
    <2> QED BY <2>1, <2>2
  <1>7. CASE CreateEnd
    <2>1. CatalogTypes'
        BY <1>1, <1>2, <1>7 DEF CatalogTypes, LocalTypes, CreateEnd
    <2>2. LocalTypes'
        BY <1>1, <1>2, <1>3, <1>7 DEF LocalTypes, ThreadPlaces, CreateEnd
    <2> QED BY <2>1, <2>2
  <1>8. CASE JoinGet
    <2>1. CatalogTypes'
        BY <1>1, <1>2, <1>8 DEF CatalogTypes, LocalTypes, JoinGet, GetMutex
    <2>2. LocalTypes'
        BY <1>1, <1>2, <1>3, <1>8 DEF LocalTypes, ThreadPlaces, JoinGet, GetMutex
    <2> QED BY <2>1, <2>2
  <1>9. CASE JoinLock
    <2>1. CatalogTypes'
        BY <1>1, <1>2, <1>9 DEF CatalogTypes, LocalTypes, JoinLock, Locks, Owns
    <2>2. LocalTypes'
        BY <1>1, <1>2, <1>3, <1>9 DEF LocalTypes, ThreadPlaces, JoinLock, Locks, Owns
    <2> QED BY <2>1, <2>2
  <1>10. CASE JoinGet2
    <2>1. CatalogTypes'
        BY <1>1, <1>2, <1>10 DEF CatalogTypes, LocalTypes, JoinGet2, GetMutex
    <2>2. LocalTypes'
        BY <1>1, <1>2, <1>3, <1>10 DEF LocalTypes, ThreadPlaces, JoinGet2, GetMutex
    <2> QED BY <2>1, <2>2
  <1>11. CASE JoinUnlock
    <2>1. CatalogTypes'
        BY <1>1, <1>2, <1>11 DEF CatalogTypes, LocalTypes, JoinUnlock, Unlocks, Owns
    <2>2. LocalTypes'
        BY <1>1, <1>2, <1>3, <1>11 DEF LocalTypes, ThreadPlaces, JoinUnlock, Unlocks, Owns
    <2> QED BY <2>1, <2>2
  <1>12. CASE JoinEnd
    <2>1. CatalogTypes'
        BY <1>1, <1>2, <1>12 DEF CatalogTypes, LocalTypes, JoinEnd
    <2>2. LocalTypes'
        BY <1>1, <1>2, <1>3, <1>12 DEF LocalTypes, ThreadPlaces, JoinEnd
    <2> QED BY <2>1, <2>2
  <1>13. CASE CancelSet
    <2>1. CatalogTypes'
      <3>1. CASE Found(arg[Main])
        <4>1. Entry(arg[Main]) \in Blocks
            BY <1>3, <3>1
        <4> QED BY <1>2, <1>13, <3>1, <4>1, NodeWrites DEF CatalogTypes, CancelSet
      <3>2. CASE ~Found(arg[Main])
          BY <1>2, <1>13, <3>2 DEF CatalogTypes, CancelSet
      <3> QED BY <3>1, <3>2
    <2>2. LocalTypes'
        BY <1>1, <1>2, <1>3, <1>13 DEF LocalTypes, ThreadPlaces, CancelSet
    <2> QED BY <2>1, <2>2
  <1>14. ASSUME NEW detached \in BOOLEAN, Create(detached) PROVE CatalogTypes' /\ LocalTypes'
    <2>1. CatalogTypes'
        BY <1>1, <1>2, <1>14 DEF CatalogTypes, LocalTypes, Create
    <2>2. passed' \in [sem : {0, 1}, thread : Workers \cup {NULL}, detached : BOOLEAN]
        BY <1>14 DEF Create
    <2>3. starts' = starts + 1 /\ starts' \in 0 .. MaxStarts /\ regs' \in 1 .. starts' + 1
          /\ running' = running /\ known' = known /\ UNCHANGED localVars
        BY <1>1, <1>2, <1>14 DEF LocalTypes, Create
    <2>4. at' \in [Tids -> ThreadPlaces] /\ due' \in [Tids -> Nat] /\ ended' \subseteq known'
      <3>1. CASE \E w \in Workers : /\ at' = [at EXCEPT ![Main] = "create_wait", ![w] = "register"]
                                     /\ due' = [due EXCEPT ![w] = 0]
                                     /\ ended' = ended \cup ({w} \cap known)
        <4>1. PICK w \in Workers : /\ at' = [at EXCEPT ![Main] = "create_wait", ![w] = "register"]
                                  /\ due' = [due EXCEPT ![w] = 0]
                                  /\ ended' = ended \cup ({w} \cap known)
            BY <3>1
        <4>2. at \in [Tids -> ThreadPlaces] /\ due \in [Tids -> Nat] /\ ended \subseteq known
            BY <1>2 DEF LocalTypes
        <4>3. at' \in [Tids -> ThreadPlaces]
            BY <4>1, <4>2 DEF ThreadPlaces
        <4>4. due' \in [Tids -> Nat]
            BY <4>1, <4>2
        <4>5. ended' \subseteq known'
            BY <2>3, <4>1, <4>2
        <4> QED BY <4>3, <4>4, <4>5
      <3>2. CASE at' = [at EXCEPT ![Main] = "create_wait"] /\ due' = due /\ ended' = ended
          BY <1>1, <1>2, <2>3, <3>2 DEF LocalTypes, ThreadPlaces
      <3> QED BY <1>14, <3>1, <3>2 DEF Create
    <2>5. LocalTypes'
        BY <1>2, <2>2, <2>3, <2>4 DEF LocalTypes
    <2> QED BY <2>1, <2>5
  <1>15. ASSUME NEW u \in known, Join(u) PROVE CatalogTypes' /\ LocalTypes'
    <2>1. CatalogTypes'
        BY <1>1, <1>2, <1>15 DEF CatalogTypes, LocalTypes, Join
    <2>2. LocalTypes'
        BY <1>1, <1>2, <1>3, <1>15 DEF LocalTypes, ThreadPlaces, Join
    <2> QED BY <2>1, <2>2
  <1>16. ASSUME NEW u \in known, Detach(u) PROVE CatalogTypes' /\ LocalTypes'
    <2>1. CatalogTypes'
      <3>1. CASE Found(u)
        <4>1. Entry(u) \in Blocks
            BY <1>3, <3>1
        <4> QED BY <1>2, <1>16, <3>1, <4>1, NodeWrites DEF CatalogTypes, Detach
      <3>2. CASE ~Found(u)
          BY <1>2, <1>16, <3>2 DEF CatalogTypes, Detach
      <3> QED BY <3>1, <3>2
    <2>2. LocalTypes'
        BY <1>1, <1>2, <1>3, <1>16 DEF LocalTypes, ThreadPlaces, Detach
    <2> QED BY <2>1, <2>2
  <1>17. ASSUME NEW u \in known, Cancel(u) PROVE CatalogTypes' /\ LocalTypes'
    <2>1. CatalogTypes'
        BY <1>1, <1>2, <1>17 DEF CatalogTypes, LocalTypes, Cancel
    <2>2. LocalTypes'
        BY <1>1, <1>2, <1>3, <1>17 DEF LocalTypes, ThreadPlaces, Cancel
    <2> QED BY <2>1, <2>2
  <1> QED BY <1>5, <1>6, <1>7, <1>8, <1>9, <1>10, <1>11, <1>12, <1>13, <1>14, <1>15, <1>16, <1>17 DEF MainStep, MainCalls

LEMMA WorkerTypes ==
    ASSUME ThreadInv, NEW t \in Workers, Step(t) \/ Calls(t)
    PROVE  CatalogTypes' /\ LocalTypes'
  <1>1. Main \in Tids /\ Workers \subseteq Tids /\ MaxStarts \in Nat
      BY ThreadAssumption DEF Tids
  <1>2. CatalogTypes /\ LocalTypes /\ CatalogInv
      BY TypeParts DEF ThreadInv
  <1>3. /\ \A u : Found(u) => Entry(u) \in Blocks
        /\ \A u : MutexOf(u) \in 0 .. MaxStarts + 1
    <2>1. regs \in Nat /\ regs <= MaxStarts + 1
        BY <1>1, <1>2 DEF LocalTypes
    <2> QED BY <1>1, <1>2, <2>1, Entries, MutexRange
  <1>4. \A b \in Blocks : node[b].cleaners \in Nat /\ node[b].next \in Blocks \cup {NULL}
      BY <1>2 DEF CatalogTypes, NodeType
  <1> USE DEF catalogVars, mutexVars, localVars, programVars, Goto
  <1>5. CASE Walk(t)
    <2>1. CatalogTypes'
        BY <1>1, <1>2, <1>5 DEF CatalogTypes, LocalTypes, Walk
    <2>2. ptr' \in [Tids -> Blocks \cup {NULL}]
      <3>1. ptr' = [ptr EXCEPT ![t] = NULL]
            \/ (ptr[t] # NULL /\ ptr' = [ptr EXCEPT ![t] = node[ptr[t]].next])
          BY <1>5 DEF Walk
      <3>2. ptr \in [Tids -> Blocks \cup {NULL}] /\ t \in Tids
          BY <1>1, <1>2 DEF LocalTypes
      <3>3. ptr[t] # NULL => node[ptr[t]].next \in Blocks \cup {NULL}
          BY <1>4, <3>2
      <3> QED BY <3>1, <3>2, <3>3
    <2>3. self' \in [Tids -> Tids \cup {NULL}]
      <3>1. self' = self \/ self' = [self EXCEPT ![t] = NULL] \/ self' = [self EXCEPT ![t] = t]
          BY <1>5 DEF Walk
      <3> QED BY <1>1, <1>2, <3>1, ZenonT(30) DEF LocalTypes
    <2>4. at' \in [Tids -> ThreadPlaces]
        BY <1>1, <1>2, <1>5, ZenonT(30) DEF LocalTypes, ThreadPlaces, Walk
    <2>5. LocalTypes'
        BY <1>2, <1>5, <2>2, <2>3, <2>4 DEF LocalTypes, Walk
    <2> QED BY <2>1, <2>5
  <1>6. CASE Test(t)
    <2>1. CatalogTypes'
        BY <1>1, <1>2, <1>6 DEF CatalogTypes, LocalTypes, Test
    <2>2. LocalTypes'
        BY <1>1, <1>2, <1>3, <1>6 DEF LocalTypes, ThreadPlaces, Test
    <2> QED BY <2>1, <2>2
  <1>7. CASE Register(t)
    <2>1. regs < MaxStarts + 1 /\ regs < starts + 1 /\ regs \in Nat
        BY <1>1, <1>2, <1>7 DEF ThreadInv, StartInv, Starting, LocalTypes, Register
    <2>2. CatalogTypes'
      <3>1. PICK n, s : Listing(s, n)
          BY <1>2 DEF CatalogInv
      <3>2. PICK b \in Blocks \ used :
               /\ used' = used \cup {b} /\ head' = head
               /\ node'[b] = Node(t, regs + 1)
               /\ node'[s[n - 1]] = [node[s[n - 1]] EXCEPT !.next = b]
               /\ \A a \in Blocks \ {b, s[n - 1]} : node'[a] = node[a]
          BY <1>7, <3>1, RegisterNode DEF ThreadInv
      <3>3. Node(t, regs + 1) \in NodeType
          BY <1>1, <1>2, <2>1 DEF Node, NodeType, LocalTypes
      <3>4. s[n - 1] \in Blocks
        <4>1. n - 1 \in 0 .. n - 1
            BY <3>1 DEF Listing, IsList
        <4> QED BY <4>1, <3>1 DEF Listing, IsList
      <3>5. \A a \in Blocks : node'[a] \in NodeType
          BY <1>2, <3>2, <3>3, <3>4 DEF CatalogTypes, NodeType
      <3>6. node' = [a \in Blocks |-> node'[a]]
        <4>1. node \in [Blocks -> NodeType]
            BY <1>2 DEF CatalogTypes
        <4>2. DOMAIN node' = Blocks
            BY <4>1, <1>7 DEF Register, Link
        <4>3. \E f : node' = [a \in Blocks |-> f[a]]
            BY <4>1, <1>7 DEF Register, Link
        <4> QED BY <4>3
      <3>7. node' \in [Blocks -> NodeType]
          BY <3>5, <3>6
      <3>8. sem' = sem
          BY <1>7 DEF Register
      <3> QED BY <1>2, <3>2, <3>7, <3>8 DEF CatalogTypes
    <2>3. passed' \in [sem : {0, 1}, thread : Workers \cup {NULL}, detached : BOOLEAN]
        BY <1>2, <1>7 DEF LocalTypes, Register
    <2>4. LocalTypes'
      <3>1. regs' = regs + 1 /\ regs' \in 1 .. starts' + 1
          BY <1>2, <1>7, <2>1 DEF LocalTypes, Register
      <3> QED BY <1>1, <1>2, <1>7, <2>3, <3>1 DEF LocalTypes, ThreadPlaces, Register
    <2> QED BY <2>2, <2>4
  <1>8. CASE RegisterFails(t)
    <2>1. CatalogTypes'
        BY <1>1, <1>2, <1>8 DEF CatalogTypes, LocalTypes, RegisterFails
    <2>2. LocalTypes'
        BY <1>1, <1>2, <1>3, <1>8 DEF LocalTypes, ThreadPlaces, RegisterFails
    <2> QED BY <2>1, <2>2
  <1>9. CASE StartGet(t)
    <2>1. CatalogTypes'
        BY <1>1, <1>2, <1>9 DEF CatalogTypes, LocalTypes, StartGet, GetMutex
    <2>2. LocalTypes'
        BY <1>1, <1>2, <1>3, <1>9 DEF LocalTypes, ThreadPlaces, StartGet, GetMutex
    <2> QED BY <2>1, <2>2
  <1>10. CASE StartLock(t)
    <2>1. CatalogTypes'
        BY <1>1, <1>2, <1>10 DEF CatalogTypes, LocalTypes, StartLock, Locks, Owns
    <2>2. LocalTypes'
        BY <1>1, <1>2, <1>3, <1>10 DEF LocalTypes, ThreadPlaces, StartLock, Locks, Owns
    <2> QED BY <2>1, <2>2
  <1>11. CASE StartPost(t)
    <2>1. CatalogTypes'
        BY <1>1, <1>2, <1>11 DEF CatalogTypes, LocalTypes, StartPost
    <2>2. passed.sem = 0
        BY <1>11 DEF ThreadInv, StartInv, Starting, StartPost
    <2>3. passed' \in [sem : {0, 1}, thread : Workers \cup {NULL}, detached : BOOLEAN]
      <3>1. passed' = [passed EXCEPT !.sem = 1]
          BY <1>11, <2>2 DEF StartPost
      <3> QED BY <1>2, <3>1 DEF LocalTypes
    <2>4. LocalTypes'
        BY <1>1, <1>2, <1>11, <2>3 DEF LocalTypes, ThreadPlaces, StartPost
    <2> QED BY <2>1, <2>4
  <1>12. CASE ExitClean(t)
    <2>1. CatalogTypes'
      <3>1. CASE Found(t)
        <4>1. Entry(t) \in Blocks
            BY <1>3, <3>1
        <4>2. /\ head' = head /\ used' = used /\ sem' = sem
              /\ node' = [node EXCEPT ![Entry(t)].cleaners = 0] /\ 0 \in Nat
            BY <1>4, <1>12, <3>1, <4>1 DEF ExitClean
        <4>3. node' \in [Blocks -> NodeType]
            BY <1>2, <4>1, <4>2, NodeWrites DEF CatalogTypes
        <4> QED BY <1>2, <4>2, <4>3 DEF CatalogTypes
      <3>2. CASE ~Found(t)
          BY <1>2, <1>12, <3>2 DEF CatalogTypes, ExitClean, LosesPermit
      <3> QED BY <3>1, <3>2
    <2>2. LocalTypes'
      <3>1. Found(t) => node[Entry(t)].cleaners \in Nat
          BY <1>3, <1>4
      <3>2. due' \in [Tids -> Nat] /\ left' \in [Tids -> Nat]
        <4>1. due[t] \in Nat /\ due[t] + 1 \in Nat /\ (due[t] > 0 => due[t] - 1 \in Nat)
            BY <1>1, <1>2 DEF LocalTypes
        <4>2. due' = due \/ \E v \in Nat : due' = [due EXCEPT ![t] = v]
            BY <1>12, <4>1 DEF ExitClean
        <4>3. left' = left \/ \E v \in Nat : left' = [left EXCEPT ![t] = v]
            BY <1>12, <3>1 DEF ExitClean
        <4>4. due \in [Tids -> Nat] /\ left \in [Tids -> Nat]
            BY <1>2 DEF LocalTypes
        <4>5. due' \in [Tids -> Nat]
            BY <4>2, <4>4
        <4>6. left' \in [Tids -> Nat]
            BY <4>3, <4>4
        <4> QED BY <4>5, <4>6
      <3>3. at' \in [Tids -> ThreadPlaces]
          BY <1>1, <1>2, <1>12 DEF LocalTypes, ThreadPlaces, ExitClean
      <3> QED BY <1>2, <1>12, <3>2, <3>3 DEF LocalTypes, ExitClean
    <2> QED BY <2>1, <2>2
  <1>13. CASE ExitRun(t)
    <2>1. CatalogTypes'
        BY <1>1, <1>2, <1>13 DEF CatalogTypes, LocalTypes, ExitRun
    <2>2. LocalTypes'
        BY <1>1, <1>2, <1>3, <1>13 DEF LocalTypes, ThreadPlaces, ExitRun
    <2> QED BY <2>1, <2>2
  <1>14. CASE ExitSelf(t)
    <2>1. CatalogTypes'
        BY <1>1, <1>2, <1>14 DEF CatalogTypes, LocalTypes, ExitSelf, FindSelf
    <2>2. LocalTypes'
        BY <1>1, <1>2, <1>3, <1>14 DEF LocalTypes, ThreadPlaces, CatalogTypes, ExitSelf, FindSelf
    <2> QED BY <2>1, <2>2
  <1>15. CASE ExitLost(t)
    <2>1. CatalogTypes'
        BY <1>1, <1>2, <1>15 DEF CatalogTypes, LocalTypes, ExitLost
    <2>2. LocalTypes'
        BY <1>1, <1>2, <1>3, <1>15 DEF LocalTypes, ThreadPlaces, ExitLost
    <2> QED BY <2>1, <2>2
  <1>16. CASE ExitGet(t)
    <2>1. CatalogTypes'
        BY <1>1, <1>2, <1>16 DEF CatalogTypes, LocalTypes, ExitGet, GetMutex
    <2>2. LocalTypes'
        BY <1>1, <1>2, <1>3, <1>16 DEF LocalTypes, ThreadPlaces, ExitGet, GetMutex
    <2> QED BY <2>1, <2>2
  <1>17. CASE ExitUnlock(t)
    <2>1. CatalogTypes'
        BY <1>1, <1>2, <1>17 DEF CatalogTypes, LocalTypes, ExitUnlock, Unlocks, Owns
    <2>2. LocalTypes'
        BY <1>1, <1>2, <1>3, <1>17 DEF LocalTypes, ThreadPlaces, ExitUnlock, Unlocks, Owns
    <2> QED BY <2>1, <2>2
  <1>18. CASE ExitDetached(t)
    <2>1. CatalogTypes'
        BY <1>1, <1>2, <1>18 DEF CatalogTypes, LocalTypes, ExitDetached
    <2>2. LocalTypes'
        BY <1>1, <1>2, <1>3, <1>18 DEF LocalTypes, ThreadPlaces, ExitDetached
    <2> QED BY <2>1, <2>2
  <1>19. CASE Remove(t)
    <2>1. CASE Found(t)
      <3>1. /\ head' = head /\ used' = used /\ sem' = sem
            /\ ptr' = [ptr EXCEPT ![t] = Entry(t)] /\ Entry(t) \in Blocks
            /\ at' = [at EXCEPT ![t] = "remove_cut"]
          BY <1>3, <1>19, <2>1, RemoveList DEF ThreadInv, Remove
      <3>2. node' \in [Blocks -> NodeType]
        <4> DEFINE x == Nth[First(t) - 1]
                   v == node[Entry(t)].next
        <4>1. v \in Blocks \cup {NULL} /\ node \in [Blocks -> NodeType]
            BY <1>2, <1>4, <3>1 DEF CatalogTypes
        <4>2. node' = node \/ node' = [node EXCEPT ![x].next = v]
            BY <1>19, <2>1 DEF Remove, Unlink, Link
        <4> HIDE DEF x, v
        <4>3. CASE x \in Blocks
          <5>1. [node EXCEPT ![x].next = v] \in [Blocks -> NodeType]
              BY <4>1, <4>3, NodeWrites, Zenon
          <5> QED BY <4>1, <4>2, <5>1
        <4>4. CASE x \notin Blocks
          <5>1. [node EXCEPT ![x].next = v] = node
              BY <4>1, <4>4
          <5> QED BY <4>1, <4>2, <5>1
        <4> QED BY <4>3, <4>4
      <3>3. LocalTypes'
          BY <1>1, <1>2, <1>19, <3>1 DEF LocalTypes, ThreadPlaces, Remove
      <3> QED BY <1>2, <3>1, <3>2, <3>3 DEF CatalogTypes
    <2>2. CASE ~Found(t)
        BY <1>1, <1>2, <1>19, <2>2 DEF CatalogTypes, LocalTypes, ThreadPlaces, Remove
    <2> QED BY <2>1, <2>2
  <1>20. CASE RemoveCut(t)
    <2>1. CatalogTypes'
      <3>1. ptr[t] \in Blocks
          BY <1>1, <1>2, <1>20 DEF CatalogInv, CatalogTypes, Cutting, RemoveCut
      <3> QED BY <1>2, <1>20, <3>1, NodeWrites DEF CatalogTypes, RemoveCut, Link
    <2>2. LocalTypes'
        BY <1>1, <1>2, <1>3, <1>20 DEF LocalTypes, ThreadPlaces, RemoveCut, Link
    <2> QED BY <2>1, <2>2
  <1>21. CASE RemoveFree(t)
    <2>1. CatalogTypes'
      <3>1. ptr[t] \in Blocks
          BY <1>1, <1>2, <1>21 DEF CatalogInv, CatalogTypes, Cutting, RemoveFree
      <3> QED BY <1>2, <1>21, <3>1, NodeWrites DEF CatalogTypes, RemoveFree
    <2>2. LocalTypes'
        BY <1>1, <1>2, <1>3, <1>21 DEF LocalTypes, ThreadPlaces, RemoveFree
    <2> QED BY <2>1, <2>2
  <1>22. CASE RemoveHead(t)
    <2>1. CatalogTypes'
        BY <1>1, <1>2, <1>22 DEF CatalogTypes, LocalTypes, RemoveHead
    <2>2. LocalTypes'
        BY <1>1, <1>2, <1>3, <1>22 DEF LocalTypes, ThreadPlaces, CatalogTypes, RemoveHead
    <2> QED BY <2>1, <2>2
  <1>23. CASE RemoveStore(t)
    <2>1. CatalogTypes'
        BY <1>1, <1>2, <1>23 DEF CatalogTypes, LocalTypes, RemoveStore
    <2>2. LocalTypes'
        BY <1>1, <1>2, <1>3, <1>23 DEF LocalTypes, ThreadPlaces, RemoveStore
    <2> QED BY <2>1, <2>2
  <1>24. CASE End(t)
    <2>1. CatalogTypes'
        BY <1>1, <1>2, <1>24 DEF CatalogTypes, LocalTypes, End
    <2>2. LocalTypes'
        BY <1>1, <1>2, <1>3, <1>24 DEF LocalTypes, ThreadPlaces, End
    <2> QED BY <2>1, <2>2
  <1>25. CASE PushCleaner(t)
    <2>1. CatalogTypes'
      <3>1. CASE Found(t)
        <4>1. Entry(t) \in Blocks
            BY <1>3, <3>1
        <4>2. /\ head' = head /\ used' = used /\ sem' = sem
              /\ node' = [node EXCEPT ![Entry(t)].cleaners = node[Entry(t)].cleaners + 1] /\ node[Entry(t)].cleaners + 1 \in Nat
            BY <1>4, <1>25, <3>1, <4>1 DEF PushCleaner
        <4>3. node' \in [Blocks -> NodeType]
            BY <1>2, <4>1, <4>2, NodeWrites DEF CatalogTypes
        <4> QED BY <1>2, <4>2, <4>3 DEF CatalogTypes
      <3>2. CASE ~Found(t)
          BY <1>2, <1>25, <3>2 DEF CatalogTypes, PushCleaner, LosesPermit
      <3> QED BY <3>1, <3>2
    <2>2. LocalTypes'
      <3>1. Found(t) => node[Entry(t)].cleaners \in Nat
          BY <1>3, <1>4
      <3>2. due' \in [Tids -> Nat] /\ left' \in [Tids -> Nat]
        <4>1. due[t] \in Nat /\ due[t] + 1 \in Nat /\ (due[t] > 0 => due[t] - 1 \in Nat)
            BY <1>1, <1>2 DEF LocalTypes
        <4>2. due' = due \/ \E v \in Nat : due' = [due EXCEPT ![t] = v]
            BY <1>25, <4>1 DEF PushCleaner
        <4>3. left' = left \/ \E v \in Nat : left' = [left EXCEPT ![t] = v]
            BY <1>25, <3>1 DEF PushCleaner
        <4>4. due \in [Tids -> Nat] /\ left \in [Tids -> Nat]
            BY <1>2 DEF LocalTypes
        <4>5. due' \in [Tids -> Nat]
            BY <4>2, <4>4
        <4>6. left' \in [Tids -> Nat]
            BY <4>3, <4>4
        <4> QED BY <4>5, <4>6
      <3>3. at' \in [Tids -> ThreadPlaces]
          BY <1>1, <1>2, <1>25 DEF LocalTypes, ThreadPlaces, PushCleaner
      <3> QED BY <1>2, <1>25, <3>2, <3>3 DEF LocalTypes, PushCleaner
    <2> QED BY <2>1, <2>2
  <1>26. CASE PushFails(t)
    <2>1. CatalogTypes'
        BY <1>1, <1>2, <1>26 DEF CatalogTypes, LocalTypes, PushFails, LosesPermit
    <2>2. LocalTypes'
        BY <1>1, <1>2, <1>3, <1>26 DEF LocalTypes, ThreadPlaces, PushFails, LosesPermit
    <2> QED BY <2>1, <2>2
  <1>27. CASE PopCleaner(t)
    <2>1. CatalogTypes'
      <3>1. CASE Found(t)
        <4>1. Entry(t) \in Blocks
            BY <1>3, <3>1
        <4>2. /\ head' = head /\ used' = used /\ sem' = sem
              /\ node' = [node EXCEPT ![Entry(t)].cleaners = node[Entry(t)].cleaners - 1] /\ node[Entry(t)].cleaners - 1 \in Nat
            BY <1>4, <1>27, <3>1, <4>1 DEF PopCleaner
        <4>3. node' \in [Blocks -> NodeType]
            BY <1>2, <4>1, <4>2, NodeWrites DEF CatalogTypes
        <4> QED BY <1>2, <4>2, <4>3 DEF CatalogTypes
      <3>2. CASE ~Found(t)
          BY <1>2, <1>27, <3>2 DEF CatalogTypes, PopCleaner, LosesPermit
      <3> QED BY <3>1, <3>2
    <2>2. LocalTypes'
      <3>1. Found(t) => node[Entry(t)].cleaners \in Nat
          BY <1>3, <1>4
      <3>2. due' \in [Tids -> Nat] /\ left' \in [Tids -> Nat]
        <4>1. due[t] \in Nat /\ due[t] + 1 \in Nat /\ (due[t] > 0 => due[t] - 1 \in Nat)
            BY <1>1, <1>2 DEF LocalTypes
        <4>2. due' = due \/ \E v \in Nat : due' = [due EXCEPT ![t] = v]
            BY <1>27, <4>1 DEF PopCleaner
        <4>3. left' = left \/ \E v \in Nat : left' = [left EXCEPT ![t] = v]
            BY <1>27, <3>1 DEF PopCleaner
        <4>4. due \in [Tids -> Nat] /\ left \in [Tids -> Nat]
            BY <1>2 DEF LocalTypes
        <4>5. due' \in [Tids -> Nat]
            BY <4>2, <4>4
        <4>6. left' \in [Tids -> Nat]
            BY <4>3, <4>4
        <4> QED BY <4>5, <4>6
      <3>3. at' \in [Tids -> ThreadPlaces]
          BY <1>1, <1>2, <1>27 DEF LocalTypes, ThreadPlaces, PopCleaner
      <3> QED BY <1>2, <1>27, <3>2, <3>3 DEF LocalTypes, PopCleaner
    <2> QED BY <2>1, <2>2
  <1>28. CASE TestCancel(t)
    <2>1. CatalogTypes'
        BY <1>1, <1>2, <1>28 DEF CatalogTypes, LocalTypes, TestCancel, FindSelf
    <2>2. LocalTypes'
        BY <1>1, <1>2, <1>3, <1>28 DEF LocalTypes, ThreadPlaces, CatalogTypes, TestCancel, FindSelf
    <2> QED BY <2>1, <2>2
  <1>29. CASE Exit(t)
    <2>1. CatalogTypes'
        BY <1>1, <1>2, <1>29 DEF CatalogTypes, LocalTypes, Exit
    <2>2. LocalTypes'
        BY <1>1, <1>2, <1>3, <1>29 DEF LocalTypes, ThreadPlaces, Exit
    <2> QED BY <2>1, <2>2
  <1> QED BY <1>5, <1>6, <1>7, <1>8, <1>9, <1>10, <1>11, <1>12, <1>13, <1>14, <1>15, <1>16, <1>17, <1>18, <1>19, <1>20, <1>21, <1>22, <1>23, <1>24, <1>25, <1>26, <1>27, <1>28, <1>29
           DEF Step, Calls, StartStep, ExitStep

-----------------------------------------------------------------------------
(* Places of the threads, and running mutexes.                             *)

LEMMA MainPlaceStep ==
    ASSUME ThreadInv, MainStep \/ MainCalls
    PROVE  PlaceInv'
  <1>1. Main \in Tids /\ Workers \subseteq Tids /\ Main \notin Workers
      BY ThreadAssumption DEF Tids
  <1>2. PlaceInv /\ at \in [Tids -> ThreadPlaces] /\ back \in [Tids -> {"run", "test", "exit_get"}]
        /\ arg \in [Tids -> Workers \cup {NULL}] /\ known \subseteq Workers
      BY DEF ThreadInv, ThreadTypeOK
  <1> USE DEF catalogVars, mutexVars, localVars, programVars, Goto
  <1>3. CASE CreateWait
      BY <1>1, <1>2, <1>3 DEF PlaceInv, ThreadPlaces, MainPlaces, Joining, CreateWait
  <1>4. CASE CreateDetach
      BY <1>1, <1>2, <1>4 DEF PlaceInv, ThreadPlaces, MainPlaces, Joining, CreateDetach
  <1>5. CASE CreateEnd
      BY <1>1, <1>2, <1>5 DEF PlaceInv, ThreadPlaces, MainPlaces, Joining, CreateEnd
  <1>6. CASE JoinGet
      BY <1>1, <1>2, <1>6 DEF PlaceInv, ThreadPlaces, MainPlaces, Joining, JoinGet, GetMutex
  <1>7. CASE JoinLock
      BY <1>1, <1>2, <1>7 DEF PlaceInv, ThreadPlaces, MainPlaces, Joining, JoinLock, Locks, Owns
  <1>8. CASE JoinGet2
      BY <1>1, <1>2, <1>8 DEF PlaceInv, ThreadPlaces, MainPlaces, Joining, JoinGet2, GetMutex
  <1>9. CASE JoinUnlock
      BY <1>1, <1>2, <1>9 DEF PlaceInv, ThreadPlaces, MainPlaces, Joining, JoinUnlock, Unlocks, Owns
  <1>10. CASE JoinEnd
      BY <1>1, <1>2, <1>10 DEF PlaceInv, ThreadPlaces, MainPlaces, Joining, JoinEnd
  <1>11. CASE CancelSet
      BY <1>1, <1>2, <1>11 DEF PlaceInv, ThreadPlaces, MainPlaces, Joining, CancelSet
  <1>12. ASSUME NEW detached \in BOOLEAN, Create(detached) PROVE PlaceInv'
      BY <1>1, <1>2, <1>12 DEF PlaceInv, ThreadPlaces, MainPlaces, Joining, Create
  <1>13. ASSUME NEW u \in known, Join(u) PROVE PlaceInv'
      BY <1>1, <1>2, <1>13 DEF PlaceInv, ThreadPlaces, MainPlaces, Joining, Join
  <1>14. ASSUME NEW u \in known, Detach(u) PROVE PlaceInv'
      BY <1>1, <1>2, <1>14 DEF PlaceInv, ThreadPlaces, MainPlaces, Joining, Detach
  <1>15. ASSUME NEW u \in known, Cancel(u) PROVE PlaceInv'
      BY <1>1, <1>2, <1>15 DEF PlaceInv, ThreadPlaces, MainPlaces, Joining, Cancel
  <1> QED BY <1>3, <1>4, <1>5, <1>6, <1>7, <1>8, <1>9, <1>10, <1>11, <1>12, <1>13, <1>14, <1>15 DEF MainStep, MainCalls

LEMMA WorkerPlaceStep ==
    ASSUME ThreadInv, NEW t \in Workers, Step(t) \/ Calls(t)
    PROVE  PlaceInv'
  <1>1. Main \in Tids /\ Workers \subseteq Tids /\ Main \notin Workers
      BY ThreadAssumption DEF Tids
  <1>2. PlaceInv /\ at \in [Tids -> ThreadPlaces] /\ back \in [Tids -> {"run", "test", "exit_get"}]
        /\ arg \in [Tids -> Workers \cup {NULL}] /\ known \subseteq Workers
      BY DEF ThreadInv, ThreadTypeOK
  <1> USE DEF catalogVars, mutexVars, localVars, programVars, Goto
  <1>3. CASE Walk(t)
      BY <1>1, <1>2, <1>3 DEF PlaceInv, ThreadPlaces, MainPlaces, Joining, Walk
  <1>4. CASE Test(t)
      BY <1>1, <1>2, <1>4 DEF PlaceInv, ThreadPlaces, MainPlaces, Joining, Test
  <1>5. CASE Register(t)
      BY <1>1, <1>2, <1>5 DEF PlaceInv, ThreadPlaces, MainPlaces, Joining, Register
  <1>6. CASE RegisterFails(t)
      BY <1>1, <1>2, <1>6 DEF PlaceInv, ThreadPlaces, MainPlaces, Joining, RegisterFails
  <1>7. CASE StartGet(t)
      BY <1>1, <1>2, <1>7 DEF PlaceInv, ThreadPlaces, MainPlaces, Joining, StartGet, GetMutex
  <1>8. CASE StartLock(t)
      BY <1>1, <1>2, <1>8 DEF PlaceInv, ThreadPlaces, MainPlaces, Joining, StartLock, Locks, Owns
  <1>9. CASE StartPost(t)
      BY <1>1, <1>2, <1>9 DEF PlaceInv, ThreadPlaces, MainPlaces, Joining, StartPost
  <1>10. CASE ExitClean(t)
      BY <1>1, <1>2, <1>10 DEF PlaceInv, ThreadPlaces, MainPlaces, Joining, ExitClean, LosesPermit
  <1>11. CASE ExitRun(t)
      BY <1>1, <1>2, <1>11 DEF PlaceInv, ThreadPlaces, MainPlaces, Joining, ExitRun
  <1>12. CASE ExitSelf(t)
      BY <1>1, <1>2, <1>12 DEF PlaceInv, ThreadPlaces, MainPlaces, Joining, ExitSelf, FindSelf
  <1>13. CASE ExitLost(t)
      BY <1>1, <1>2, <1>13 DEF PlaceInv, ThreadPlaces, MainPlaces, Joining, ExitLost
  <1>14. CASE ExitGet(t)
      BY <1>1, <1>2, <1>14 DEF PlaceInv, ThreadPlaces, MainPlaces, Joining, ExitGet, GetMutex
  <1>15. CASE ExitUnlock(t)
      BY <1>1, <1>2, <1>15 DEF PlaceInv, ThreadPlaces, MainPlaces, Joining, ExitUnlock, Unlocks, Owns
  <1>16. CASE ExitDetached(t)
      BY <1>1, <1>2, <1>16 DEF PlaceInv, ThreadPlaces, MainPlaces, Joining, ExitDetached
  <1>17. CASE Remove(t)
      BY <1>1, <1>2, <1>17 DEF PlaceInv, ThreadPlaces, MainPlaces, Joining, Remove
  <1>18. CASE RemoveCut(t)
      BY <1>1, <1>2, <1>18 DEF PlaceInv, ThreadPlaces, MainPlaces, Joining, RemoveCut
  <1>19. CASE RemoveFree(t)
      BY <1>1, <1>2, <1>19 DEF PlaceInv, ThreadPlaces, MainPlaces, Joining, RemoveFree
  <1>20. CASE RemoveHead(t)
      BY <1>1, <1>2, <1>20 DEF PlaceInv, ThreadPlaces, MainPlaces, Joining, RemoveHead
  <1>21. CASE RemoveStore(t)
      BY <1>1, <1>2, <1>21 DEF PlaceInv, ThreadPlaces, MainPlaces, Joining, RemoveStore
  <1>22. CASE End(t)
      BY <1>1, <1>2, <1>22 DEF PlaceInv, ThreadPlaces, MainPlaces, Joining, End
  <1>23. CASE PushCleaner(t)
      BY <1>1, <1>2, <1>23 DEF PlaceInv, ThreadPlaces, MainPlaces, Joining, PushCleaner, LosesPermit
  <1>24. CASE PushFails(t)
      BY <1>1, <1>2, <1>24 DEF PlaceInv, ThreadPlaces, MainPlaces, Joining, PushFails, LosesPermit
  <1>25. CASE PopCleaner(t)
      BY <1>1, <1>2, <1>25 DEF PlaceInv, ThreadPlaces, MainPlaces, Joining, PopCleaner, LosesPermit
  <1>26. CASE TestCancel(t)
      BY <1>1, <1>2, <1>26 DEF PlaceInv, ThreadPlaces, MainPlaces, Joining, TestCancel, FindSelf
  <1>27. CASE Exit(t)
      BY <1>1, <1>2, <1>27 DEF PlaceInv, ThreadPlaces, MainPlaces, Joining, Exit
  <1> QED BY <1>3, <1>4, <1>5, <1>6, <1>7, <1>8, <1>9, <1>10, <1>11, <1>12, <1>13, <1>14, <1>15, <1>16, <1>17, <1>18, <1>19, <1>20, <1>21, <1>22, <1>23, <1>24, <1>25, <1>26, <1>27 DEF Step, Calls, StartStep, ExitStep

\* The running mutex of a thread that keeps its entry.
LEMMA KeepsMutex ==
    ASSUME NEW u, Keeps(u)
    PROVE  MutexOf(u)' = MutexOf(u) /\ (Found(u)' <=> Found(u))
  BY DEF Keeps, MutexOf

\* Only a thread that registers or is removed changes its entry.
LEMMA OthersKeep ==
    ASSUME ThreadInv, Next
    PROVE  \A u : at'[u] = at[u] \/ at[u] \notin {"register", "remove"} => Keeps(u)
  BY CatalogStep DEF Changes

LEMMA MainStartStep ==
    ASSUME ThreadInv, MainStep \/ MainCalls
    PROVE  StartInv'
  <1>1. Main \in Tids /\ Workers \subseteq Tids /\ Main \notin Workers
      BY ThreadAssumption DEF Tids
  <1>2. /\ at \in [Tids -> ThreadPlaces] /\ due \in [Tids -> Nat] /\ regs \in Nat /\ starts \in Nat
        /\ mtx \in [Tids -> 0 .. MaxStarts + 1] /\ regs <= starts + 1
        /\ passed \in [sem : {0, 1}, thread : Workers \cup {NULL}, detached : BOOLEAN]
      BY ThreadAssumption DEF ThreadInv, ThreadTypeOK
  <1>3. StartInv
      BY DEF ThreadInv
  <1>4. \A u \in Workers : at[u] \in Starting => at[Main] = "create_wait" /\ passed.sem = 0
      BY <1>3 DEF StartInv
  <1> USE DEF catalogVars, mutexVars, localVars, programVars, Goto
  <1>5. CASE CreateWait
    <2>1. passed.sem = 1 /\ passed'.sem = 0
        BY <1>2, <1>5 DEF CreateWait
    <2>2. \A w \in Workers : at[w] \notin Starting /\ at'[w] = at[w]
        BY <1>1, <1>2, <1>4, <2>1, <1>5 DEF CreateWait
    <2> QED BY <2>1, <2>2 DEF StartInv
  <1>6. CASE CreateDetach
    <2>1. at[Main] # "create_wait" /\ at'[Main] # "create_wait"
        BY <1>1, <1>2, <1>6 DEF CreateDetach
    <2>2. passed' = passed \/ passed'.sem = passed.sem
        BY <1>2, <1>6 DEF CreateDetach
    <2>3. \A w \in Workers : at[w] \notin Starting /\ at'[w] = at[w]
        BY <1>1, <1>2, <1>4, <2>1, <1>6 DEF CreateDetach
    <2> QED BY <1>2, <1>3, <2>1, <2>2, <2>3 DEF StartInv
  <1>7. CASE CreateEnd
    <2>1. at[Main] # "create_wait" /\ at'[Main] # "create_wait"
        BY <1>1, <1>2, <1>7 DEF CreateEnd
    <2>2. passed' = passed \/ passed'.sem = passed.sem
        BY <1>2, <1>7 DEF CreateEnd
    <2>3. \A w \in Workers : at[w] \notin Starting /\ at'[w] = at[w]
        BY <1>1, <1>2, <1>4, <2>1, <1>7 DEF CreateEnd
    <2> QED BY <1>2, <1>3, <2>1, <2>2, <2>3 DEF StartInv
  <1>8. CASE JoinGet
    <2>1. at[Main] # "create_wait" /\ at'[Main] # "create_wait"
        BY <1>1, <1>2, <1>8 DEF JoinGet, GetMutex
    <2>2. passed' = passed \/ passed'.sem = passed.sem
        BY <1>2, <1>8 DEF JoinGet, GetMutex
    <2>3. \A w \in Workers : at[w] \notin Starting /\ at'[w] = at[w]
        BY <1>1, <1>2, <1>4, <2>1, <1>8 DEF JoinGet, GetMutex
    <2> QED BY <1>2, <1>3, <2>1, <2>2, <2>3 DEF StartInv
  <1>9. CASE JoinLock
    <2>1. at[Main] # "create_wait" /\ at'[Main] # "create_wait"
        BY <1>1, <1>2, <1>9 DEF JoinLock, Locks, Owns
    <2>2. passed' = passed \/ passed'.sem = passed.sem
        BY <1>2, <1>9 DEF JoinLock, Locks, Owns
    <2>3. \A w \in Workers : at[w] \notin Starting /\ at'[w] = at[w]
        BY <1>1, <1>2, <1>4, <2>1, <1>9 DEF JoinLock, Locks, Owns
    <2> QED BY <1>2, <1>3, <2>1, <2>2, <2>3 DEF StartInv
  <1>10. CASE JoinGet2
    <2>1. at[Main] # "create_wait" /\ at'[Main] # "create_wait"
        BY <1>1, <1>2, <1>10 DEF JoinGet2, GetMutex
    <2>2. passed' = passed \/ passed'.sem = passed.sem
        BY <1>2, <1>10 DEF JoinGet2, GetMutex
    <2>3. \A w \in Workers : at[w] \notin Starting /\ at'[w] = at[w]
        BY <1>1, <1>2, <1>4, <2>1, <1>10 DEF JoinGet2, GetMutex
    <2> QED BY <1>2, <1>3, <2>1, <2>2, <2>3 DEF StartInv
  <1>11. CASE JoinUnlock
    <2>1. at[Main] # "create_wait" /\ at'[Main] # "create_wait"
        BY <1>1, <1>2, <1>11 DEF JoinUnlock, Unlocks, Owns
    <2>2. passed' = passed \/ passed'.sem = passed.sem
        BY <1>2, <1>11 DEF JoinUnlock, Unlocks, Owns
    <2>3. \A w \in Workers : at[w] \notin Starting /\ at'[w] = at[w]
        BY <1>1, <1>2, <1>4, <2>1, <1>11 DEF JoinUnlock, Unlocks, Owns
    <2> QED BY <1>2, <1>3, <2>1, <2>2, <2>3 DEF StartInv
  <1>12. CASE JoinEnd
    <2>1. at[Main] # "create_wait" /\ at'[Main] # "create_wait"
        BY <1>1, <1>2, <1>12 DEF JoinEnd
    <2>2. passed' = passed \/ passed'.sem = passed.sem
        BY <1>2, <1>12 DEF JoinEnd
    <2>3. \A w \in Workers : at[w] \notin Starting /\ at'[w] = at[w]
        BY <1>1, <1>2, <1>4, <2>1, <1>12 DEF JoinEnd
    <2> QED BY <1>2, <1>3, <2>1, <2>2, <2>3 DEF StartInv
  <1>13. CASE CancelSet
    <2>1. at[Main] # "create_wait" /\ at'[Main] # "create_wait"
        BY <1>1, <1>2, <1>13 DEF CancelSet
    <2>2. passed' = passed \/ passed'.sem = passed.sem
        BY <1>2, <1>13 DEF CancelSet
    <2>3. \A w \in Workers : at[w] \notin Starting /\ at'[w] = at[w]
        BY <1>1, <1>2, <1>4, <2>1, <1>13 DEF CancelSet
    <2> QED BY <1>2, <1>3, <2>1, <2>2, <2>3 DEF StartInv
  <1>14. ASSUME NEW detached \in BOOLEAN, Create(detached) PROVE StartInv'
    <2>1. \A w \in Workers : at[w] \notin Starting
        BY <1>4, <1>14 DEF Create
    <2>2. /\ at'[Main] = "create_wait" /\ passed'.sem = 0 /\ passed'.thread = NULL
          /\ regs' <= starts'
        BY <1>1, <1>2, <1>14 DEF Create
    <2>3. \A w \in Workers : at'[w] \in Starting =>
              /\ at'[w] = "register" /\ due'[w] = 0
              /\ \A v \in Workers : at'[v] \in Starting => v = w
      <3>1. CASE at' = [at EXCEPT ![Main] = "create_wait"]
          BY <1>1, <1>2, <2>1, <3>1
      <3>2. ASSUME NEW v \in Workers, due' = [due EXCEPT ![v] = 0],
                   at' = [at EXCEPT ![Main] = "create_wait", ![v] = "register"]
            PROVE  \A w \in Workers : at'[w] \in Starting =>
                       /\ at'[w] = "register" /\ due'[w] = 0
                       /\ \A x \in Workers : at'[x] \in Starting => x = w
        <4>1. \A w \in Workers : at'[w] = IF w = v THEN "register" ELSE at[w]
            BY <1>1, <1>2, <3>2
        <4>2. due'[v] = 0
            BY <1>1, <1>2, <3>2
        <4> QED BY <2>1, <4>1, <4>2
      <3> QED BY <1>14, <3>1, <3>2 DEF Create
    <2> QED BY <2>2, <2>3 DEF StartInv
  <1>15. ASSUME NEW u \in known, Join(u) PROVE StartInv'
    <2>1. at[Main] # "create_wait" /\ at'[Main] # "create_wait"
        BY <1>1, <1>2, <1>15 DEF Join
    <2>2. passed' = passed \/ passed'.sem = passed.sem
        BY <1>2, <1>15 DEF Join
    <2>3. \A w \in Workers : at[w] \notin Starting /\ at'[w] = at[w]
        BY <1>1, <1>2, <1>4, <2>1, <1>15 DEF Join
    <2> QED BY <1>2, <1>3, <2>1, <2>2, <2>3 DEF StartInv
  <1>16. ASSUME NEW u \in known, Detach(u) PROVE StartInv'
    <2>1. at[Main] # "create_wait" /\ at'[Main] # "create_wait"
        BY <1>1, <1>2, <1>16 DEF Detach
    <2>2. passed' = passed \/ passed'.sem = passed.sem
        BY <1>2, <1>16 DEF Detach
    <2>3. \A w \in Workers : at[w] \notin Starting /\ at'[w] = at[w]
        BY <1>1, <1>2, <1>4, <2>1, <1>16 DEF Detach
    <2> QED BY <1>2, <1>3, <2>1, <2>2, <2>3 DEF StartInv
  <1>17. ASSUME NEW u \in known, Cancel(u) PROVE StartInv'
    <2>1. at[Main] # "create_wait" /\ at'[Main] # "create_wait"
        BY <1>1, <1>2, <1>17 DEF Cancel
    <2>2. passed' = passed \/ passed'.sem = passed.sem
        BY <1>2, <1>17 DEF Cancel
    <2>3. \A w \in Workers : at[w] \notin Starting /\ at'[w] = at[w]
        BY <1>1, <1>2, <1>4, <2>1, <1>17 DEF Cancel
    <2> QED BY <1>2, <1>3, <2>1, <2>2, <2>3 DEF StartInv
  <1> QED BY <1>5, <1>6, <1>7, <1>8, <1>9, <1>10, <1>11, <1>12, <1>13, <1>14, <1>15, <1>16, <1>17 DEF MainStep, MainCalls

\* A step of t that is not in its start.
LEMMA StartFrame ==
    ASSUME ThreadInv, Next, NEW t \in Workers, passed' = passed, starts' = starts, regs' = regs,
           at'[Main] = at[Main], at'[t] \notin Starting,
           \A u \in Workers \ {t} : at'[u] = at[u] /\ mtx'[u] = mtx[u] /\ due'[u] = due[u]
    PROVE  StartInv'
  <1>1. StartInv
      BY DEF ThreadInv
  <1>2. \A u \in Workers \ {t} : at[u] = "start_lock" => MutexOf(u)' = MutexOf(u)
      BY OthersKeep, KeepsMutex
  <1>3. \A u \in Workers : at'[u] \in Starting => u # t /\ at'[u] = at[u]
      BY DEF Starting
  <1>4. \A u \in Workers : at'[u] \in Starting =>
            /\ at'[Main] = "create_wait" /\ passed'.sem = 0 /\ due'[u] = 0
            /\ passed'.thread \in {u, NULL}
            /\ at'[u] = "register" => passed'.thread = NULL /\ regs' <= starts'
      BY <1>1, <1>3 DEF StartInv
  <1>5. \A u \in Workers : at'[u] \in Starting => \A w \in Workers : at'[w] \in Starting => w = u
      BY <1>1, <1>3 DEF StartInv
  <1>6. \A u \in Workers : at'[u] = "start_lock" =>
            mtx'[u] = IF passed'.thread = u THEN MutexOf(u)' ELSE 0
    <2>1. ASSUME NEW u \in Workers, at'[u] = "start_lock"
          PROVE  mtx'[u] = IF passed'.thread = u THEN MutexOf(u)' ELSE 0
      <3>1. u # t /\ at[u] = "start_lock" /\ at[u] \in Starting
          BY <2>1, <1>3 DEF Starting
      <3>2. mtx[u] = IF passed.thread = u THEN MutexOf(u) ELSE 0
          BY <1>1, <3>1 DEF StartInv
      <3> QED BY <1>2, <3>1, <3>2
    <2> QED BY <2>1
  <1>7. passed'.sem = 1 => at'[Main] = "create_wait"
      BY <1>1 DEF StartInv
  <1> QED BY <1>4, <1>5, <1>6, <1>7 DEF StartInv

LEMMA WorkerStartStep ==
    ASSUME ThreadInv, NEW t \in Workers, Step(t) \/ Calls(t)
    PROVE  StartInv'
  <1>1. Main \in Tids /\ Workers \subseteq Tids /\ Main \notin Workers
      BY ThreadAssumption DEF Tids
  <1>2. /\ at \in [Tids -> ThreadPlaces] /\ due \in [Tids -> Nat] /\ regs \in Nat /\ starts \in Nat
        /\ mtx \in [Tids -> 0 .. MaxStarts + 1] /\ regs <= starts + 1
        /\ passed \in [sem : {0, 1}, thread : Workers \cup {NULL}, detached : BOOLEAN]
      BY ThreadAssumption DEF ThreadInv, ThreadTypeOK
  <1>3. StartInv
      BY DEF ThreadInv
  <1>4. \A u \in Workers : at[u] \in Starting => at[Main] = "create_wait" /\ passed.sem = 0
      BY <1>3 DEF StartInv
  <1>5. Next /\ t \in Tids /\ t # Main
      BY <1>1 DEF Next
  <1> USE DEF catalogVars, mutexVars, localVars, programVars, Goto
  <1>6. CASE Walk(t)
    <2>1. /\ passed' = passed /\ starts' = starts /\ regs' = regs
          /\ at'[Main] = at[Main] /\ at'[t] \notin Starting
          /\ \A u \in Workers \ {t} : at'[u] = at[u] /\ mtx'[u] = mtx[u] /\ due'[u] = due[u]
        BY <1>1, <1>2, <1>5, <1>6 DEF Starting, ThreadInv, PlaceInv, Walk
    <2> QED BY <1>5, <2>1, StartFrame
  <1>7. CASE Test(t)
    <2>1. /\ passed' = passed /\ starts' = starts /\ regs' = regs
          /\ at'[Main] = at[Main] /\ at'[t] \notin Starting
          /\ \A u \in Workers \ {t} : at'[u] = at[u] /\ mtx'[u] = mtx[u] /\ due'[u] = due[u]
        BY <1>1, <1>2, <1>5, <1>7 DEF Starting, Test
    <2> QED BY <1>5, <2>1, StartFrame
  <1>8. CASE Register(t)
    <2>1. at[t] \in Starting /\ at' = [at EXCEPT ![t] = "start_get"]
        BY <1>8 DEF Starting, Register
    <2>2. \A u \in Workers : at'[u] \in Starting => u = t
        BY <1>1, <1>2, <1>3, <2>1 DEF StartInv
    <2>3. at'[Main] = "create_wait" /\ at'[t] = "start_get"
        BY <1>1, <1>2, <1>4, <1>5, <2>1
    <2>4. passed'.sem = 0 /\ due'[t] = 0 /\ passed'.thread \in {t, NULL}
        BY <1>2, <1>3, <1>8, <2>1 DEF StartInv, Register
    <2> QED BY <2>2, <2>3, <2>4 DEF StartInv
  <1>9. CASE RegisterFails(t)
    <2>1. at[t] \in Starting /\ at' = [at EXCEPT ![t] = "start_get"]
        BY <1>9 DEF Starting, RegisterFails
    <2>2. \A u \in Workers : at'[u] \in Starting => u = t
        BY <1>1, <1>2, <1>3, <2>1 DEF StartInv
    <2>3. at'[Main] = "create_wait" /\ at'[t] = "start_get"
        BY <1>1, <1>2, <1>4, <1>5, <2>1
    <2>4. passed'.sem = 0 /\ due'[t] = 0 /\ passed'.thread \in {t, NULL}
        BY <1>2, <1>3, <1>9, <2>1 DEF StartInv, RegisterFails
    <2> QED BY <2>2, <2>3, <2>4 DEF StartInv
  <1>10. CASE StartGet(t)
    <2>1. at[t] \in Starting /\ at' = [at EXCEPT ![t] = "start_lock"]
        BY <1>10 DEF Starting, StartGet, GetMutex
    <2>2. \A u \in Workers : at'[u] \in Starting => u = t
        BY <1>1, <1>2, <1>3, <2>1 DEF StartInv
    <2>3. at'[Main] = "create_wait" /\ at'[t] = "start_lock"
        BY <1>1, <1>2, <1>4, <1>5, <2>1
    <2>4. passed'.sem = 0 /\ due'[t] = 0 /\ passed'.thread \in {t, NULL}
        BY <1>2, <1>3, <1>10, <2>1 DEF StartInv, StartGet, GetMutex
    <2>5. mtx'[t] = IF passed'.thread = t THEN MutexOf(t)' ELSE 0
      <3>1. mtx'[t] = MutexOf(passed.thread) /\ passed' = passed
          BY <1>2, <1>5, <1>10 DEF StartGet, GetMutex
      <3>2. passed.thread = NULL => MutexOf(passed.thread) = 0
          BY Entries DEF MutexOf, ThreadInv
      <3>3. MutexOf(t)' = MutexOf(t)
        <4>1. at[t] = "start_get"
            BY <1>10 DEF StartGet
        <4> QED BY <4>1, <1>5, OthersKeep, KeepsMutex
      <3>4. t # NULL
          BY <1>5, ThreadAssumption
      <3> QED BY <2>4, <3>1, <3>2, <3>3, <3>4
    <2> QED BY <2>2, <2>3, <2>4, <2>5 DEF StartInv
  <1>11. CASE StartLock(t)
    <2>1. at[t] \in Starting /\ at' = [at EXCEPT ![t] = "start_post"]
        BY <1>11 DEF Starting, StartLock, Locks, Owns
    <2>2. \A u \in Workers : at'[u] \in Starting => u = t
        BY <1>1, <1>2, <1>3, <2>1 DEF StartInv
    <2>3. at'[Main] = "create_wait" /\ at'[t] = "start_post"
        BY <1>1, <1>2, <1>4, <1>5, <2>1
    <2>4. passed'.sem = 0 /\ due'[t] = 0 /\ passed'.thread \in {t, NULL}
        BY <1>2, <1>3, <1>11, <2>1 DEF StartInv, StartLock, Locks, Owns
    <2> QED BY <2>2, <2>3, <2>4 DEF StartInv
  <1>12. CASE StartPost(t)
    <2>1. at[t] \in Starting /\ at' = [at EXCEPT ![t] = "run"]
        BY <1>12 DEF Starting, StartPost
    <2>2. \A u \in Workers : at'[u] \notin Starting
        BY <1>1, <1>2, <1>3, <2>1 DEF StartInv, Starting
    <2>3. at'[Main] = "create_wait"
        BY <1>1, <1>2, <1>4, <1>5, <2>1
    <2> QED BY <2>2, <2>3 DEF StartInv
  <1>13. CASE ExitClean(t)
    <2>1. /\ passed' = passed /\ starts' = starts /\ regs' = regs
          /\ at'[Main] = at[Main] /\ at'[t] \notin Starting
          /\ \A u \in Workers \ {t} : at'[u] = at[u] /\ mtx'[u] = mtx[u] /\ due'[u] = due[u]
        BY <1>1, <1>2, <1>5, <1>13 DEF Starting, ExitClean, LosesPermit
    <2> QED BY <1>5, <2>1, StartFrame
  <1>14. CASE ExitRun(t)
    <2>1. /\ passed' = passed /\ starts' = starts /\ regs' = regs
          /\ at'[Main] = at[Main] /\ at'[t] \notin Starting
          /\ \A u \in Workers \ {t} : at'[u] = at[u] /\ mtx'[u] = mtx[u] /\ due'[u] = due[u]
        BY <1>1, <1>2, <1>5, <1>14 DEF Starting, ExitRun
    <2> QED BY <1>5, <2>1, StartFrame
  <1>15. CASE ExitSelf(t)
    <2>1. /\ passed' = passed /\ starts' = starts /\ regs' = regs
          /\ at'[Main] = at[Main] /\ at'[t] \notin Starting
          /\ \A u \in Workers \ {t} : at'[u] = at[u] /\ mtx'[u] = mtx[u] /\ due'[u] = due[u]
        BY <1>1, <1>2, <1>5, <1>15 DEF Starting, ExitSelf, FindSelf
    <2> QED BY <1>5, <2>1, StartFrame
  <1>16. CASE ExitLost(t)
    <2>1. /\ passed' = passed /\ starts' = starts /\ regs' = regs
          /\ at'[Main] = at[Main] /\ at'[t] \notin Starting
          /\ \A u \in Workers \ {t} : at'[u] = at[u] /\ mtx'[u] = mtx[u] /\ due'[u] = due[u]
        BY <1>1, <1>2, <1>5, <1>16 DEF Starting, ExitLost
    <2> QED BY <1>5, <2>1, StartFrame
  <1>17. CASE ExitGet(t)
    <2>1. /\ passed' = passed /\ starts' = starts /\ regs' = regs
          /\ at'[Main] = at[Main] /\ at'[t] \notin Starting
          /\ \A u \in Workers \ {t} : at'[u] = at[u] /\ mtx'[u] = mtx[u] /\ due'[u] = due[u]
        BY <1>1, <1>2, <1>5, <1>17 DEF Starting, ExitGet, GetMutex
    <2> QED BY <1>5, <2>1, StartFrame
  <1>18. CASE ExitUnlock(t)
    <2>1. /\ passed' = passed /\ starts' = starts /\ regs' = regs
          /\ at'[Main] = at[Main] /\ at'[t] \notin Starting
          /\ \A u \in Workers \ {t} : at'[u] = at[u] /\ mtx'[u] = mtx[u] /\ due'[u] = due[u]
        BY <1>1, <1>2, <1>5, <1>18 DEF Starting, ExitUnlock, Unlocks, Owns
    <2> QED BY <1>5, <2>1, StartFrame
  <1>19. CASE ExitDetached(t)
    <2>1. /\ passed' = passed /\ starts' = starts /\ regs' = regs
          /\ at'[Main] = at[Main] /\ at'[t] \notin Starting
          /\ \A u \in Workers \ {t} : at'[u] = at[u] /\ mtx'[u] = mtx[u] /\ due'[u] = due[u]
        BY <1>1, <1>2, <1>5, <1>19 DEF Starting, ExitDetached
    <2> QED BY <1>5, <2>1, StartFrame
  <1>20. CASE Remove(t)
    <2>1. /\ passed' = passed /\ starts' = starts /\ regs' = regs
          /\ at'[Main] = at[Main] /\ at'[t] \notin Starting
          /\ \A u \in Workers \ {t} : at'[u] = at[u] /\ mtx'[u] = mtx[u] /\ due'[u] = due[u]
        BY <1>1, <1>2, <1>5, <1>20 DEF Starting, Remove
    <2> QED BY <1>5, <2>1, StartFrame
  <1>21. CASE RemoveCut(t)
    <2>1. /\ passed' = passed /\ starts' = starts /\ regs' = regs
          /\ at'[Main] = at[Main] /\ at'[t] \notin Starting
          /\ \A u \in Workers \ {t} : at'[u] = at[u] /\ mtx'[u] = mtx[u] /\ due'[u] = due[u]
        BY <1>1, <1>2, <1>5, <1>21 DEF Starting, RemoveCut
    <2> QED BY <1>5, <2>1, StartFrame
  <1>22. CASE RemoveFree(t)
    <2>1. /\ passed' = passed /\ starts' = starts /\ regs' = regs
          /\ at'[Main] = at[Main] /\ at'[t] \notin Starting
          /\ \A u \in Workers \ {t} : at'[u] = at[u] /\ mtx'[u] = mtx[u] /\ due'[u] = due[u]
        BY <1>1, <1>2, <1>5, <1>22 DEF Starting, RemoveFree
    <2> QED BY <1>5, <2>1, StartFrame
  <1>23. CASE RemoveHead(t)
    <2>1. /\ passed' = passed /\ starts' = starts /\ regs' = regs
          /\ at'[Main] = at[Main] /\ at'[t] \notin Starting
          /\ \A u \in Workers \ {t} : at'[u] = at[u] /\ mtx'[u] = mtx[u] /\ due'[u] = due[u]
        BY <1>1, <1>2, <1>5, <1>23 DEF Starting, RemoveHead
    <2> QED BY <1>5, <2>1, StartFrame
  <1>24. CASE RemoveStore(t)
    <2>1. /\ passed' = passed /\ starts' = starts /\ regs' = regs
          /\ at'[Main] = at[Main] /\ at'[t] \notin Starting
          /\ \A u \in Workers \ {t} : at'[u] = at[u] /\ mtx'[u] = mtx[u] /\ due'[u] = due[u]
        BY <1>1, <1>2, <1>5, <1>24 DEF Starting, RemoveStore
    <2> QED BY <1>5, <2>1, StartFrame
  <1>25. CASE End(t)
    <2>1. /\ passed' = passed /\ starts' = starts /\ regs' = regs
          /\ at'[Main] = at[Main] /\ at'[t] \notin Starting
          /\ \A u \in Workers \ {t} : at'[u] = at[u] /\ mtx'[u] = mtx[u] /\ due'[u] = due[u]
        BY <1>1, <1>2, <1>5, <1>25 DEF Starting, End
    <2> QED BY <1>5, <2>1, StartFrame
  <1>26. CASE PushCleaner(t)
    <2>1. /\ passed' = passed /\ starts' = starts /\ regs' = regs
          /\ at'[Main] = at[Main] /\ at'[t] \notin Starting
          /\ \A u \in Workers \ {t} : at'[u] = at[u] /\ mtx'[u] = mtx[u] /\ due'[u] = due[u]
        BY <1>1, <1>2, <1>5, <1>26 DEF Starting, PushCleaner, LosesPermit
    <2> QED BY <1>5, <2>1, StartFrame
  <1>27. CASE PushFails(t)
    <2>1. /\ passed' = passed /\ starts' = starts /\ regs' = regs
          /\ at'[Main] = at[Main] /\ at'[t] \notin Starting
          /\ \A u \in Workers \ {t} : at'[u] = at[u] /\ mtx'[u] = mtx[u] /\ due'[u] = due[u]
        BY <1>1, <1>2, <1>5, <1>27 DEF Starting, PushFails, LosesPermit
    <2> QED BY <1>5, <2>1, StartFrame
  <1>28. CASE PopCleaner(t)
    <2>1. /\ passed' = passed /\ starts' = starts /\ regs' = regs
          /\ at'[Main] = at[Main] /\ at'[t] \notin Starting
          /\ \A u \in Workers \ {t} : at'[u] = at[u] /\ mtx'[u] = mtx[u] /\ due'[u] = due[u]
        BY <1>1, <1>2, <1>5, <1>28 DEF Starting, PopCleaner, LosesPermit
    <2> QED BY <1>5, <2>1, StartFrame
  <1>29. CASE TestCancel(t)
    <2>1. /\ passed' = passed /\ starts' = starts /\ regs' = regs
          /\ at'[Main] = at[Main] /\ at'[t] \notin Starting
          /\ \A u \in Workers \ {t} : at'[u] = at[u] /\ mtx'[u] = mtx[u] /\ due'[u] = due[u]
        BY <1>1, <1>2, <1>5, <1>29 DEF Starting, TestCancel, FindSelf
    <2> QED BY <1>5, <2>1, StartFrame
  <1>30. CASE Exit(t)
    <2>1. /\ passed' = passed /\ starts' = starts /\ regs' = regs
          /\ at'[Main] = at[Main] /\ at'[t] \notin Starting
          /\ \A u \in Workers \ {t} : at'[u] = at[u] /\ mtx'[u] = mtx[u] /\ due'[u] = due[u]
        BY <1>1, <1>2, <1>5, <1>30 DEF Starting, Exit
    <2> QED BY <1>5, <2>1, StartFrame
  <1> QED BY <1>6, <1>7, <1>8, <1>9, <1>10, <1>11, <1>12, <1>13, <1>14, <1>15, <1>16, <1>17, <1>18, <1>19, <1>20, <1>21, <1>22, <1>23, <1>24, <1>25, <1>26, <1>27, <1>28, <1>29, <1>30 DEF Step, Calls, StartStep, ExitStep

\* The numbers of running mutexes, in the blocks and in the locals.
LEMMA MutexStep ==
    ASSUME ThreadInv, Next
    PROVE  MutexInv'
  <1>1. ThreadTypeOK /\ CatalogInv /\ MutexInv
      BY DEF ThreadInv
  <1>2. regs \in Nat /\ Main \in Tids /\ Workers \subseteq Tids
        /\ mtx \in [Tids -> 0 .. MaxStarts + 1]
      BY ThreadAssumption DEF ThreadInv, ThreadTypeOK, Tids
  <1>3. \A u : MutexOf(u) \in 0 .. regs
      BY MutexRange
  <1> USE DEF catalogVars, mutexVars, localVars, programVars, Goto
  <1>4. ASSUME NEW t \in Workers, Register(t) PROVE MutexInv'
    <2>1. PICK n, s : Listing(s, n)
        BY <1>1 DEF CatalogInv
    <2>2. PICK b \in Blocks \ used :
             /\ used' = used \cup {b} /\ head' = head
             /\ node'[b] = Node(t, regs + 1)
             /\ node'[s[n - 1]] = [node[s[n - 1]] EXCEPT !.next = b]
             /\ \A a \in Blocks \ {b, s[n - 1]} : node'[a] = node[a]
        BY <1>1, <1>4, <2>1, RegisterNode
    <2>3. s[n - 1] \in used \cap Blocks
      <3>1. n - 1 \in 0 .. n - 1
          BY <2>1 DEF Listing, IsList
      <3> QED BY <3>1, <2>1 DEF Listing, IsList
    <2>4. node'[b].mutex = regs + 1 /\ \A a \in Blocks \ {b} : node'[a].mutex = node[a].mutex
      <3>1. node[s[n - 1]] \in NodeType
          BY <1>1, <2>3, TypeParts DEF CatalogTypes
      <3> QED BY <2>2, <2>3, <3>1 DEF Node, NodeType
    <2>5. regs' = regs + 1 /\ mtx' = mtx
        BY <1>4 DEF Register
    <2>6. \A a \in Blocks : node'[a].mutex \in 0 .. regs'
        BY <1>1, <1>2, <2>2, <2>4, <2>5 DEF MutexInv
    <2>7. \A a \in used' : node'[a].mutex # 0
      <3>1. used \subseteq Blocks
          BY <1>1 DEF ThreadTypeOK
      <3>2. \A a \in used : node'[a].mutex # 0
          BY <1>1, <2>2, <2>4, <3>1 DEF MutexInv
      <3> QED BY <1>2, <2>2, <2>4, <3>2
    <2>8. \A u \in Tids : mtx'[u] \in 0 .. regs'
        BY <1>1, <1>2, <2>5 DEF MutexInv
    <2> QED BY <2>6, <2>7, <2>8 DEF MutexInv
  <1>5. ASSUME regs' = regs, used' \subseteq used,
               \A b \in Blocks : node'[b].mutex = node[b].mutex,
               \A u \in Tids : mtx'[u] = mtx[u] \/ mtx'[u] = 0 \/ \E w : mtx'[u] = MutexOf(w)
        PROVE  MutexInv'
    <2>1. \A u \in Tids : mtx'[u] \in 0 .. regs'
        BY <1>1, <1>2, <1>3, <1>5 DEF MutexInv
    <2>2. used \subseteq Blocks
        BY <1>1 DEF ThreadTypeOK
    <2> QED BY <1>1, <1>5, <2>1, <2>2 DEF MutexInv
  <1>6. CASE MainStep \/ MainCalls
    <2>1. used' \subseteq used /\ \A b \in Blocks : node'[b].mutex = node[b].mutex
        BY <1>6, MainFrames DEF Frame
    <2>2. regs' = regs
        BY <1>6 DEF MainStep, MainCalls, CreateWait, CreateDetach, CreateEnd, JoinGet, JoinLock,
                    JoinGet2, JoinUnlock, JoinEnd, CancelSet, Create, Join, Detach, Cancel,
                    GetMutex, Locks, Unlocks, Owns
    <2>3. \/ mtx' = mtx
          \/ \E w : mtx' = [mtx EXCEPT ![Main] = MutexOf(w)]
          \/ mtx' = [mtx EXCEPT ![Main] = 0]
        BY <1>6 DEF MainStep, MainCalls, CreateWait, CreateDetach, CreateEnd, JoinGet, JoinLock,
                    JoinGet2, JoinUnlock, JoinEnd, CancelSet, Create, Join, Detach, Cancel,
                    GetMutex, Locks, Unlocks, Owns
    <2>4. \A u \in Tids : mtx'[u] = mtx[u] \/ mtx'[u] = 0 \/ \E w : mtx'[u] = MutexOf(w)
        BY <1>2, <2>3
    <2> QED BY <1>5, <2>1, <2>2, <2>4
  <1>7. ASSUME NEW t \in Workers, Step(t) \/ Calls(t), ~Register(t) PROVE MutexInv'
    <2>1. used' \subseteq used /\ \A b \in Blocks : node'[b].mutex = node[b].mutex
      <3>1. CASE Remove(t) /\ Found(t)
          BY <1>1, <3>1, RemoveList
      <3>2. CASE RemoveCut(t)
        <4>1. node' = [node EXCEPT ![ptr[t]].next = NULL] /\ used' = used
            BY <3>2 DEF RemoveCut, Link
        <4> QED BY <1>1, <4>1 DEF ThreadTypeOK
      <3>3. CASE RemoveFree(t)
        <4>1. node' = [node EXCEPT ![ptr[t]].tid = NULL] /\ used' \subseteq used
            BY <3>3 DEF RemoveFree
        <4> QED BY <1>1, <4>1 DEF ThreadTypeOK
      <3>4. CASE ~(Remove(t) /\ Found(t)) /\ ~RemoveCut(t) /\ ~RemoveFree(t)
          BY <1>7, <3>4, WorkerFrames DEF Frame
      <3> QED BY <3>1, <3>2, <3>3, <3>4
    <2>2. /\ regs' = regs
          /\ \/ mtx' = mtx
             \/ \E w : mtx' = [mtx EXCEPT ![t] = MutexOf(w)]
             \/ mtx' = [mtx EXCEPT ![t] = 0]
      <3>1. CASE StartStep(t)
          BY <1>7, <3>1 DEF StartStep, RegisterFails, StartGet, StartLock, StartPost,
                            GetMutex, Locks, Owns
      <3>2. CASE ExitStep(t)
          BY <3>2 DEF ExitStep, ExitClean, ExitRun, ExitSelf, ExitLost, ExitGet, ExitUnlock,
                      ExitDetached, Remove, RemoveCut, RemoveFree, RemoveHead, RemoveStore, End,
                      GetMutex, Unlocks, Owns, FindSelf
      <3>3. CASE Walk(t) \/ Test(t) \/ Calls(t)
          BY <3>3 DEF Walk, Test, Calls, PushCleaner, PushFails, PopCleaner, TestCancel, Exit,
                      FindSelf
      <3> QED BY <1>7, <3>1, <3>2, <3>3 DEF Step
    <2>3. \A u \in Tids : mtx'[u] = mtx[u] \/ mtx'[u] = 0 \/ \E w : mtx'[u] = MutexOf(w)
        BY <1>2, <2>2
    <2> QED BY <1>5, <2>1, <2>2, <2>3
  <1> QED BY <1>4, <1>6, <1>7 DEF Next

-----------------------------------------------------------------------------
(* Joins.                                                                   *)

ReleasedPlaces == {"exit_detached", "remove", "remove_cut", "remove_free",
                   "remove_head", "remove_store", "end", "dead"}

LEMMA ReleasedAt ==
    ASSUME NEW u
    PROVE  (Released(u) <=> at[u] \in ReleasedPlaces) /\ (Released(u)' <=> at'[u] \in ReleasedPlaces)
  BY DEF Released, ReleasedPlaces

\* A thread that holds its running mutex goes on to hold it, or is released.
LEMMA GoodStays ==
    ASSUME ThreadInv, Next, NEW u \in Workers, Good(u), Released(u) => Released(u)',
           \A m \in 1 .. MaxStarts + 1 : running[m] = u => running'[m] = u \/ Released(u)'
    PROVE  Good(u)'
  <1>1. CASE Released(u)
      BY <1>1 DEF Good
  <1>2. CASE ~Released(u)
    <2>1. Found(u) /\ MutexOf(u) # 0 /\ running[MutexOf(u)] = u
        BY <1>2 DEF Good, Holds
    <2>2. Keeps(u)
      <3>1. at[u] # "remove"
          BY <1>2 DEF Released
      <3> QED BY <2>1, <3>1, CatalogStep, Zenon DEF Changes
    <2>3. MutexOf(u)' = MutexOf(u) /\ Found(u)'
        BY <2>1, <2>2, KeepsMutex
    <2>4. Released(u)' \/ running'[MutexOf(u)] = u
      <3>1. MutexOf(u) \in 1 .. MaxStarts + 1
          BY <2>1, MutexRange, ThreadAssumption DEF ThreadInv, ThreadTypeOK
      <3> QED BY <2>1, <3>1
    <2> QED BY <2>1, <2>3, <2>4 DEF Good, Holds
  <1> QED BY <1>1, <1>2

\* What the program of Main knows of a join under way.
Joined(u) ==
    /\ at[Main] = "join_lock" => \/ Released(u)
                                 \/ mtx[Main] # 0 /\ running[mtx[Main]] = u
    /\ at[Main] \in {"join_get2", "join_unlock", "joined"} => Released(u)

\* A thread whose creation is not complete.
Promised(u) == Good(u) \/ (at[u] \in {"start_get", "start_lock"} /\ Found(u))

LEMMA JoinParts ==
    JoinInv <=> /\ \A u \in known \ ended : Good(u)
                /\ \A u \in Workers : passed.thread = u => Promised(u)
                /\ \A u \in Workers : arg[Main] = u /\ u \notin ended => Joined(u)
  BY DEF JoinInv, Joined, Promised

LEMMA JoinPartsNext ==
    ASSUME \A u \in known' \ ended' : Good(u)',
           \A u \in Workers : passed'.thread = u => Promised(u)',
           \A u \in Workers : arg'[Main] = u /\ u \notin ended' => Joined(u)'
    PROVE  JoinInv'
  BY DEF JoinInv, Joined, Promised

\* A step of t, which only releases what is its own.
LEMMA JoinFrame ==
    ASSUME ThreadInv, Next, NEW t \in Workers,
           known' = known, ended' = ended, arg' = arg, passed'.thread = t => Promised(t)',
           passed'.thread # t => passed'.thread = passed.thread,
           at'[Main] = at[Main], mtx'[Main] = mtx[Main],
           \A u \in Workers \ {t} : at'[u] = at[u],
           Released(t) => Released(t)',
           \A u \in Workers : \A m \in 1 .. MaxStarts + 1 :
               running[m] = u => running'[m] = u \/ Released(u)'
    PROVE  JoinInv'
  <1>1. \A u \in Workers : Released(u) => Released(u)'
      BY ReleasedAt
  <1>2. \A u \in Workers : Good(u) => Good(u)'
      BY <1>1, GoodStays
  <1>3. JoinInv /\ known \subseteq Workers
      BY DEF ThreadInv, ThreadTypeOK
  <1>4. \A u \in known' \ ended' : Good(u)'
      BY <1>2, <1>3, JoinParts
  <1>5. \A u \in Workers : passed'.thread = u => Promised(u)'
    <2>1. ASSUME NEW u \in Workers, u # t, passed'.thread = u PROVE Promised(u)'
      <3>1. Promised(u)
          BY <2>1, <1>3, JoinParts
      <3>2. at'[u] = at[u] /\ (at[u] # "register" => Keeps(u))
        <4>1. at'[u] = at[u]
            BY <2>1
        <4> QED BY <4>1, OthersKeep
      <3>3. CASE Good(u)
          BY <3>3, <1>2 DEF Promised
      <3>4. CASE at[u] \in {"start_get", "start_lock"} /\ Found(u)
        <4>1. Found(u)'
            BY <3>2, <3>4, KeepsMutex
        <4> QED BY <3>2, <3>4, <4>1 DEF Promised
      <3> QED BY <3>1, <3>3, <3>4 DEF Promised
    <2> QED BY <2>1
  <1>6. \A u \in Workers : arg'[Main] = u /\ u \notin ended' => Joined(u)'
    <2>1. ASSUME NEW u \in Workers, arg'[Main] = u, u \notin ended' PROVE Joined(u)'
      <3>1. Joined(u)
          BY <2>1, <1>3, JoinParts
      <3>2. mtx[Main] # 0 => mtx[Main] \in 1 .. MaxStarts + 1
          BY DEF ThreadInv, ThreadTypeOK, Tids
      <3> QED BY <3>1, <3>2, <1>1 DEF Joined
    <2> QED BY <2>1
  <1> QED BY <1>4, <1>5, <1>6, JoinPartsNext

\* A step of a thread that has started, and unlocks nothing.
LEMMA JoinQuiet ==
    ASSUME ThreadInv, Next, NEW t \in Workers, at[t] \notin {"start_get", "start_lock"},
           known' = known, ended' = ended, arg' = arg, passed'.thread = passed.thread,
           at'[Main] = at[Main], mtx'[Main] = mtx[Main], running' = running,
           \A u \in Workers \ {t} : at'[u] = at[u],
           Released(t) => Released(t)'
    PROVE  JoinInv'
  <1>1. passed.thread = t => Good(t)
      BY JoinParts DEF ThreadInv, Promised
  <1>2. Good(t) => Good(t)'
      BY GoodStays
  <1>3. passed'.thread = t => Promised(t)'
      BY <1>1, <1>2 DEF Promised
  <1>4. \A u \in Workers : \A m \in 1 .. MaxStarts + 1 :
             running[m] = u => running'[m] = u \/ Released(u)'
      OBVIOUS
  <1> QED BY <1>3, <1>4, JoinFrame

LEMMA WorkerJoinStep ==
    ASSUME ThreadInv, NEW t \in Workers, Step(t) \/ Calls(t)
    PROVE  JoinInv'
  <1>1. Next /\ t \in Tids /\ t # Main /\ t # NULL /\ Main \in Tids /\ Workers \subseteq Tids
        /\ Main \notin Workers /\ NULL \notin Workers
      BY ThreadAssumption DEF Next, Tids
  <1>2. /\ at \in [Tids -> ThreadPlaces] /\ mtx \in [Tids -> 0 .. MaxStarts + 1]
        /\ passed \in [sem : {0, 1}, thread : Workers \cup {NULL}, detached : BOOLEAN]
        /\ running \in [1 .. MaxStarts + 1 -> Tids \cup {NULL}]
        /\ back \in [Tids -> {"run", "test", "exit_get"}] /\ PlaceInv
      BY DEF ThreadInv, ThreadTypeOK
  <1>3. passed.thread = t => Promised(t)
      BY JoinParts DEF ThreadInv
  <1> USE DEF catalogVars, mutexVars, localVars, programVars, Goto
  <1>4. CASE Walk(t)
    <2>1. /\ known' = known /\ ended' = ended /\ arg' = arg /\ passed'.thread = passed.thread
          /\ at'[Main] = at[Main] /\ mtx'[Main] = mtx[Main] /\ running' = running
          /\ \A u \in Workers \ {t} : at'[u] = at[u]
          /\ at[t] \notin {"start_get", "start_lock"}
        BY <1>1, <1>2, <1>4 DEF Walk
    <2>2. Released(t) => Released(t)'
        BY <1>1, <1>2, <1>4, ReleasedAt DEF ReleasedPlaces, PlaceInv, Walk
    <2> QED BY <1>1, <2>1, <2>2, JoinQuiet
  <1>5. CASE Test(t)
    <2>1. /\ known' = known /\ ended' = ended /\ arg' = arg /\ passed'.thread = passed.thread
          /\ at'[Main] = at[Main] /\ mtx'[Main] = mtx[Main] /\ running' = running
          /\ \A u \in Workers \ {t} : at'[u] = at[u]
          /\ at[t] \notin {"start_get", "start_lock"}
        BY <1>1, <1>2, <1>5 DEF Test
    <2>2. Released(t) => Released(t)'
        BY <1>1, <1>2, <1>5, ReleasedAt DEF ReleasedPlaces, Test
    <2> QED BY <1>1, <2>1, <2>2, JoinQuiet
  <1>6. CASE Register(t)
    <2>1. /\ known' = known /\ ended' = ended /\ arg' = arg /\ passed'.thread = t
          /\ at'[Main] = at[Main] /\ mtx'[Main] = mtx[Main] /\ running' = running
          /\ at[t] = "register" /\ at'[t] = "start_get"
          /\ \A u \in Workers \ {t} : at'[u] = at[u]
        BY <1>1, <1>2, <1>6 DEF Register
    <2>2. ~Released(t)
        BY <2>1 DEF Released
    <2>3. Promised(t)'
      <3>1. Found(t)'
          BY <1>6, RegisterFrame
      <3> QED BY <2>1, <3>1 DEF Promised
    <2> QED BY <1>1, <2>1, <2>2, <2>3, JoinFrame
  <1>7. CASE RegisterFails(t)
    <2>1. /\ known' = known /\ ended' = ended /\ arg' = arg /\ passed'.thread = passed.thread
          /\ at'[Main] = at[Main] /\ mtx'[Main] = mtx[Main] /\ running' = running
          /\ at[t] = "register"
          /\ \A u \in Workers \ {t} : at'[u] = at[u]
        BY <1>1, <1>2, <1>7 DEF RegisterFails
    <2>2. ~Released(t)
        BY <2>1 DEF Released
    <2>3. passed'.thread # t
        BY <1>1, <2>1 DEF ThreadInv, StartInv, Starting
    <2> QED BY <1>1, <2>1, <2>2, <2>3, JoinFrame
  <1>8. CASE StartGet(t)
    <2>1. /\ known' = known /\ ended' = ended /\ arg' = arg /\ passed'.thread = passed.thread
          /\ at'[Main] = at[Main] /\ mtx'[Main] = mtx[Main] /\ running' = running
          /\ at[t] = "start_get" /\ at'[t] = "start_lock"
          /\ \A u \in Workers \ {t} : at'[u] = at[u]
        BY <1>1, <1>2, <1>8 DEF StartGet, GetMutex
    <2>2. ~Released(t)
        BY <2>1 DEF Released
    <2>3. passed'.thread = t => Promised(t)'
      <3>1. Keeps(t)
          BY <1>1, <2>1, OthersKeep
      <3>2. Found(t)' <=> Found(t)
          BY <3>1, KeepsMutex
      <3>3. Good(t) => Good(t)'
          BY <1>1, <2>1, <2>2, GoodStays
      <3> QED BY <1>3, <2>1, <3>2, <3>3 DEF Promised
    <2> QED BY <1>1, <2>1, <2>2, <2>3, JoinFrame
  <1>9. CASE StartLock(t)
    <2>1. /\ known' = known /\ ended' = ended /\ arg' = arg /\ passed'.thread = passed.thread
          /\ at'[Main] = at[Main] /\ mtx'[Main] = mtx[Main]
          /\ at[t] = "start_lock"
          /\ \A u \in Workers \ {t} : at'[u] = at[u]
        BY <1>1, <1>2, <1>9 DEF StartLock, Locks, Owns
    <2>2. ~Released(t)
        BY <2>1 DEF Released
    <2>3. running' = [m \in DOMAIN running |-> IF m = mtx[t] /\ running[m] \in {NULL}
                                                 THEN t ELSE running[m]]
          /\ mtx[t] \in {m \in DOMAIN running : running[m] \in {NULL, t}} \cup {0}
        BY <1>9 DEF StartLock, Locks, Owns, CanLock
    <2>4. \A u \in Workers : \A m \in 1 .. MaxStarts + 1 : running[m] = u => running'[m] = u
        BY <1>1, <1>2, <2>3
    <2>5. passed'.thread = t => Promised(t)'
      <3>1. ASSUME passed.thread = t, ~Good(t) PROVE Holds(t)'
        <4>1. Found(t) /\ MutexOf(t) # 0
            BY <1>3, <3>1, MutexRange DEF Promised
        <4>2. mtx[t] = MutexOf(t)
            BY <2>1, <3>1 DEF ThreadInv, StartInv, Starting
        <4>3. Keeps(t)
            BY <1>1, <2>1, OthersKeep
        <4>4. Found(t)' /\ MutexOf(t)' = MutexOf(t)
            BY <4>1, <4>3, KeepsMutex
        <4>5. running'[MutexOf(t)] = t
            BY <2>3, <4>1, <4>2
        <4> QED BY <4>1, <4>4, <4>5 DEF Holds
      <3>2. Good(t) => Good(t)'
          BY <1>1, <2>1, <2>2, <2>4, GoodStays
      <3> QED BY <2>1, <3>1, <3>2 DEF Promised, Good
    <2> QED BY <1>1, <2>1, <2>2, <2>4, <2>5, JoinFrame
  <1>10. CASE StartPost(t)
    <2>1. /\ known' = known /\ ended' = ended /\ arg' = arg /\ passed'.thread = passed.thread
          /\ at'[Main] = at[Main] /\ mtx'[Main] = mtx[Main] /\ running' = running
          /\ \A u \in Workers \ {t} : at'[u] = at[u]
          /\ at[t] \notin {"start_get", "start_lock"}
        BY <1>1, <1>2, <1>10 DEF StartPost
    <2>2. Released(t) => Released(t)'
        BY <1>1, <1>2, <1>10, ReleasedAt DEF ReleasedPlaces, StartPost
    <2> QED BY <1>1, <2>1, <2>2, JoinQuiet
  <1>11. CASE ExitClean(t)
    <2>1. /\ known' = known /\ ended' = ended /\ arg' = arg /\ passed'.thread = passed.thread
          /\ at'[Main] = at[Main] /\ mtx'[Main] = mtx[Main] /\ running' = running
          /\ \A u \in Workers \ {t} : at'[u] = at[u]
          /\ at[t] \notin {"start_get", "start_lock"}
        BY <1>1, <1>2, <1>11 DEF ExitClean, LosesPermit
    <2>2. Released(t) => Released(t)'
        BY <1>1, <1>2, <1>11, ReleasedAt DEF ReleasedPlaces, ExitClean, LosesPermit
    <2> QED BY <1>1, <2>1, <2>2, JoinQuiet
  <1>12. CASE ExitRun(t)
    <2>1. /\ known' = known /\ ended' = ended /\ arg' = arg /\ passed'.thread = passed.thread
          /\ at'[Main] = at[Main] /\ mtx'[Main] = mtx[Main] /\ running' = running
          /\ \A u \in Workers \ {t} : at'[u] = at[u]
          /\ at[t] \notin {"start_get", "start_lock"}
        BY <1>1, <1>2, <1>12 DEF ExitRun
    <2>2. Released(t) => Released(t)'
        BY <1>1, <1>2, <1>12, ReleasedAt DEF ReleasedPlaces, ExitRun
    <2> QED BY <1>1, <2>1, <2>2, JoinQuiet
  <1>13. CASE ExitSelf(t)
    <2>1. /\ known' = known /\ ended' = ended /\ arg' = arg /\ passed'.thread = passed.thread
          /\ at'[Main] = at[Main] /\ mtx'[Main] = mtx[Main] /\ running' = running
          /\ \A u \in Workers \ {t} : at'[u] = at[u]
          /\ at[t] \notin {"start_get", "start_lock"}
        BY <1>1, <1>2, <1>13 DEF ExitSelf, FindSelf
    <2>2. Released(t) => Released(t)'
        BY <1>1, <1>2, <1>13, ReleasedAt DEF ReleasedPlaces, ExitSelf, FindSelf
    <2> QED BY <1>1, <2>1, <2>2, JoinQuiet
  <1>14. CASE ExitLost(t)
    <2>1. /\ known' = known /\ ended' = ended /\ arg' = arg /\ passed'.thread = passed.thread
          /\ at'[Main] = at[Main] /\ mtx'[Main] = mtx[Main] /\ running' = running
          /\ \A u \in Workers \ {t} : at'[u] = at[u]
          /\ at[t] \notin {"start_get", "start_lock"}
        BY <1>1, <1>2, <1>14 DEF ExitLost
    <2>2. Released(t) => Released(t)'
        BY <1>1, <1>2, <1>14, ReleasedAt DEF ReleasedPlaces, ExitLost
    <2> QED BY <1>1, <2>1, <2>2, JoinQuiet
  <1>15. CASE ExitGet(t)
    <2>1. /\ known' = known /\ ended' = ended /\ arg' = arg /\ passed'.thread = passed.thread
          /\ at'[Main] = at[Main] /\ mtx'[Main] = mtx[Main] /\ running' = running
          /\ \A u \in Workers \ {t} : at'[u] = at[u]
          /\ at[t] \notin {"start_get", "start_lock"}
        BY <1>1, <1>2, <1>15 DEF ExitGet, GetMutex
    <2>2. Released(t) => Released(t)'
        BY <1>1, <1>2, <1>15, ReleasedAt DEF ReleasedPlaces, ExitGet, GetMutex
    <2> QED BY <1>1, <2>1, <2>2, JoinQuiet
  <1>16. CASE ExitUnlock(t)
    <2>1. /\ known' = known /\ ended' = ended /\ arg' = arg /\ passed'.thread = passed.thread
          /\ at'[Main] = at[Main] /\ mtx'[Main] = mtx[Main]
          /\ at'[t] = "exit_detached"
          /\ \A u \in Workers \ {t} : at'[u] = at[u]
        BY <1>1, <1>2, <1>16 DEF ExitUnlock, Unlocks, Owns
    <2>2. Released(t)'
        BY <2>1 DEF Released
    <2>3. running' = [m \in DOMAIN running |-> IF m = mtx[t] /\ running[m] \in {t}
                                                 THEN NULL ELSE running[m]]
        BY <1>16 DEF ExitUnlock, Unlocks, Owns
    <2>4. \A u \in Workers : \A m \in 1 .. MaxStarts + 1 :
               running[m] = u => running'[m] = u \/ Released(u)'
        BY <1>1, <1>2, <2>2, <2>3
    <2> QED BY <1>1, <2>1, <2>2, <2>4, JoinFrame DEF Promised, Good
  <1>17. CASE ExitDetached(t)
    <2>1. /\ known' = known /\ ended' = ended /\ arg' = arg /\ passed'.thread = passed.thread
          /\ at'[Main] = at[Main] /\ mtx'[Main] = mtx[Main] /\ running' = running
          /\ \A u \in Workers \ {t} : at'[u] = at[u]
          /\ at[t] \notin {"start_get", "start_lock"}
        BY <1>1, <1>2, <1>17 DEF ExitDetached
    <2>2. Released(t) => Released(t)'
        BY <1>1, <1>2, <1>17, ReleasedAt DEF ReleasedPlaces, ExitDetached
    <2> QED BY <1>1, <2>1, <2>2, JoinQuiet
  <1>18. CASE Remove(t)
    <2>1. /\ known' = known /\ ended' = ended /\ arg' = arg /\ passed'.thread = passed.thread
          /\ at'[Main] = at[Main] /\ mtx'[Main] = mtx[Main] /\ running' = running
          /\ \A u \in Workers \ {t} : at'[u] = at[u]
          /\ at[t] \notin {"start_get", "start_lock"}
        BY <1>1, <1>2, <1>18 DEF Remove
    <2>2. Released(t) => Released(t)'
        BY <1>1, <1>2, <1>18, ReleasedAt DEF ReleasedPlaces, Remove
    <2> QED BY <1>1, <2>1, <2>2, JoinQuiet
  <1>19. CASE RemoveCut(t)
    <2>1. /\ known' = known /\ ended' = ended /\ arg' = arg /\ passed'.thread = passed.thread
          /\ at'[Main] = at[Main] /\ mtx'[Main] = mtx[Main] /\ running' = running
          /\ \A u \in Workers \ {t} : at'[u] = at[u]
          /\ at[t] \notin {"start_get", "start_lock"}
        BY <1>1, <1>2, <1>19 DEF RemoveCut
    <2>2. Released(t) => Released(t)'
        BY <1>1, <1>2, <1>19, ReleasedAt DEF ReleasedPlaces, RemoveCut
    <2> QED BY <1>1, <2>1, <2>2, JoinQuiet
  <1>20. CASE RemoveFree(t)
    <2>1. /\ known' = known /\ ended' = ended /\ arg' = arg /\ passed'.thread = passed.thread
          /\ at'[Main] = at[Main] /\ mtx'[Main] = mtx[Main] /\ running' = running
          /\ \A u \in Workers \ {t} : at'[u] = at[u]
          /\ at[t] \notin {"start_get", "start_lock"}
        BY <1>1, <1>2, <1>20 DEF RemoveFree
    <2>2. Released(t) => Released(t)'
        BY <1>1, <1>2, <1>20, ReleasedAt DEF ReleasedPlaces, RemoveFree
    <2> QED BY <1>1, <2>1, <2>2, JoinQuiet
  <1>21. CASE RemoveHead(t)
    <2>1. /\ known' = known /\ ended' = ended /\ arg' = arg /\ passed'.thread = passed.thread
          /\ at'[Main] = at[Main] /\ mtx'[Main] = mtx[Main] /\ running' = running
          /\ \A u \in Workers \ {t} : at'[u] = at[u]
          /\ at[t] \notin {"start_get", "start_lock"}
        BY <1>1, <1>2, <1>21 DEF RemoveHead
    <2>2. Released(t) => Released(t)'
        BY <1>1, <1>2, <1>21, ReleasedAt DEF ReleasedPlaces, RemoveHead
    <2> QED BY <1>1, <2>1, <2>2, JoinQuiet
  <1>22. CASE RemoveStore(t)
    <2>1. /\ known' = known /\ ended' = ended /\ arg' = arg /\ passed'.thread = passed.thread
          /\ at'[Main] = at[Main] /\ mtx'[Main] = mtx[Main] /\ running' = running
          /\ \A u \in Workers \ {t} : at'[u] = at[u]
          /\ at[t] \notin {"start_get", "start_lock"}
        BY <1>1, <1>2, <1>22 DEF RemoveStore
    <2>2. Released(t) => Released(t)'
        BY <1>1, <1>2, <1>22, ReleasedAt DEF ReleasedPlaces, RemoveStore
    <2> QED BY <1>1, <2>1, <2>2, JoinQuiet
  <1>23. CASE End(t)
    <2>1. /\ known' = known /\ ended' = ended /\ arg' = arg /\ passed'.thread = passed.thread
          /\ at'[Main] = at[Main] /\ mtx'[Main] = mtx[Main] /\ running' = running
          /\ \A u \in Workers \ {t} : at'[u] = at[u]
          /\ at[t] \notin {"start_get", "start_lock"}
        BY <1>1, <1>2, <1>23 DEF End
    <2>2. Released(t) => Released(t)'
        BY <1>1, <1>2, <1>23, ReleasedAt DEF ReleasedPlaces, End
    <2> QED BY <1>1, <2>1, <2>2, JoinQuiet
  <1>24. CASE PushCleaner(t)
    <2>1. /\ known' = known /\ ended' = ended /\ arg' = arg /\ passed'.thread = passed.thread
          /\ at'[Main] = at[Main] /\ mtx'[Main] = mtx[Main] /\ running' = running
          /\ \A u \in Workers \ {t} : at'[u] = at[u]
          /\ at[t] \notin {"start_get", "start_lock"}
        BY <1>1, <1>2, <1>24 DEF PushCleaner, LosesPermit
    <2>2. Released(t) => Released(t)'
        BY <1>1, <1>2, <1>24, ReleasedAt DEF ReleasedPlaces, PushCleaner, LosesPermit
    <2> QED BY <1>1, <2>1, <2>2, JoinQuiet
  <1>25. CASE PushFails(t)
    <2>1. /\ known' = known /\ ended' = ended /\ arg' = arg /\ passed'.thread = passed.thread
          /\ at'[Main] = at[Main] /\ mtx'[Main] = mtx[Main] /\ running' = running
          /\ \A u \in Workers \ {t} : at'[u] = at[u]
          /\ at[t] \notin {"start_get", "start_lock"}
        BY <1>1, <1>2, <1>25 DEF PushFails, LosesPermit
    <2>2. Released(t) => Released(t)'
        BY <1>1, <1>2, <1>25, ReleasedAt DEF ReleasedPlaces, PushFails, LosesPermit
    <2> QED BY <1>1, <2>1, <2>2, JoinQuiet
  <1>26. CASE PopCleaner(t)
    <2>1. /\ known' = known /\ ended' = ended /\ arg' = arg /\ passed'.thread = passed.thread
          /\ at'[Main] = at[Main] /\ mtx'[Main] = mtx[Main] /\ running' = running
          /\ \A u \in Workers \ {t} : at'[u] = at[u]
          /\ at[t] \notin {"start_get", "start_lock"}
        BY <1>1, <1>2, <1>26 DEF PopCleaner, LosesPermit
    <2>2. Released(t) => Released(t)'
        BY <1>1, <1>2, <1>26, ReleasedAt DEF ReleasedPlaces, PopCleaner, LosesPermit
    <2> QED BY <1>1, <2>1, <2>2, JoinQuiet
  <1>27. CASE TestCancel(t)
    <2>1. /\ known' = known /\ ended' = ended /\ arg' = arg /\ passed'.thread = passed.thread
          /\ at'[Main] = at[Main] /\ mtx'[Main] = mtx[Main] /\ running' = running
          /\ \A u \in Workers \ {t} : at'[u] = at[u]
          /\ at[t] \notin {"start_get", "start_lock"}
        BY <1>1, <1>2, <1>27 DEF TestCancel, FindSelf
    <2>2. Released(t) => Released(t)'
        BY <1>1, <1>2, <1>27, ReleasedAt DEF ReleasedPlaces, TestCancel, FindSelf
    <2> QED BY <1>1, <2>1, <2>2, JoinQuiet
  <1>28. CASE Exit(t)
    <2>1. /\ known' = known /\ ended' = ended /\ arg' = arg /\ passed'.thread = passed.thread
          /\ at'[Main] = at[Main] /\ mtx'[Main] = mtx[Main] /\ running' = running
          /\ \A u \in Workers \ {t} : at'[u] = at[u]
          /\ at[t] \notin {"start_get", "start_lock"}
        BY <1>1, <1>2, <1>28 DEF Exit
    <2>2. Released(t) => Released(t)'
        BY <1>1, <1>2, <1>28, ReleasedAt DEF ReleasedPlaces, Exit
    <2> QED BY <1>1, <2>1, <2>2, JoinQuiet
  <1> QED BY <1>4, <1>5, <1>6, <1>7, <1>8, <1>9, <1>10, <1>11, <1>12, <1>13, <1>14, <1>15, <1>16, <1>17, <1>18, <1>19, <1>20, <1>21, <1>22, <1>23, <1>24, <1>25, <1>26, <1>27, <1>28 DEF Step, Calls, StartStep, ExitStep

\* A step of Main leaves what a thread holds.
LEMMA MainKeeps ==
    ASSUME ThreadInv, MainStep \/ MainCalls, NEW u \in Workers, at'[u] = at[u]
    PROVE  /\ Released(u)' <=> Released(u)
           /\ Good(u) => Good(u)'
           /\ Promised(u) => Promised(u)'
  <1>1. Next /\ Main # u
      BY ThreadAssumption DEF Next
  <1>2. Released(u)' <=> Released(u)
      BY ReleasedAt
  <1>3. \A m \in 1 .. MaxStarts + 1 : running[m] = u => running'[m] = u
    <2>1. \/ running' = running
          \/ running' = [m \in DOMAIN running |-> IF m = mtx[Main] /\ running[m] \in {NULL}
                                                    THEN Main ELSE running[m]]
          \/ running' = [m \in DOMAIN running |-> IF m = mtx[Main] /\ running[m] \in {Main}
                                                    THEN NULL ELSE running[m]]
        BY DEF MainStep, MainCalls, CreateWait, CreateDetach, CreateEnd, JoinGet, JoinLock,
               JoinGet2, JoinUnlock, JoinEnd, CancelSet, Create, Join, Detach, Cancel,
               GetMutex, Locks, Unlocks, Owns, mutexVars
    <2>2. running \in [1 .. MaxStarts + 1 -> Tids \cup {NULL}] /\ u # NULL
        BY ThreadAssumption DEF ThreadInv, ThreadTypeOK, Tids
    <2> QED BY <1>1, <2>1, <2>2
  <1>4. Good(u) => Good(u)'
      BY <1>1, <1>2, <1>3, GoodStays
  <1>5. Promised(u) => Promised(u)'
    <2>1. ASSUME at[u] \in {"start_get", "start_lock"}, Found(u) PROVE Found(u)'
      <3>1. Keeps(u)
          BY <1>1, OthersKeep
      <3> QED BY <2>1, <3>1, KeepsMutex
    <2> QED BY <1>4, <2>1 DEF Promised
  <1> QED BY <1>2, <1>4, <1>5

\* A step of Main that starts no thread and makes none known.
LEMMA MainJoinFrame ==
    ASSUME ThreadInv, MainStep \/ MainCalls, \A u \in Workers : at'[u] = at[u],
           known' \ ended' \subseteq known \ ended,
           passed'.thread \in {passed.thread, NULL},
           \A u \in Workers : arg'[Main] = u /\ u \notin ended' => Joined(u)'
    PROVE  JoinInv'
  <1>1. JoinInv /\ known \subseteq Workers /\ NULL \notin Workers
      BY ThreadAssumption DEF ThreadInv, ThreadTypeOK, Tids
  <1>2. \A u \in known' \ ended' : Good(u)'
      BY <1>1, JoinParts, MainKeeps
  <1>3. \A u \in Workers : passed'.thread = u => Promised(u)'
      BY <1>1, JoinParts, MainKeeps
  <1> QED BY <1>2, <1>3, JoinPartsNext

LEMMA MainJoinStep ==
    ASSUME ThreadInv, MainStep \/ MainCalls
    PROVE  JoinInv'
  <1>1. Main \in Tids /\ Workers \subseteq Tids /\ Main \notin Workers /\ NULL \notin Workers
        /\ Main # NULL
      BY ThreadAssumption DEF Tids
  <1>2. /\ at \in [Tids -> ThreadPlaces] /\ mtx \in [Tids -> 0 .. MaxStarts + 1]
        /\ passed \in [sem : {0, 1}, thread : Workers \cup {NULL}, detached : BOOLEAN]
        /\ running \in [1 .. MaxStarts + 1 -> Tids \cup {NULL}]
        /\ arg \in [Tids -> Workers \cup {NULL}]
        /\ known \subseteq Workers /\ ended \subseteq known /\ PlaceInv
      BY DEF ThreadInv, ThreadTypeOK
  <1>3. /\ \A u \in known \ ended : Good(u)
        /\ \A u \in Workers : passed.thread = u => Promised(u)
        /\ \A u \in Workers : arg[Main] = u /\ u \notin ended => Joined(u)
      BY JoinParts DEF ThreadInv
  <1>4. ASSUME NEW p \in {"run", "create_wait", "create_detach", "create_end", "join_get",
                         "cancel_set"}, at'[Main] = p
        PROVE  \A u \in Workers : Joined(u)'
      BY <1>4 DEF Joined
  <1> USE DEF catalogVars, mutexVars, localVars, programVars, Goto
  <1>5. CASE CreateWait
    <2>1. /\ \A u \in Workers : at'[u] = at[u]
          /\ known' \ ended' \subseteq known \ ended
          /\ passed'.thread \in {passed.thread, NULL}
          /\ at'[Main] \in {"run", "create_wait", "create_detach", "create_end", "join_get",
                            "cancel_set"}
        BY <1>1, <1>2, <1>5 DEF CreateWait
    <2> QED BY <1>4, <2>1, MainJoinFrame
  <1>6. CASE CreateDetach
    <2>1. /\ \A u \in Workers : at'[u] = at[u]
          /\ known' \ ended' \subseteq known \ ended
          /\ passed'.thread \in {passed.thread, NULL}
          /\ at'[Main] \in {"run", "create_wait", "create_detach", "create_end", "join_get",
                            "cancel_set"}
        BY <1>1, <1>2, <1>6 DEF CreateDetach
    <2> QED BY <1>4, <2>1, MainJoinFrame
  <1>7. CASE JoinEnd
    <2>1. /\ \A u \in Workers : at'[u] = at[u]
          /\ known' \ ended' \subseteq known \ ended
          /\ passed'.thread \in {passed.thread, NULL}
          /\ at'[Main] \in {"run", "create_wait", "create_detach", "create_end", "join_get",
                            "cancel_set"}
        BY <1>1, <1>2, <1>7 DEF JoinEnd
    <2> QED BY <1>4, <2>1, MainJoinFrame
  <1>8. CASE CancelSet
    <2>1. /\ \A u \in Workers : at'[u] = at[u]
          /\ known' \ ended' \subseteq known \ ended
          /\ passed'.thread \in {passed.thread, NULL}
          /\ at'[Main] \in {"run", "create_wait", "create_detach", "create_end", "join_get",
                            "cancel_set"}
        BY <1>1, <1>2, <1>8 DEF CancelSet
    <2> QED BY <1>4, <2>1, MainJoinFrame
  <1>9. ASSUME NEW v \in known, Join(v) PROVE JoinInv'
    <2>1. /\ \A u \in Workers : at'[u] = at[u]
          /\ known' \ ended' \subseteq known \ ended
          /\ passed'.thread \in {passed.thread, NULL}
          /\ at'[Main] \in {"run", "create_wait", "create_detach", "create_end", "join_get",
                            "cancel_set"}
        BY <1>1, <1>2, <1>9 DEF Join
    <2> QED BY <1>4, <2>1, MainJoinFrame
  <1>10. ASSUME NEW v \in known, Detach(v) PROVE JoinInv'
    <2>1. /\ \A u \in Workers : at'[u] = at[u]
          /\ known' \ ended' \subseteq known \ ended
          /\ passed'.thread \in {passed.thread, NULL}
          /\ at'[Main] \in {"run", "create_wait", "create_detach", "create_end", "join_get",
                            "cancel_set"}
        BY <1>1, <1>2, <1>10 DEF Detach
    <2> QED BY <1>4, <2>1, MainJoinFrame
  <1>11. ASSUME NEW v \in known, Cancel(v) PROVE JoinInv'
    <2>1. /\ \A u \in Workers : at'[u] = at[u]
          /\ known' \ ended' \subseteq known \ ended
          /\ passed'.thread \in {passed.thread, NULL}
          /\ at'[Main] \in {"run", "create_wait", "create_detach", "create_end", "join_get",
                            "cancel_set"}
        BY <1>1, <1>2, <1>11 DEF Cancel
    <2> QED BY <1>4, <2>1, MainJoinFrame
  <1>12. CASE CreateEnd
    <2>1. /\ \A u \in Workers : at'[u] = at[u]
          /\ at[Main] = "create_end" /\ at'[Main] = "run" /\ passed'.thread = NULL
          /\ known' \ ended' \subseteq (known \ ended) \cup ({passed.thread} \ {NULL})
        BY <1>1, <1>2, <1>12 DEF CreateEnd
    <2>2. \A u \in known' \ ended' : Good(u)'
      <3>1. ASSUME NEW u \in Workers, passed.thread = u PROVE Good(u)
        <4>1. at[u] \notin {"start_get", "start_lock"}
            BY <2>1 DEF ThreadInv, StartInv, Starting
        <4> QED BY <1>3, <3>1, <4>1 DEF Promised
      <3>2. known' \ ended' \subseteq Workers /\ \A u \in known' \ ended' : Good(u)
          BY <1>2, <1>3, <2>1, <3>1
      <3> QED BY <2>1, <3>2, MainKeeps
    <2>3. \A u \in Workers : passed'.thread = u => Promised(u)'
        BY <1>1, <2>1
    <2> QED BY <1>4, <2>1, <2>2, <2>3, JoinPartsNext
  <1>13. ASSUME NEW detached \in BOOLEAN, Create(detached) PROVE JoinInv'
    <2>1. at'[Main] = "create_wait" /\ passed'.thread = NULL /\ known' = known
        BY <1>1, <1>2, <1>13 DEF Create
    <2>2. \A u \in known' \ ended' : at'[u] = at[u] /\ u \in known \ ended
        BY <1>1, <1>2, <1>13 DEF Create
    <2>3. \A u \in known' \ ended' : Good(u)'
        BY <1>2, <1>3, <2>2, MainKeeps
    <2>4. \A u \in Workers : passed'.thread = u => Promised(u)'
        BY <1>1, <2>1
    <2> QED BY <1>4, <2>1, <2>3, <2>4, JoinPartsNext
  <1>14. CASE JoinGet
    <2>1. /\ \A u \in Workers : at'[u] = at[u]
          /\ known' = known /\ ended' = ended /\ arg' = arg /\ passed'.thread = passed.thread
          /\ at[Main] = "join_get" /\ at'[Main] = "join_lock" /\ running' = running
          /\ mtx'[Main] = MutexOf(arg[Main])
        BY <1>1, <1>2, <1>14 DEF JoinGet, GetMutex
    <2>2. ASSUME NEW u \in Workers, arg'[Main] = u, u \notin ended' PROVE Joined(u)'
      <3>1. Good(u) /\ arg[Main] = u
          BY <1>2, <1>3, <2>1, <2>2 DEF PlaceInv, Joining
      <3>2. CASE Released(u)
        <4>1. Released(u)'
            BY <2>1, <3>2, MainKeeps
        <4> QED BY <2>1, <4>1 DEF Joined
      <3>3. CASE Holds(u)
          BY <2>1, <3>1, <3>3 DEF Joined, Holds
      <3> QED BY <3>1, <3>2, <3>3 DEF Good
    <2> QED BY <2>1, <2>2, MainJoinFrame
  <1>15. CASE JoinLock
    <2>1. /\ \A u \in Workers : at'[u] = at[u]
          /\ known' = known /\ ended' = ended /\ arg' = arg /\ passed'.thread = passed.thread
          /\ at[Main] = "join_lock" /\ at'[Main] \in {"run", "join_get2"}
          /\ mtx[Main] # 0 => running[mtx[Main]] \in {NULL, Main}
        BY <1>1, <1>2, <1>15 DEF JoinLock, Locks, Owns, CanLock
    <2>2. ASSUME NEW u \in Workers, arg'[Main] = u, u \notin ended' PROVE Joined(u)'
      <3>1. Joined(u)
          BY <1>3, <2>1, <2>2
      <3>2. Released(u)
          BY <1>1, <2>1, <3>1 DEF Joined
      <3>3. Released(u)'
          BY <2>1, <3>2, MainKeeps
      <3> QED BY <2>1, <3>3 DEF Joined
    <2> QED BY <2>1, <2>2, MainJoinFrame
  <1>16. CASE JoinGet2
    <2>1. /\ \A u \in Workers : at'[u] = at[u]
          /\ known' = known /\ ended' = ended /\ arg' = arg /\ passed'.thread = passed.thread
          /\ at[Main] = "join_get2" /\ at'[Main] = "join_unlock"
        BY <1>1, <1>2, <1>16 DEF JoinGet2, GetMutex
    <2>2. ASSUME NEW u \in Workers, arg'[Main] = u, u \notin ended' PROVE Joined(u)'
      <3>1. Released(u)
          BY <1>3, <2>1, <2>2 DEF Joined
      <3>2. Released(u)'
          BY <2>1, <3>1, MainKeeps
      <3> QED BY <2>1, <3>2 DEF Joined
    <2> QED BY <2>1, <2>2, MainJoinFrame
  <1>17. CASE JoinUnlock
    <2>1. /\ \A u \in Workers : at'[u] = at[u]
          /\ known' = known /\ ended' = ended /\ arg' = arg /\ passed'.thread = passed.thread
          /\ at[Main] = "join_unlock" /\ at'[Main] = "joined"
        BY <1>1, <1>2, <1>17 DEF JoinUnlock, Unlocks, Owns
    <2>2. ASSUME NEW u \in Workers, arg'[Main] = u, u \notin ended' PROVE Joined(u)'
      <3>1. Released(u)
          BY <1>3, <2>1, <2>2 DEF Joined
      <3>2. Released(u)'
          BY <2>1, <3>1, MainKeeps
      <3> QED BY <2>1, <3>2 DEF Joined
    <2> QED BY <2>1, <2>2, MainJoinFrame
  <1> QED BY <1>5, <1>6, <1>7, <1>8, <1>9, <1>10, <1>11, <1>12, <1>13, <1>14, <1>15, <1>16, <1>17 DEF MainStep, MainCalls

-----------------------------------------------------------------------------
(* The cleaners a thread has still to run.                                  *)

\* The cleaners of a block are counted.
Counted == ThreadTypeOK /\ CatalogInv => \A u : InEntry(u) \in Nat

LEMMA CountedAlways == Counted
  <1>1. ASSUME ThreadTypeOK, CatalogInv, NEW u PROVE InEntry(u) \in Nat
    <2>1. Found(u) => Entry(u) \in Blocks
        BY <1>1, Entries
    <2>2. \A b \in Blocks : node[b].cleaners \in Nat
        BY <1>1 DEF ThreadTypeOK
    <2> QED BY <2>1, <2>2 DEF InEntry
  <1> QED BY <1>1, Zenon DEF Counted

\* What the invariant says of the thread u.
DueOf(u) == /\ Cleaned(u) => due[u] = 0
            /\ at[u] = "exit_run" => due[u] <= left[u]
            /\ ~Cleaned(u) /\ at[u] # "exit_run" => due[u] <= InEntry(u)

LEMMA DueParts == DueInv <=> \A u \in Workers : DueOf(u)
  BY DEF DueInv, DueOf

\* The entry of u keeps its cleaners.
KeepsCleaners(u) == Found(u) => node'[Entry(u)].cleaners = node[Entry(u)].cleaners

LEMMA KeepsCounted ==
    ASSUME NEW u, Keeps(u), KeepsCleaners(u)
    PROVE  InEntry(u)' = InEntry(u)
  BY DEF Keeps, KeepsCleaners, InEntry

\* Nothing is due,
LEMMA DueNone ==
    ASSUME ThreadInv, Next, NEW u \in Workers, due'[u] = 0, ThreadTypeOK'
    PROVE  DueOf(u)'
  <1>1. InEntry(u)' \in Nat
    <2>1. Counted'
        BY CountedAlways, PTL
    <2>2. CatalogInv'
        BY CatalogStep
    <2> QED BY <2>1, <2>2 DEF Counted
  <1>2. left'[u] \in Nat
      BY DEF ThreadTypeOK, Tids
  <1> QED BY <1>1, <1>2 DEF DueOf

\* or what is due stays where it is.
LEMMA DueSame ==
    ASSUME ThreadInv, Next, NEW u \in Workers, due'[u] = due[u], left'[u] = left[u],
           Cleaned(u)' <=> Cleaned(u), at'[u] = "exit_run" <=> at[u] = "exit_run",
           at'[u] = at[u] \/ at[u] \notin {"register", "remove"}, KeepsCleaners(u)
    PROVE  DueOf(u)'
  <1>1. DueOf(u)
      BY DueParts DEF ThreadInv
  <1>2. Keeps(u)
      BY OthersKeep
  <1>3. InEntry(u)' = InEntry(u)
      BY <1>2, KeepsCounted
  <1> QED BY <1>1, <1>3 DEF DueOf

\* A step of Main writes no cleaners,
LEMMA MainCleaners ==
    ASSUME ThreadInv, MainStep \/ MainCalls, NEW u
    PROVE  KeepsCleaners(u)
  <1>1. node \in [Blocks -> NodeType] /\ \A v : Found(v) => Entry(v) \in Blocks
      BY Entries DEF ThreadInv, ThreadTypeOK, NodeType
  <1>2. \/ node' = node
        \/ \E v : Found(v) /\ node' = [node EXCEPT ![Entry(v)].detached = TRUE]
        \/ \E v : Found(v) /\ node' = [node EXCEPT ![Entry(v)].cancelled = TRUE]
      BY DEF MainStep, MainCalls, CreateWait, CreateDetach, CreateEnd, JoinGet, JoinLock,
             JoinGet2, JoinUnlock, JoinEnd, CancelSet, Create, Join, Detach, Cancel,
             GetMutex, Locks, Unlocks, Owns, catalogVars
  <1>3. \A b \in Blocks : node'[b].cleaners = node[b].cleaners
      BY <1>1, <1>2 DEF NodeType
  <1> QED BY <1>1, <1>3 DEF KeepsCleaners

\* and a block that is put into the list no cleaners of others;
LEMMA RegisterCleaners ==
    ASSUME ThreadTypeOK, CatalogInv, NEW t \in Workers, Register(t)
    PROVE  \A a \in used : node'[a].cleaners = node[a].cleaners
  <1>1. PICK n, s : Listing(s, n)
      BY DEF CatalogInv
  <1>2. PICK b \in Blocks \ used :
           /\ used' = used \cup {b} /\ head' = head
           /\ node'[b] = Node(t, regs + 1)
           /\ node'[s[n - 1]] = [node[s[n - 1]] EXCEPT !.next = b]
           /\ \A a \in Blocks \ {b, s[n - 1]} : node'[a] = node[a]
      BY <1>1, RegisterNode
  <1>3. \A a \in Blocks : node[a] \in NodeType
      BY DEF ThreadTypeOK, NodeType
  <1>4. ASSUME NEW a \in used PROVE node'[a].cleaners = node[a].cleaners
    <2>1. a \in Blocks \ {b}
        BY <1>2 DEF ThreadTypeOK
    <2>2. node'[a] = node[a] \/ node'[a] = [node[a] EXCEPT !.next = b]
        BY <1>2, <2>1
    <2> QED BY <1>3, <2>1, <2>2 DEF NodeType
  <1> QED BY <1>4

\* the other threads write those of their own entries only.
LEMMA WorkerCleaners ==
    ASSUME ThreadInv, NEW t \in Workers, Step(t) \/ Calls(t), NEW u, u # t
    PROVE  KeepsCleaners(u)
  <1>0. ThreadTypeOK /\ CatalogInv
      BY DEF ThreadInv
  <1>1. node \in [Blocks -> NodeType]
        /\ \A v : Found(v) => /\ Entry(v) \in Blocks /\ Entry(v) \in used
                              /\ node[Entry(v)].tid = v
      BY Entries DEF ThreadInv, ThreadTypeOK, NodeType
  <1>2. CASE ExitClean(t) \/ PushCleaner(t) \/ PopCleaner(t)
    <2>1. node' = node \/ (Found(t) /\ \E v : node' = [node EXCEPT ![Entry(t)].cleaners = v])
        BY <1>2 DEF ExitClean, PushCleaner, PopCleaner
    <2> QED BY <1>1, <2>1 DEF KeepsCleaners
  <1>3. CASE Register(t)
    <2>1. \A a \in used : node'[a].cleaners = node[a].cleaners
        BY <1>0, <1>3, RegisterCleaners
    <2> QED BY <1>1, <2>1 DEF KeepsCleaners
  <1>4. CASE ~(ExitClean(t) \/ PushCleaner(t) \/ PopCleaner(t)) /\ ~Register(t)
    <2>1. \/ node' = node
          \/ \E p, v : node' = [node EXCEPT ![p].next = v]
          \/ \E p, v : node' = [node EXCEPT ![p].tid = v]
        BY <1>4 DEF Step, Calls, StartStep, ExitStep, Walk, Test, RegisterFails, StartGet,
               StartLock, StartPost, ExitRun, ExitSelf, ExitLost, ExitGet, ExitUnlock,
               ExitDetached, Remove, RemoveCut, RemoveFree, RemoveHead, RemoveStore, End,
               PushFails, TestCancel, Exit, FindSelf, GetMutex, Locks, Unlocks, Owns,
               Unlink, Link, catalogVars
    <2>2. \A b \in Blocks : node'[b].cleaners = node[b].cleaners
        BY <1>1, <2>1 DEF NodeType
    <2> QED BY <1>1, <2>2 DEF KeepsCleaners
  <1> QED BY <1>2, <1>3, <1>4

LEMMA MainDueStep ==
    ASSUME ThreadInv, MainStep \/ MainCalls
    PROVE  DueInv'
  <1>1. Next /\ Main \in Tids /\ Workers \subseteq Tids /\ Main \notin Workers
      BY ThreadAssumption DEF Next, Tids
  <1>2. ThreadTypeOK'
      BY MainTypes, TypeParts, PTL
  <1>3. /\ at \in [Tids -> ThreadPlaces] /\ back \in [Tids -> {"run", "test", "exit_get"}]
        /\ due \in [Tids -> Nat]
      BY DEF ThreadInv, ThreadTypeOK
  <1>4. ASSUME NEW u \in Workers,
               at'[u] = at[u] /\ back'[u] = back[u] /\ left'[u] = left[u] /\ due'[u] = due[u]
        PROVE  DueOf(u)'
    <2>1. Cleaned(u)' <=> Cleaned(u)
        BY <1>4, ReleasedAt DEF Cleaned
    <2>2. KeepsCleaners(u)
        BY MainCleaners
    <2> QED BY <1>1, <1>4, <2>1, <2>2, DueSame
  <1> USE DEF catalogVars, mutexVars, localVars, programVars, Goto
  <1>5. ASSUME NEW detached \in BOOLEAN, Create(detached) PROVE \A u \in Workers : DueOf(u)'
    <2>1. back' = back /\ left' = left
        BY <1>5 DEF Create
    <2>2. ASSUME NEW u \in Workers
          PROVE  due'[u] = 0 \/ (at'[u] = at[u] /\ due'[u] = due[u])
        BY <1>1, <1>3, <1>5 DEF Create
    <2> QED BY <1>1, <1>2, <1>4, <2>1, <2>2, DueNone
  <1>6. ASSUME MainStep \/ \E u \in known : Join(u) \/ Detach(u) \/ Cancel(u)
        PROVE  \A u \in Workers : DueOf(u)'
    <2>1. back' = back /\ left' = left /\ due' = due
        BY <1>6 DEF MainStep, CreateWait, CreateDetach, CreateEnd, JoinGet, JoinLock,
             JoinGet2, JoinUnlock, JoinEnd, CancelSet, Join, Detach, Cancel,
             GetMutex, Locks, Unlocks, Owns
    <2>2. at' = at \/ \E x : at' = [at EXCEPT ![Main] = x]
        BY <1>6 DEF MainStep, CreateWait, CreateDetach, CreateEnd, JoinGet, JoinLock,
             JoinGet2, JoinUnlock, JoinEnd, CancelSet, Join, Detach, Cancel,
             GetMutex, Locks, Unlocks, Owns
    <2>3. \A u \in Workers : at'[u] = at[u]
        BY <1>1, <1>3, <2>2
    <2> QED BY <1>4, <2>1, <2>3
  <1>7. \A u \in Workers : DueOf(u)'
      BY <1>5, <1>6 DEF MainCalls
  <1>8. DueInv' <=> \A u \in Workers : DueOf(u)'
      BY DEF DueInv, DueOf
  <1> QED BY <1>7, <1>8

\* A step of t: the others keep what is due.
LEMMA WorkerDueFrame ==
    ASSUME ThreadInv, NEW t \in Workers, Step(t) \/ Calls(t), DueOf(t)',
           \A u \in Workers \ {t} : /\ at'[u] = at[u] /\ back'[u] = back[u]
                                    /\ left'[u] = left[u] /\ due'[u] = due[u]
    PROVE  DueInv'
  <1>1. ASSUME NEW u \in Workers \ {t} PROVE DueOf(u)'
    <2>1. Cleaned(u)' <=> Cleaned(u)
        BY ReleasedAt DEF Cleaned
    <2>2. KeepsCleaners(u) /\ Next
        BY WorkerCleaners DEF Next
    <2> QED BY <2>1, <2>2, DueSame
  <1> QED BY <1>1 DEF DueInv, DueOf

LEMMA WorkerDueStep ==
    ASSUME ThreadInv, NEW t \in Workers, Step(t) \/ Calls(t)
    PROVE  DueInv'
  <1>1. Next /\ t \in Tids /\ Main \in Tids /\ Workers \subseteq Tids /\ Main \notin Workers
      BY ThreadAssumption DEF Next, Tids
  <1>2. ThreadTypeOK'
      BY WorkerTypes, TypeParts, PTL
  <1>3. /\ at \in [Tids -> ThreadPlaces] /\ back \in [Tids -> {"run", "test", "exit_get"}]
        /\ due \in [Tids -> Nat] /\ left \in [Tids -> Nat]
        /\ node \in [Blocks -> NodeType] /\ PlaceInv
      BY DEF ThreadInv, ThreadTypeOK, NodeType
  <1>4. DueOf(t)
      BY DueParts DEF ThreadInv
  <1>5. /\ Cleaned(t) <=> \/ at[t] \in ReleasedPlaces \/ at[t] \in {"exit_get", "exit_unlock"}
                          \/ at[t] = "walk" /\ back[t] = "exit_get"
        /\ Cleaned(t)' <=> \/ at'[t] \in ReleasedPlaces \/ at'[t] \in {"exit_get", "exit_unlock"}
                           \/ at'[t] = "walk" /\ back'[t] = "exit_get"
      BY ReleasedAt DEF Cleaned
  <1> USE DEF catalogVars, mutexVars, localVars, programVars, Goto
  <1>6. CASE Walk(t)
    <2>1. \A u \in Workers \ {t} : /\ at'[u] = at[u] /\ back'[u] = back[u]
                                   /\ left'[u] = left[u] /\ due'[u] = due[u]
        BY <1>1, <1>3, <1>6 DEF Walk
    <2>2. /\ due'[t] = due[t] /\ left'[t] = left[t]
          /\ at'[t] = at[t] \/ at[t] \notin {"register", "remove"}
          /\ at'[t] = "exit_run" <=> at[t] = "exit_run"
          /\ Cleaned(t)' <=> Cleaned(t)
        BY <1>1, <1>3, <1>5, <1>6 DEF ReleasedPlaces, PlaceInv, Walk
    <2>3. KeepsCleaners(t)
        BY <1>6 DEF KeepsCleaners, Walk
    <2>4. DueOf(t)'
        BY <1>1, <2>2, <2>3, DueSame
    <2> QED BY <2>1, <2>4, WorkerDueFrame
  <1>7. CASE Test(t)
    <2>1. \A u \in Workers \ {t} : /\ at'[u] = at[u] /\ back'[u] = back[u]
                                   /\ left'[u] = left[u] /\ due'[u] = due[u]
        BY <1>1, <1>3, <1>7 DEF Test
    <2>2. /\ due'[t] = due[t] /\ left'[t] = left[t]
          /\ at'[t] = at[t] \/ at[t] \notin {"register", "remove"}
          /\ at'[t] = "exit_run" <=> at[t] = "exit_run"
          /\ Cleaned(t)' <=> Cleaned(t)
        BY <1>1, <1>3, <1>5, <1>7 DEF ReleasedPlaces, PlaceInv, Test
    <2>3. KeepsCleaners(t)
        BY <1>7 DEF KeepsCleaners, Test
    <2>4. DueOf(t)'
        BY <1>1, <2>2, <2>3, DueSame
    <2> QED BY <2>1, <2>4, WorkerDueFrame
  <1>8. CASE Register(t)
    <2>1. \A u \in Workers \ {t} : /\ at'[u] = at[u] /\ back'[u] = back[u]
                                   /\ left'[u] = left[u] /\ due'[u] = due[u]
        BY <1>1, <1>3, <1>8 DEF Register
    <2>2. due'[t] = 0
        BY <1>1, <1>3, <1>8 DEF ThreadInv, StartInv, Starting, Register
    <2>3. DueOf(t)'
        BY <1>1, <1>2, <2>2, DueNone
    <2> QED BY <2>1, <2>3, WorkerDueFrame
  <1>9. CASE RegisterFails(t)
    <2>1. \A u \in Workers \ {t} : /\ at'[u] = at[u] /\ back'[u] = back[u]
                                   /\ left'[u] = left[u] /\ due'[u] = due[u]
        BY <1>1, <1>3, <1>9 DEF RegisterFails
    <2>2. due'[t] = 0
        BY <1>1, <1>3, <1>9 DEF ThreadInv, StartInv, Starting, RegisterFails
    <2>3. DueOf(t)'
        BY <1>1, <1>2, <2>2, DueNone
    <2> QED BY <2>1, <2>3, WorkerDueFrame
  <1>10. CASE StartGet(t)
    <2>1. \A u \in Workers \ {t} : /\ at'[u] = at[u] /\ back'[u] = back[u]
                                   /\ left'[u] = left[u] /\ due'[u] = due[u]
        BY <1>1, <1>3, <1>10 DEF StartGet, GetMutex
    <2>2. due'[t] = 0
        BY <1>1, <1>3, <1>10 DEF ThreadInv, StartInv, Starting, StartGet, GetMutex
    <2>3. DueOf(t)'
        BY <1>1, <1>2, <2>2, DueNone
    <2> QED BY <2>1, <2>3, WorkerDueFrame
  <1>11. CASE StartLock(t)
    <2>1. \A u \in Workers \ {t} : /\ at'[u] = at[u] /\ back'[u] = back[u]
                                   /\ left'[u] = left[u] /\ due'[u] = due[u]
        BY <1>1, <1>3, <1>11 DEF StartLock, Locks, Owns
    <2>2. due'[t] = 0
        BY <1>1, <1>3, <1>11 DEF ThreadInv, StartInv, Starting, StartLock, Locks, Owns
    <2>3. DueOf(t)'
        BY <1>1, <1>2, <2>2, DueNone
    <2> QED BY <2>1, <2>3, WorkerDueFrame
  <1>12. CASE StartPost(t)
    <2>1. \A u \in Workers \ {t} : /\ at'[u] = at[u] /\ back'[u] = back[u]
                                   /\ left'[u] = left[u] /\ due'[u] = due[u]
        BY <1>1, <1>3, <1>12 DEF StartPost
    <2>2. due'[t] = 0
        BY <1>1, <1>3, <1>12 DEF ThreadInv, StartInv, Starting, StartPost
    <2>3. DueOf(t)'
        BY <1>1, <1>2, <2>2, DueNone
    <2> QED BY <2>1, <2>3, WorkerDueFrame
  <1>13. CASE ExitClean(t)
    <2>1. \A u \in Workers \ {t} : /\ at'[u] = at[u] /\ back'[u] = back[u]
                                   /\ left'[u] = left[u] /\ due'[u] = due[u]
        BY <1>1, <1>3, <1>13 DEF ExitClean, LosesPermit
    <2>2. at[t] = "exit_clean" /\ at'[t] = "exit_run" /\ due'[t] = due[t]
          /\ left'[t] = IF Found(t) THEN node[Entry(t)].cleaners ELSE left[t]
        BY <1>1, <1>3, <1>13 DEF ExitClean, LosesPermit
    <2>3. due[t] <= InEntry(t) /\ ~Cleaned(t)'
        BY <1>4, <1>5, <2>2 DEF DueOf, ReleasedPlaces
    <2>4. due'[t] <= left'[t]
        BY <1>1, <1>3, <2>2, <2>3 DEF InEntry
    <2>5. DueOf(t)'
        BY <2>2, <2>3, <2>4 DEF DueOf
    <2> QED BY <2>1, <2>5, WorkerDueFrame
  <1>14. CASE ExitRun(t)
    <2>1. \A u \in Workers \ {t} : /\ at'[u] = at[u] /\ back'[u] = back[u]
                                   /\ left'[u] = left[u] /\ due'[u] = due[u]
        BY <1>1, <1>3, <1>14 DEF ExitRun
    <2>2. /\ at'[t] = "exit_run" /\ due[t] <= left[t]
          /\ due'[t] <= left'[t]
        BY <1>1, <1>3, <1>4, <1>14 DEF DueOf, ExitRun
    <2>3. ~Cleaned(t)'
        BY <1>5, <2>2 DEF ReleasedPlaces
    <2>4. DueOf(t)'
        BY <2>2, <2>3 DEF DueOf
    <2> QED BY <2>1, <2>4, WorkerDueFrame
  <1>15. CASE ExitSelf(t)
    <2>1. \A u \in Workers \ {t} : /\ at'[u] = at[u] /\ back'[u] = back[u]
                                   /\ left'[u] = left[u] /\ due'[u] = due[u]
        BY <1>1, <1>3, <1>15 DEF ExitSelf, FindSelf
    <2>2. due'[t] = 0
        BY <1>1, <1>3, <1>4, <1>5, <1>15 DEF DueOf, ReleasedPlaces, ExitSelf, FindSelf
    <2>3. DueOf(t)'
        BY <1>1, <1>2, <2>2, DueNone
    <2> QED BY <2>1, <2>3, WorkerDueFrame
  <1>16. CASE ExitLost(t)
    <2>1. \A u \in Workers \ {t} : /\ at'[u] = at[u] /\ back'[u] = back[u]
                                   /\ left'[u] = left[u] /\ due'[u] = due[u]
        BY <1>1, <1>3, <1>16 DEF ExitLost
    <2>2. due'[t] = 0
        BY <1>1, <1>3, <1>4, <1>5, <1>16 DEF DueOf, ReleasedPlaces, ExitLost
    <2>3. DueOf(t)'
        BY <1>1, <1>2, <2>2, DueNone
    <2> QED BY <2>1, <2>3, WorkerDueFrame
  <1>17. CASE ExitGet(t)
    <2>1. \A u \in Workers \ {t} : /\ at'[u] = at[u] /\ back'[u] = back[u]
                                   /\ left'[u] = left[u] /\ due'[u] = due[u]
        BY <1>1, <1>3, <1>17 DEF ExitGet, GetMutex
    <2>2. due'[t] = 0
        BY <1>1, <1>3, <1>4, <1>5, <1>17 DEF DueOf, ReleasedPlaces, ExitGet, GetMutex
    <2>3. DueOf(t)'
        BY <1>1, <1>2, <2>2, DueNone
    <2> QED BY <2>1, <2>3, WorkerDueFrame
  <1>18. CASE ExitUnlock(t)
    <2>1. \A u \in Workers \ {t} : /\ at'[u] = at[u] /\ back'[u] = back[u]
                                   /\ left'[u] = left[u] /\ due'[u] = due[u]
        BY <1>1, <1>3, <1>18 DEF ExitUnlock, Unlocks, Owns
    <2>2. due'[t] = 0
        BY <1>1, <1>3, <1>4, <1>5, <1>18 DEF DueOf, ReleasedPlaces, ExitUnlock, Unlocks, Owns
    <2>3. DueOf(t)'
        BY <1>1, <1>2, <2>2, DueNone
    <2> QED BY <2>1, <2>3, WorkerDueFrame
  <1>19. CASE ExitDetached(t)
    <2>1. \A u \in Workers \ {t} : /\ at'[u] = at[u] /\ back'[u] = back[u]
                                   /\ left'[u] = left[u] /\ due'[u] = due[u]
        BY <1>1, <1>3, <1>19 DEF ExitDetached
    <2>2. due'[t] = 0
        BY <1>1, <1>3, <1>4, <1>5, <1>19 DEF DueOf, ReleasedPlaces, ExitDetached
    <2>3. DueOf(t)'
        BY <1>1, <1>2, <2>2, DueNone
    <2> QED BY <2>1, <2>3, WorkerDueFrame
  <1>20. CASE Remove(t)
    <2>1. \A u \in Workers \ {t} : /\ at'[u] = at[u] /\ back'[u] = back[u]
                                   /\ left'[u] = left[u] /\ due'[u] = due[u]
        BY <1>1, <1>3, <1>20 DEF Remove
    <2>2. due'[t] = 0
        BY <1>1, <1>3, <1>4, <1>5, <1>20 DEF DueOf, ReleasedPlaces, Remove
    <2>3. DueOf(t)'
        BY <1>1, <1>2, <2>2, DueNone
    <2> QED BY <2>1, <2>3, WorkerDueFrame
  <1>21. CASE RemoveCut(t)
    <2>1. \A u \in Workers \ {t} : /\ at'[u] = at[u] /\ back'[u] = back[u]
                                   /\ left'[u] = left[u] /\ due'[u] = due[u]
        BY <1>1, <1>3, <1>21 DEF RemoveCut
    <2>2. due'[t] = 0
        BY <1>1, <1>3, <1>4, <1>5, <1>21 DEF DueOf, ReleasedPlaces, RemoveCut
    <2>3. DueOf(t)'
        BY <1>1, <1>2, <2>2, DueNone
    <2> QED BY <2>1, <2>3, WorkerDueFrame
  <1>22. CASE RemoveFree(t)
    <2>1. \A u \in Workers \ {t} : /\ at'[u] = at[u] /\ back'[u] = back[u]
                                   /\ left'[u] = left[u] /\ due'[u] = due[u]
        BY <1>1, <1>3, <1>22 DEF RemoveFree
    <2>2. due'[t] = 0
        BY <1>1, <1>3, <1>4, <1>5, <1>22 DEF DueOf, ReleasedPlaces, RemoveFree
    <2>3. DueOf(t)'
        BY <1>1, <1>2, <2>2, DueNone
    <2> QED BY <2>1, <2>3, WorkerDueFrame
  <1>23. CASE RemoveHead(t)
    <2>1. \A u \in Workers \ {t} : /\ at'[u] = at[u] /\ back'[u] = back[u]
                                   /\ left'[u] = left[u] /\ due'[u] = due[u]
        BY <1>1, <1>3, <1>23 DEF RemoveHead
    <2>2. due'[t] = 0
        BY <1>1, <1>3, <1>4, <1>5, <1>23 DEF DueOf, ReleasedPlaces, RemoveHead
    <2>3. DueOf(t)'
        BY <1>1, <1>2, <2>2, DueNone
    <2> QED BY <2>1, <2>3, WorkerDueFrame
  <1>24. CASE RemoveStore(t)
    <2>1. \A u \in Workers \ {t} : /\ at'[u] = at[u] /\ back'[u] = back[u]
                                   /\ left'[u] = left[u] /\ due'[u] = due[u]
        BY <1>1, <1>3, <1>24 DEF RemoveStore
    <2>2. due'[t] = 0
        BY <1>1, <1>3, <1>4, <1>5, <1>24 DEF DueOf, ReleasedPlaces, RemoveStore
    <2>3. DueOf(t)'
        BY <1>1, <1>2, <2>2, DueNone
    <2> QED BY <2>1, <2>3, WorkerDueFrame
  <1>25. CASE End(t)
    <2>1. \A u \in Workers \ {t} : /\ at'[u] = at[u] /\ back'[u] = back[u]
                                   /\ left'[u] = left[u] /\ due'[u] = due[u]
        BY <1>1, <1>3, <1>25 DEF End
    <2>2. due'[t] = 0
        BY <1>1, <1>3, <1>4, <1>5, <1>25 DEF DueOf, ReleasedPlaces, End
    <2>3. DueOf(t)'
        BY <1>1, <1>2, <2>2, DueNone
    <2> QED BY <2>1, <2>3, WorkerDueFrame
  <1>26. CASE PushCleaner(t)
    <2>1. \A u \in Workers \ {t} : /\ at'[u] = at[u] /\ back'[u] = back[u]
                                   /\ left'[u] = left[u] /\ due'[u] = due[u]
        BY <1>1, <1>3, <1>26 DEF PushCleaner, LosesPermit
    <2>2. Keeps(t) /\ at[t] = "run" /\ at' = at /\ back' = back
      <3>1. at[t] = "run" /\ at' = at /\ back' = back
          BY <1>26 DEF PushCleaner, LosesPermit
      <3> QED BY <1>1, <3>1, OthersKeep
    <2>3. ~Cleaned(t)' /\ due[t] <= InEntry(t) /\ at'[t] # "exit_run"
        BY <1>4, <1>5, <2>2 DEF DueOf, ReleasedPlaces
    <2>4. due'[t] <= InEntry(t)'
      <3>1. CASE Found(t)
        <4>1. Entry(t) \in Blocks
            BY <3>1, Entries DEF ThreadInv
        <4>2. due'[t] = due[t] + 1 /\ node'[Entry(t)].cleaners = node[Entry(t)].cleaners + 1
          <5>1. /\ node' = [node EXCEPT ![Entry(t)].cleaners = node[Entry(t)].cleaners + 1]
                /\ due' = [due EXCEPT ![t] = due[t] + 1]
              BY <1>26, <3>1 DEF PushCleaner, LosesPermit
          <5> QED BY <1>1, <1>3, <4>1, <5>1 DEF NodeType
        <4>3. InEntry(t)' = node'[Entry(t)].cleaners /\ InEntry(t) = node[Entry(t)].cleaners
            BY <2>2, <3>1 DEF Keeps, InEntry
        <4>4. node[Entry(t)].cleaners \in Nat /\ due[t] \in Nat
            BY <1>1, <1>3, <4>1 DEF NodeType
        <4> QED BY <2>3, <4>2, <4>3, <4>4
      <3>2. CASE ~Found(t)
        <4>1. due' = due
            BY <1>26, <3>2 DEF PushCleaner, LosesPermit
        <4>2. InEntry(t)' = 0 /\ InEntry(t) = 0
            BY <2>2, <3>2 DEF Keeps, InEntry
        <4> QED BY <2>3, <4>1, <4>2
      <3> QED BY <3>1, <3>2
    <2>5. DueOf(t)'
        BY <2>3, <2>4 DEF DueOf
    <2> QED BY <2>1, <2>5, WorkerDueFrame
  <1>27. CASE PushFails(t)
    <2>1. \A u \in Workers \ {t} : /\ at'[u] = at[u] /\ back'[u] = back[u]
                                   /\ left'[u] = left[u] /\ due'[u] = due[u]
        BY <1>1, <1>3, <1>27 DEF PushFails, LosesPermit
    <2>2. /\ due'[t] = due[t] /\ left'[t] = left[t]
          /\ at'[t] = at[t] \/ at[t] \notin {"register", "remove"}
          /\ at'[t] = "exit_run" <=> at[t] = "exit_run"
          /\ Cleaned(t)' <=> Cleaned(t)
        BY <1>1, <1>3, <1>5, <1>27 DEF ReleasedPlaces, PlaceInv, PushFails, LosesPermit
    <2>3. KeepsCleaners(t)
        BY <1>27 DEF KeepsCleaners, PushFails, LosesPermit
    <2>4. DueOf(t)'
        BY <1>1, <2>2, <2>3, DueSame
    <2> QED BY <2>1, <2>4, WorkerDueFrame
  <1>28. CASE PopCleaner(t)
    <2>1. \A u \in Workers \ {t} : /\ at'[u] = at[u] /\ back'[u] = back[u]
                                   /\ left'[u] = left[u] /\ due'[u] = due[u]
        BY <1>1, <1>3, <1>28 DEF PopCleaner, LosesPermit
    <2>2. Keeps(t) /\ at[t] = "run" /\ at' = at /\ back' = back
      <3>1. at[t] = "run" /\ at' = at /\ back' = back
          BY <1>28 DEF PopCleaner, LosesPermit
      <3> QED BY <1>1, <3>1, OthersKeep
    <2>3. ~Cleaned(t)' /\ due[t] <= InEntry(t) /\ at'[t] # "exit_run"
        BY <1>4, <1>5, <2>2 DEF DueOf, ReleasedPlaces
    <2>4. due'[t] <= InEntry(t)'
      <3>1. CASE Found(t)
        <4>1. Entry(t) \in Blocks
            BY <3>1, Entries DEF ThreadInv
        <4>2. /\ node[Entry(t)].cleaners > 0
             /\ due'[t] = (IF due[t] > 0 THEN due[t] - 1 ELSE 0)
             /\ node'[Entry(t)].cleaners = node[Entry(t)].cleaners - 1
          <5>1. /\ node[Entry(t)].cleaners > 0
                /\ node' = [node EXCEPT ![Entry(t)].cleaners = node[Entry(t)].cleaners - 1]
                /\ due' = [due EXCEPT ![t] = IF due[t] > 0 THEN due[t] - 1 ELSE 0]
              BY <1>28, <3>1 DEF PopCleaner, LosesPermit
          <5> QED BY <1>1, <1>3, <4>1, <5>1 DEF NodeType
        <4>3. InEntry(t)' = node'[Entry(t)].cleaners /\ InEntry(t) = node[Entry(t)].cleaners
            BY <2>2, <3>1 DEF Keeps, InEntry
        <4>4. node[Entry(t)].cleaners \in Nat /\ due[t] \in Nat
            BY <1>1, <1>3, <4>1 DEF NodeType
        <4> QED BY <2>3, <4>2, <4>3, <4>4
      <3>2. CASE ~Found(t)
        <4>1. due' = due
            BY <1>28, <3>2 DEF PopCleaner, LosesPermit
        <4>2. InEntry(t)' = 0 /\ InEntry(t) = 0
            BY <2>2, <3>2 DEF Keeps, InEntry
        <4> QED BY <2>3, <4>1, <4>2
      <3> QED BY <3>1, <3>2
    <2>5. DueOf(t)'
        BY <2>3, <2>4 DEF DueOf
    <2> QED BY <2>1, <2>5, WorkerDueFrame
  <1>29. CASE TestCancel(t)
    <2>1. \A u \in Workers \ {t} : /\ at'[u] = at[u] /\ back'[u] = back[u]
                                   /\ left'[u] = left[u] /\ due'[u] = due[u]
        BY <1>1, <1>3, <1>29 DEF TestCancel, FindSelf
    <2>2. /\ due'[t] = due[t] /\ left'[t] = left[t]
          /\ at'[t] = at[t] \/ at[t] \notin {"register", "remove"}
          /\ at'[t] = "exit_run" <=> at[t] = "exit_run"
          /\ Cleaned(t)' <=> Cleaned(t)
        BY <1>1, <1>3, <1>5, <1>29 DEF ReleasedPlaces, PlaceInv, TestCancel, FindSelf
    <2>3. KeepsCleaners(t)
        BY <1>29 DEF KeepsCleaners, TestCancel, FindSelf
    <2>4. DueOf(t)'
        BY <1>1, <2>2, <2>3, DueSame
    <2> QED BY <2>1, <2>4, WorkerDueFrame
  <1>30. CASE Exit(t)
    <2>1. \A u \in Workers \ {t} : /\ at'[u] = at[u] /\ back'[u] = back[u]
                                   /\ left'[u] = left[u] /\ due'[u] = due[u]
        BY <1>1, <1>3, <1>30 DEF Exit
    <2>2. /\ due'[t] = due[t] /\ left'[t] = left[t]
          /\ at'[t] = at[t] \/ at[t] \notin {"register", "remove"}
          /\ at'[t] = "exit_run" <=> at[t] = "exit_run"
          /\ Cleaned(t)' <=> Cleaned(t)
        BY <1>1, <1>3, <1>5, <1>30 DEF ReleasedPlaces, PlaceInv, Exit
    <2>3. KeepsCleaners(t)
        BY <1>30 DEF KeepsCleaners, Exit
    <2>4. DueOf(t)'
        BY <1>1, <2>2, <2>3, DueSame
    <2> QED BY <2>1, <2>4, WorkerDueFrame
  <1> QED BY <1>6, <1>7, <1>8, <1>9, <1>10, <1>11, <1>12, <1>13, <1>14, <1>15, <1>16, <1>17, <1>18, <1>19, <1>20, <1>21, <1>22, <1>23, <1>24, <1>25, <1>26, <1>27, <1>28, <1>29, <1>30 DEF Step, Calls, StartStep, ExitStep

-----------------------------------------------------------------------------
(* The invariant, and what follows.                                         *)

LEMMA InitThread == Init => ThreadInv
  <1>1. SUFFICES ASSUME Init PROVE ThreadInv
      OBVIOUS
  <1>2. /\ Main \in Tids /\ Workers \subseteq Tids /\ Main \notin Workers /\ Main # NULL
        /\ NULL \notin Workers /\ NULL \notin Blocks /\ MaxStarts \in Nat
      BY ThreadAssumption DEF Tids
  <1>3. head \in Blocks /\ used = {head}
    <2>1. \E b \in Blocks : TRUE
        BY ThreadAssumption
    <2> QED BY <1>1, <2>1 DEF Init
  <1>4. node = [b \in Blocks |-> IF b = head THEN Node(Main, 1) ELSE Node(NULL, 0)]
      BY <1>1 DEF Init
  <1>5. node \in [Blocks -> NodeType]
    <2>1. Node(Main, 1) \in NodeType /\ Node(NULL, 0) \in NodeType
        BY <1>2 DEF Node, NodeType
    <2> QED BY <1>4, <2>1
  <1>6. at = [t \in Tids |-> IF t = Main THEN "run" ELSE "dead"]
      BY <1>1 DEF Init
  <1>7. ThreadTypeOK
    <2>1. CatalogTypes
        BY <1>1, <1>3, <1>5 DEF Init, CatalogTypes
    <2>2. LocalTypes
        BY <1>1, <1>2 DEF Init, LocalTypes, ThreadPlaces
    <2> QED BY <2>1, <2>2, TypeParts
  <1>8. CatalogInv
    <2> DEFINE s == [k \in 0 .. 0 |-> head]
    <2>1. IsList(head, node, s, 1)
      <3>1. node[head].next = NULL
          BY <1>3, <1>4 DEF Node
      <3>2. 0 .. 1 - 1 = 0 .. 0 /\ \A k \in 0 .. 0 : k = 0 /\ s[k] = head
          OBVIOUS
      <3>3. s \in [0 .. 0 -> Blocks] /\ 0 \in 0 .. 0
          BY <1>3
      <3> HIDE DEF s
      <3> QED BY <3>1, <3>2, <3>3 DEF IsList
    <2>2. \A t \in Tids : at[t] \notin Cutting /\ at[t] # "remove_store"
        BY <1>6 DEF Cutting
    <2>3. Removed = {}
        BY <2>2 DEF Removed, Cutting
    <2>4. {s[k] : k \in 0 .. 1 - 1} = used \ Removed
        BY <1>3, <2>3
    <2>5. Listing(s, 1)
        BY <2>1, <2>4 DEF Listing
    <2>6. node[head].tid = Main /\ \A b \in used : node[b].tid # NULL
        BY <1>2, <1>3, <1>4 DEF Node
    <2> HIDE DEF s
    <2> QED BY <1>2, <2>2, <2>5, <2>6 DEF CatalogInv
  <1>9. MutexInv
    <2>1. regs = 1 /\ mtx = [t \in Tids |-> 0]
        BY <1>1 DEF Init
    <2> QED BY <1>3, <1>4, <2>1 DEF MutexInv, Node
  <1>10. \A t \in Workers : at[t] = "dead"
      BY <1>2, <1>6
  <1>11. at[Main] = "run"
      BY <1>2, <1>6
  <1>12. PlaceInv
      BY <1>10, <1>11 DEF PlaceInv, ThreadPlaces, MainPlaces, Joining
  <1>13. StartInv
    <2>1. passed.sem = 0
        BY <1>1 DEF Init
    <2> QED BY <1>10, <2>1 DEF StartInv, Starting
  <1>14. JoinInv
    <2>1. known = {} /\ passed.thread = NULL
        BY <1>1 DEF Init
    <2> QED BY <1>2, <1>11, <2>1 DEF JoinInv
  <1>15. DueInv
    <2>1. \A t \in Workers : due[t] = 0
        BY <1>1, <1>2 DEF Init
    <2> QED BY <1>10, <2>1 DEF DueInv, Cleaned, Released
  <1> QED BY <1>7, <1>8, <1>9, <1>12, <1>13, <1>14, <1>15 DEF ThreadInv

LEMMA NextThread == ThreadInv /\ [Next]_vars => ThreadInv'
  <1>1. ASSUME ThreadInv, Next PROVE ThreadInv'
    <2>1. ThreadTypeOK'
      <3>1. CatalogTypes' /\ LocalTypes'
          BY <1>1, MainTypes, WorkerTypes DEF Next
      <3> QED BY <3>1, TypeParts, PTL
    <2>2. CatalogInv' /\ MutexInv'
        BY <1>1, CatalogStep, MutexStep
    <2>3. PlaceInv'
        BY <1>1, MainPlaceStep, WorkerPlaceStep DEF Next
    <2>4. StartInv'
        BY <1>1, MainStartStep, WorkerStartStep DEF Next
    <2>5. JoinInv'
        BY <1>1, MainJoinStep, WorkerJoinStep DEF Next
    <2>6. DueInv'
        BY <1>1, MainDueStep, WorkerDueStep DEF Next
    <2> QED BY <2>1, <2>2, <2>3, <2>4, <2>5, <2>6 DEF ThreadInv
  <1>2. ASSUME ThreadInv, UNCHANGED vars PROVE ThreadInv'
    <2> USE DEF vars, catalogVars, mutexVars, localVars, programVars
    <2>1. UNCHANGED <<head, node, used, sem, running, regs, at, back, arg, ptr, self, mtx, left,
                      passed, known, starts, ended, due>>
        BY <1>2
    <2>2. Frame
        BY <2>1 DEF Frame
    <2>3. CatalogInv' /\ \A u : Keeps(u)
        BY <1>2, <2>2, CatalogFrame
    <2>4. ThreadTypeOK' /\ MutexInv' /\ PlaceInv'
        BY <1>2, <2>1 DEF ThreadInv, ThreadTypeOK, MutexInv, PlaceInv
    <2>5. \A u : /\ MutexOf(u)' = MutexOf(u) /\ (Found(u)' <=> Found(u))
                 /\ Released(u)' <=> Released(u)
                 /\ InEntry(u)' = InEntry(u)
        BY <2>1, <2>3, KeepsMutex, KeepsCounted DEF Released, KeepsCleaners
    <2>6. StartInv'
        BY <1>2, <2>1, <2>5 DEF ThreadInv, StartInv
    <2>7. \A u : (Good(u)' <=> Good(u)) /\ (Promised(u)' <=> Promised(u)) /\ (Joined(u)' <=> Joined(u))
        BY <2>1, <2>5 DEF Good, Holds, Promised, Joined
    <2>8. JoinInv'
        BY <1>2, <2>1, <2>7, JoinParts, JoinPartsNext DEF ThreadInv
    <2>9. DueInv'
        BY <1>2, <2>1, <2>5 DEF ThreadInv, DueInv, Cleaned
    <2> QED BY <2>3, <2>4, <2>6, <2>8, <2>9 DEF ThreadInv
  <1> QED BY <1>1, <1>2

LEMMA ThreadInvAlways == Spec => []ThreadInv
  BY InitThread, NextThread, PTL DEF Spec

\* Every pointer of the catalog and of the threads, and every count, is of its
\* type: the semaphore has never two permits, and a head or a link is a block or
\* NULL, freed blocks included.
THEOREM ThreadTypes == Spec => []ThreadTypeOK
  <1>1. ThreadInv => ThreadTypeOK
      BY DEF ThreadInv
  <1> QED BY <1>1, ThreadInvAlways, PTL

\* __register_thread and __remove_thread keep the catalog whole: it lists the
\* blocks in use, each of them once, although __unregister_thread stores the head
\* again without __ptcatalog_sem, and whether or not calls fail.
THEOREM CatalogListed == Spec => []CatalogIntact
  <1>1. ThreadInv => CatalogIntact
      BY Entries DEF ThreadInv, CatalogIntact
  <1> QED BY <1>1, ThreadInvAlways, PTL

\* pthread_join returns 0 only for a thread that is past its routine and has run
\* the cleaners it pushed: it locks the running mutex before its creator goes on,
\* keeps its entry, and unlocks after the cleaners.
THEOREM JoinsWait == Spec => []JoinAfterExit
  <1>1. ThreadInv => JoinAfterExit
    <2>1. SUFFICES ASSUME ThreadInv, at[Main] = "joined", arg[Main] \notin ended
                   PROVE  Released(arg[Main]) /\ due[arg[Main]] = 0
        BY DEF JoinAfterExit
    <2>2. arg[Main] \in Workers
        BY <2>1 DEF ThreadInv, ThreadTypeOK, PlaceInv, Joining
    <2>3. Released(arg[Main])
        BY <2>1, <2>2 DEF ThreadInv, JoinInv
    <2> QED BY <2>1, <2>2, <2>3 DEF ThreadInv, DueInv, Cleaned
  <1> QED BY <1>1, ThreadInvAlways, PTL
=============================================================================
