---------------------------- MODULE LengthProofs -----------------------------
(***************************************************************************)
(* Lengths on a disk that counts records: LengthTracked, LengthDurable,    *)
(* AppendNeverOverwrites, ShortReadsOnlyAtEnd and ReturnCommits, for every *)
(* number of slots, record size, set of files, mode and program.           *)
(***************************************************************************)
EXTENDS ContentProofs

\* rc records, the ones in alloc written, are just what the length of n takes;
\* the last one of a text file is padded with Ctrl-Z from its end on.
Extent(n, rc, alloc) ==
    /\ flen[n] <= rc * Sect
    /\ rc = 0 => flen[n] = 0
    /\ rc # 0 =>
          /\ (rc - 1) * Sect < flen[n]
          /\ rc - 1 \in alloc
          /\ kind[n] = "text" => TextEnd(disk[n][rc - 1], flen[n] - (rc - 1) * Sect)

\* A live handle has written n.
Written(n) == \E i \in Slots : Live(i) /\ dfiles[i].name = n /\ dfiles[i].wrote

\* The extent of a file is that of its entry, or that of the FCB of its writer.
ExtentOk == \A n \in Names : Known(n) => Written(n) \/ Extent(n, dir[n].rc, dir[n].alloc)

WriterExtentOk ==
    \A i \in Slots : Live(i) /\ dfiles[i].wrote /\ kind[dfiles[i].name] # "lost" =>
        Extent(dfiles[i].name, dfiles[i].rc, dfiles[i].alloc)

\* Nothing was put in a file of kind "none".
NoneOk == \A n \in Names : dir[n].exists /\ kind[n] = "none" => flen[n] = 0 /\ dir[n].lrbc = 0

\* The length of a binary file as its entry gives it.
BinLen(e) == IF e.lrbc # 0 THEN (e.rc - 1) * Sect + e.lrbc ELSE e.rc * Sect

CountOk ==
    HasLrbc => \A n \in Names : dir[n].exists /\ kind[n] \in {"none", "bin"} =>
        \/ \E i \in Slots : /\ Live(i) /\ dfiles[i].name = n
                            /\ dfiles[i].wrote /\ ~dfiles[i].text
        \/ flen[n] = BinLen(dir[n])

\* A byte count is kept by an OS that has one, and counts in a last record; the
\* length of a file whose count is stale is whole records.
CountKept(n) ==
    /\ dir[n].lrbc # 0 => HasLrbc /\ dir[n].rc # 0
    /\ kind[n] = "stale" => dir[n].lrbc # 0 /\ flen[n] = dir[n].rc * Sect

StaleOk == \A n \in Names : dir[n].exists /\ kind[n] \in {"bin", "stale"} => CountKept(n)

\* fp->len of f is the length of its file.
Exact(f) == IF f.text \/ HasLrbc THEN f.len = flen[f.name]
            ELSE flen[f.name] <= f.len /\ f.len <= f.rc * Sect

LenOk == \A i \in Slots :
            Live(i) /\ Regular(dfiles[i]) /\ Current(dfiles[i]) => Exact(dfiles[i])

LrbcOk == \A i \in Slots :
             Live(i) /\ ~dfiles[i].text /\ HasLrbc /\ Current(dfiles[i]) =>
                dfiles[i].open_lrbc = dir[dfiles[i].name].lrbc

Lengths == /\ ExtentOk /\ WriterExtentOk /\ NoneOk /\ CountOk /\ StaleOk
           /\ LenOk /\ LrbcOk

LengthInv == ContentInv /\ Lengths

\* Where a read stands that has stopped early.
AtEnd(f) == \/ f.pos >= flen[f.name]
            \/ /\ f.pos \in Positions
               /\ content[f.name][f.pos] \in {Hole} \cup (IF f.text THEN {CtrlZ} ELSE {})

Stopped == call.op = "read" /\ call.eof =>
              LET f == dfiles[call.slot] IN f.live /\ Regular(f) => AtEnd(f)

-----------------------------------------------------------------------------
(* Steps that leave lengths alone.                                         *)

\* The entry, the bytes and the length of n are those m had.
FileMoved(n, m) ==
    /\ dir[m].exists
    /\ dir'[n].rc = dir[m].rc /\ dir'[n].alloc = dir[m].alloc
    /\ dir'[n].lrbc = dir[m].lrbc
    /\ disk'[n] = disk[m] /\ flen'[n] = flen[m] /\ kind'[n] = kind[m]

\* The file n has just been made.
FileMade(n) == /\ dir'[n].rc = 0 /\ dir'[n].alloc = {} /\ dir'[n].lrbc = 0
               /\ flen'[n] = 0 /\ kind'[n] = "none"

\* The handles that have written n are kept.
WritersKept(n) == \A j \in Slots : Live(j) /\ dfiles[j].name = n /\ dfiles[j].wrote =>
                                     Live(j)' /\ dfiles'[j] = dfiles[j]

\* The good handle j is one that was, of a file that has not changed.
HandleKept(j) == /\ Live(j) /\ dfiles'[j] = dfiles[j]
                 /\ FileMoved(dfiles[j].name, dfiles[j].name)

\* The good handle j is the one of a file just made.
HandleMade(j) == /\ dir'[dfiles'[j].name].lrbc = 0 /\ flen'[dfiles'[j].name] = 0
                 /\ ~dfiles'[j].wrote /\ dfiles'[j].rc = 0 /\ dfiles'[j].len = 0
                 /\ dfiles'[j].open_lrbc = 0

\* A step after which every file is new, lost, untouched, or one that was closed.
LEMMA LengthsKept ==
    ASSUME SlotsNamed, Lengths,
           \A j \in Slots : Live(j)' => HandleKept(j) \/ HandleMade(j),
           \A n \in Names : dir'[n].exists =>
              \/ FileMade(n)
              \/ kind'[n] = "lost"
              \/ FileMoved(n, n) /\ WritersKept(n)
              \/ \E m \in Names : FileMoved(n, m) /\ m \notin Unclosed
    PROVE  Lengths'
<1>1. \A n \in Names : n \notin Unclosed <=> ~Written(n)
  BY DEF Unclosed, Written, OpenOn, Live
<1>2. ExtentOk'
  <2>1. ASSUME NEW n \in Names, Known(n)'
        PROVE  Written(n)' \/ Extent(n, dir[n].rc, dir[n].alloc)'
    <3>1. CASE FileMade(n)
      BY BdosAssumption, <3>1 DEF FileMade, Extent
    <3>2. CASE FileMoved(n, n) /\ WritersKept(n)
      <4>1. Written(n) => Written(n)'
        BY <3>2 DEF Written, WritersKept
      <4>. QED
        BY <2>1, <3>2, <4>1 DEF Lengths, ExtentOk, Extent, FileMoved, Known
    <3>3. CASE \E m \in Names : FileMoved(n, m) /\ m \notin Unclosed
      <4>1. PICK m \in Names : FileMoved(n, m) /\ ~Written(m)
        BY <1>1, <3>3
      <4>2. Extent(m, dir[m].rc, dir[m].alloc)
        BY <2>1, <4>1 DEF Lengths, ExtentOk, FileMoved, Known
      <4>. QED
        BY <4>1, <4>2 DEF Extent, FileMoved
    <3>. QED
      BY <2>1, <3>1, <3>2, <3>3 DEF Known
  <2>. QED
    BY <2>1 DEF ExtentOk
<1>3. WriterExtentOk'
  <2>1. ASSUME NEW j \in Slots, Live(j)', dfiles'[j].wrote, kind'[dfiles'[j].name] # "lost"
        PROVE  Extent(dfiles[j].name, dfiles[j].rc, dfiles[j].alloc)'
    <3>1. HandleKept(j)
      BY <2>1 DEF HandleMade
    <3>. QED
      BY <2>1, <3>1 DEF Lengths, WriterExtentOk, Extent, HandleKept, FileMoved
  <2>. QED
    BY <2>1 DEF WriterExtentOk
<1>4. NoneOk'
  BY DEF Lengths, NoneOk, FileMade, FileMoved
<1>5. CountOk'
  <2>1. ASSUME HasLrbc, NEW n \in Names, dir'[n].exists, kind'[n] \in {"none", "bin"}
        PROVE  \/ \E i \in Slots : /\ Live(i)' /\ dfiles'[i].name = n
                                   /\ dfiles'[i].wrote /\ ~dfiles'[i].text
               \/ flen'[n] = BinLen(dir'[n])
    <3>1. CASE FileMade(n)
      BY BdosAssumption, <3>1 DEF FileMade, BinLen
    <3>2. CASE FileMoved(n, n) /\ WritersKept(n)
      BY <2>1, <3>2 DEF Lengths, CountOk, WritersKept, FileMoved, BinLen
    <3>3. CASE \E m \in Names : FileMoved(n, m) /\ m \notin Unclosed
      <4>1. PICK m \in Names : FileMoved(n, m) /\ ~Written(m)
        BY <1>1, <3>3
      <4>2. flen[m] = BinLen(dir[m])
        BY <2>1, <4>1 DEF Lengths, CountOk, FileMoved, Written
      <4>. QED
        BY <4>1, <4>2 DEF FileMoved, BinLen
    <3>. QED
      BY <2>1, <3>1, <3>2, <3>3
  <2>. QED
    BY <2>1 DEF CountOk
<1>6. LenOk'
  <2>1. ASSUME NEW j \in Slots, Live(j)', Regular(dfiles[j])', Current(dfiles[j])'
        PROVE  Exact(dfiles[j])'
    <3>1. CASE HandleMade(j)
      BY BdosAssumption, <3>1 DEF HandleMade, Exact
    <3>2. CASE HandleKept(j)
      BY <2>1, <3>2 DEF Lengths, LenOk, Exact, Regular, Current, HandleKept, FileMoved
    <3>. QED
      BY <2>1, <3>1, <3>2
  <2>. QED
    BY <2>1 DEF LenOk
<1>7. LrbcOk'
  BY DEF Lengths, LrbcOk, HandleKept, HandleMade, FileMoved, Current
<1>8. StaleOk'
  BY DEF Lengths, StaleOk, CountKept, FileMade, FileMoved
<1>. QED
  BY <1>2, <1>3, <1>4, <1>5, <1>6, <1>7, <1>8 DEF Lengths

\* F_MAKE and the calls on names purge the handles of one file only.
LEMMA PurgeSpares ==
    ASSUME FilesTyped, NEW n \in Names,
           \/ dfiles' = Purged(n)
           \/ \E i \in Slots, m \in Mode : ~dfiles[i].used /\ MakeFile(i, n, m)
    PROVE  \A j \in Slots : Live(j) /\ dfiles[j].name # n =>
              Live(j)' /\ dfiles'[j] = dfiles[j]
<1>. SUFFICES ASSUME NEW j \in Slots, Live(j), dfiles[j].name # n
              PROVE  dfiles'[j] = dfiles[j]
  BY DEF Live, OnDisk
<1>1. Purged(n)[j] = dfiles[j]
  BY DEF Purged, OpenOn
<1>2. CASE \E i \in Slots, m \in Mode : ~dfiles[i].used /\ MakeFile(i, n, m)
  <2>1. PICK i \in Slots, m \in Mode : ~dfiles[i].used /\ MakeFile(i, n, m)
    BY <1>2
  <2>2. i # j
    BY <2>1 DEF Live, OnDisk
  <2>3. dfiles' = [Purged(n) EXCEPT ![i] = Opening(n, m)] /\ Purged(n) \in [Slots -> File]
    BY <2>1, PurgedTyped DEF MakeFile
  <2>. QED
    BY <1>1, <2>2, <2>3
<1>. QED
  BY <1>1, <1>2

\* A new file has length 0, whatever was there.
LEMMA LengthsMade ==
    ASSUME HandleInv, Lengths, NEW i \in Slots, NEW n \in Names, NEW m \in Mode,
           ~dfiles[i].used, MakeFile(i, n, m)
    PROVE  Lengths'
<1>1. FilesTyped /\ SlotsNamed
  BY DEF HandleInv, TypeOK, TableConsistent
<1>2. /\ dfiles'[i].name = n /\ ~dfiles'[i].wrote
      /\ dfiles'[i].rc = 0 /\ dfiles'[i].len = 0 /\ dfiles'[i].open_lrbc = 0
      /\ \A j \in Slots \ {i} :
            Live(j)' => Live(j) /\ dfiles[j].name # n /\ dfiles'[j] = dfiles[j]
      /\ dir'[n] = Made /\ Made.rc = 0 /\ Made.alloc = {} /\ Made.lrbc = 0
      /\ \A k \in Names \ {n} : dir'[k] = dir[k]
  BY <1>1, MakeFileEffect
<1>. HIDE DEF Made
<1>3. /\ disk' = disk /\ flen'[n] = 0 /\ kind'[n] = "none"
      /\ \A k \in Names \ {n} : flen'[k] = flen[k] /\ kind'[k] = kind[k]
  BY <1>1 DEF MakeFile, FilesTyped
<1>4. FileMade(n)
  BY <1>2, <1>3 DEF FileMade
<1>5. \A k \in Names \ {n} : dir[k].exists => FileMoved(k, k)
  BY <1>2, <1>3 DEF FileMoved
<1>6. \A k \in Names \ {n} : WritersKept(k)
  BY <1>1, PurgeSpares DEF WritersKept
<1>7. HandleMade(i)
  BY <1>2, <1>3 DEF HandleMade
<1>8. \A j \in Slots \ {i} : Live(j)' => HandleKept(j)
  BY <1>1, <1>2, <1>5 DEF HandleKept, HandleInv, HandlesOk, HandleSound, SlotsNamed, Live
<1>. QED
  BY <1>1, <1>2, <1>4, <1>5, <1>6, <1>7, <1>8, LengthsKept

LEMMA LengthsNamed ==
    ASSUME HandleInv, Lengths,
           \/ \E n \in Names : Remove(n)
           \/ \E n \in Names, ro \in BOOLEAN : Chmod(n, ro)
           \/ \E old, new \in Names : Rename(old, new)
    PROVE  Lengths'
<1>1. FilesTyped /\ SlotsNamed /\ HandlesOk
  BY DEF HandleInv, TypeOK, TableConsistent
<1>2. ASSUME NEW n \in Names, dfiles' = Purged(n)
      PROVE  /\ \A k \in Names \ {n} : WritersKept(k)
             /\ \A j \in Slots : Live(j)' =>
                   /\ Live(j) /\ dfiles'[j] = dfiles[j] /\ dfiles[j].name \in Names \ {n}
                   /\ dir[dfiles[j].name].exists
  <2>1. \A k \in Names \ {n} : WritersKept(k)
    BY <1>1, <1>2, PurgeSpares DEF WritersKept
  <2>2. \A j \in Slots : Live(j)' => Live(j) /\ dfiles[j].name # n /\ dfiles'[j] = dfiles[j]
    BY <1>1, <1>2, PurgeEffect
  <2>. QED
    BY <1>1, <2>1, <2>2 DEF HandlesOk, HandleSound, SlotsNamed, Live
<1>3. ASSUME NEW n \in Names, Remove(n)
      PROVE  Lengths'
  <2>1. dfiles' = Purged(n) /\ disk' = disk /\ ~dir'[n].exists
        /\ \A k \in Names \ {n} : /\ dir'[k] = dir[k] /\ flen'[k] = flen[k]
                                  /\ kind'[k] = kind[k]
    BY <1>1, <1>3 DEF Remove, FilesTyped, NoEntry
  <2>2. \A k \in Names \ {n} : dir[k].exists => FileMoved(k, k)
    BY <2>1 DEF FileMoved
  <2>3. \A j \in Slots : Live(j)' => HandleKept(j)
    BY <1>2, <2>1, <2>2 DEF HandleKept
  <2>. QED
    BY <1>1, <1>2, <2>1, <2>2, <2>3, LengthsKept
<1>4. ASSUME NEW n \in Names, NEW ro \in BOOLEAN, Chmod(n, ro)
      PROVE  Lengths'
  <2>1. /\ dfiles' = Purged(n) /\ disk' = disk /\ flen' = flen
        /\ dir[n].exists /\ dir'[n] = [dir[n] EXCEPT !.ro = ro]
        /\ kind'[n] = IF n \in Unclosed THEN "lost" ELSE kind[n]
        /\ \A k \in Names \ {n} : dir'[k] = dir[k] /\ kind'[k] = kind[k]
    BY <1>1, <1>4 DEF Chmod, FilesTyped
  <2>2. \A k \in Names \ {n} : dir[k].exists => FileMoved(k, k)
    BY <2>1 DEF FileMoved
  <2>3. dir'[n].rc = dir[n].rc /\ dir'[n].alloc = dir[n].alloc /\ dir'[n].lrbc = dir[n].lrbc
    BY <1>1, <2>1 DEF FilesTyped, Entry
  <2>4. kind'[n] = "lost" \/ (FileMoved(n, n) /\ n \notin Unclosed)
    BY <2>1, <2>3 DEF FileMoved
  <2>5. \A j \in Slots : Live(j)' => HandleKept(j)
    BY <1>2, <2>1, <2>2 DEF HandleKept
  <2>. QED
    BY <1>1, <1>2, <2>1, <2>2, <2>4, <2>5, LengthsKept
<1>5. ASSUME NEW old \in Names, NEW new \in Names, Rename(old, new)
      PROVE  Lengths'
  <2>1. old # new /\ dir[old].exists /\ ~dir[new].exists /\ dfiles' = Purged(old)
    BY <1>5 DEF Rename
  <2>2. /\ ~dir'[old].exists
        /\ dir'[new] = dir[old] /\ disk'[new] = disk[old] /\ flen'[new] = flen[old]
        /\ kind'[new] = IF old \in Unclosed THEN "lost" ELSE kind[old]
        /\ \A k \in Names \ {old, new} : /\ dir'[k] = dir[k] /\ disk'[k] = disk[k]
                                         /\ flen'[k] = flen[k] /\ kind'[k] = kind[k]
    BY <1>1, <1>5, <2>1 DEF Rename, Moved, FilesTyped, NoEntry
  <2>3. \A k \in Names \ {old, new} : dir[k].exists => FileMoved(k, k)
    BY <2>2 DEF FileMoved
  <2>4. kind'[new] = "lost" \/ (FileMoved(new, old) /\ old \notin Unclosed)
    BY <2>1, <2>2 DEF FileMoved
  <2>5. \A j \in Slots : Live(j)' => HandleKept(j)
    BY <1>2, <2>1, <2>3 DEF HandleKept
  <2>. QED
    BY <1>1, <1>2, <2>1, <2>2, <2>3, <2>4, <2>5, LengthsKept
<1>. QED
  BY <1>3, <1>4, <1>5

\* What the next program finds: files that were left open and written are lost.
LEMMA LengthsReboot ==
    ASSUME HandleInv, Lengths, NextProgram
    PROVE  Lengths'
<1>1. SlotsNamed
  BY DEF HandleInv, TableConsistent
<1>2. \A j \in Slots : ~Live(j)'
  BY FreeTyped DEF NextProgram, Live, OnDisk
<1>3. UNCHANGED <<dir, disk, flen>>
      /\ \A n \in Names : kind'[n] = IF n \in Unclosed THEN "lost" ELSE kind[n]
  BY DEF NextProgram
<1>4. \A n \in Names : dir'[n].exists =>
         kind'[n] = "lost" \/ (FileMoved(n, n) /\ n \notin Unclosed)
  BY <1>3 DEF FileMoved
<1>. QED
  BY <1>1, <1>2, <1>4, LengthsKept

-----------------------------------------------------------------------------
(* What disk_len finds.                                                    *)

\* The scan of a record stops at one place.
LEMMA TextEndUnique ==
    ASSUME NEW cells, NEW a \in 0 .. Sect, NEW b \in 0 .. Sect,
           TextEnd(cells, a), TextEnd(cells, b)
    PROVE  a = b
<1>1. ASSUME NEW c \in 0 .. Sect, NEW d \in 0 .. Sect, c < d,
             TextEnd(cells, c), TextEnd(cells, d)
      PROVE  FALSE
  <2>1. d - 1 \in c .. Sect - 1 /\ d > 0
    BY <1>1, BdosAssumption
  <2>. QED
    BY <1>1, <2>1 DEF TextEnd
<1>. QED
  BY <1>1, BdosAssumption

\* Multiples of the record size, one record apart.
LEMMA RecordBytes ==
    ASSUME NEW rc \in Nat
    PROVE  /\ rc * Sect \in Nat /\ (rc - 1) * Sect \in Int
           /\ rc * Sect = (rc - 1) * Sect + Sect
BY BdosAssumption

\* The length of a file nobody is writing, as an FCB that knows its records sees it.
LEMMA DiskLenExact ==
    ASSUME FilesTyped, BufferOk, NoneOk, NEW f \in File, f.name \in Names,
           NEW i, i # NULL,
           SameFcb(f, i), f.live, dir[f.name].exists, Regular(f), dir[f.name].alloc \subseteq f.alloc,
           Extent(f.name, dir[f.name].rc, dir[f.name].alloc),
           HasLrbc /\ ~f.text => /\ flen[f.name] = BinLen(dir[f.name])
                                 /\ f.open_lrbc = dir[f.name].lrbc,
           NEW d \in DiskLen(f, i)
    PROVE  IF f.text \/ HasLrbc THEN d.len = flen[f.name]
           ELSE flen[f.name] <= d.len /\ d.len = dir[f.name].rc * Sect
<1>. DEFINE n == f.name
            records == dir[n].rc
            last == Load(f, i, records - 1)
<1>1. records \in Nat /\ flen[n] \in Nat /\ F_SIZE(dir[n]) = records
  BY DEF FilesTyped, Entry, F_SIZE
<1>5. ASSUME NEW r \in Nat, r \in f.alloc
      PROVE  Load(f, i, r).code = "ok" /\ Load(f, i, r).dma = disk[n][r]
  <2>. DEFINE o == Load(f, i, r)
  <2>1. f.live /\ r \in f.alloc => o.code = "ok" /\ o.dma = disk[f.name][r]
    BY LoadSound
  <2>. QED
    BY <1>5, <2>1
<1>2. CASE records = 0
  <2>1. d.len = 0 /\ flen[n] = 0 /\ records * Sect = 0
    BY <1>1, <1>2, BdosAssumption DEF DiskLen, Extent
  <2>. QED
    BY <2>1
<1>3. CASE records # 0 /\ ~f.text
  <2>1. d.len = IF HasLrbc /\ f.open_lrbc # 0 THEN (records - 1) * Sect + f.open_lrbc
                ELSE records * Sect
    <3>. HIDE DEF last
    <3>. QED
      BY <1>1, <1>3 DEF DiskLen
  <2>. QED
    BY <1>1, <1>3, <2>1 DEF BinLen, Extent
<1>4. CASE records # 0 /\ f.text
  <2>1. kind[n] = "text"
    BY <1>1, <1>4, BdosAssumption, RecordBytes DEF Regular, NoneOk, Extent
  <2>2. records - 1 \in Nat /\ records - 1 \in f.alloc
    BY <1>1, <1>4 DEF Extent
  <2>3. last.code = "ok" /\ last.dma = disk[n][records - 1]
    BY <1>5, <2>2
  <2>4. PICK k \in 0 .. Sect : TextEnd(disk[n][records - 1], k)
                               /\ d.len = (records - 1) * Sect + k
    <3>. HIDE DEF last
    <3>1. d \in {[len |-> (records - 1) * Sect + k, o |-> last] :
                    k \in {e \in 0 .. Sect : TextEnd(last.dma, e)}}
      BY <1>1, <1>4, <2>3 DEF DiskLen, last
    <3>. QED
      BY <2>3, <3>1
  <2>. DEFINE l == flen[n] - (records - 1) * Sect
  <2>5. TextEnd(disk[n][records - 1], l) /\ l \in 0 .. Sect
        /\ flen[n] = (records - 1) * Sect + l
    <3>1. (records - 1) * Sect < flen[n] /\ flen[n] <= records * Sect
      BY <1>1, <1>4 DEF Extent
    <3>2. TextEnd(disk[n][records - 1], l)
      BY <1>4, <2>1 DEF Extent
    <3>3. /\ (records - 1) * Sect \in Int /\ Sect \in Nat
          /\ records * Sect = (records - 1) * Sect + Sect
      BY <1>1, RecordBytes, BdosAssumption
    <3>4. l \in 0 .. Sect /\ flen[n] = (records - 1) * Sect + l
      <4>. DEFINE base == (records - 1) * Sect
      <4>. HIDE DEF base
      <4>1. base \in Int /\ base < flen[n] /\ flen[n] <= base + Sect /\ l = flen[n] - base
        BY <3>1, <3>3 DEF base
      <4>2. l \in 0 .. Sect /\ flen[n] = base + l
        <5>. HIDE DEF l
        <5>. QED
          BY <1>1, <3>3, <4>1
      <4>. QED
        BY <4>2 DEF base
    <3>. QED
      BY <3>2, <3>4
  <2>6. k = l
    BY <2>4, <2>5, TextEndUnique
  <2>. QED
    BY <1>4, <2>4, <2>5, <2>6
<1>. QED
  BY <1>2, <1>3, <1>4

-----------------------------------------------------------------------------
(* Steps that open, extend or look at a handle.                            *)

\* While a handle that has not written is current, nobody has written its file.
LEMMA NotWritten ==
    ASSUME HandleInv, NEW i \in Slots, Live(i), Current(dfiles[i]), ~dfiles[i].wrote
    PROVE  ~Written(dfiles[i].name)
BY DEF HandleInv, HandlesOk, HandleSound, Exclusive, Current, Written

\* What the byte count says of a file nobody has written.
LEMMA CountKnown ==
    ASSUME CountOk, HasLrbc, NEW n \in Names, dir[n].exists, kind[n] \in {"none", "bin"},
           ~Written(n)
    PROVE  flen[n] = BinLen(dir[n])
BY DEF CountOk, Written

\* fp->len of an existing file is seeded right.
LEMMA LengthsOpened ==
    ASSUME HandleInv, BufferOk, Lengths, NEW i \in Slots, NEW n \in Names, NEW m \in Mode,
           ~dfiles[i].used, SopenExisting(i, n, m)
    PROVE  Lengths'
<1>. DEFINE f == Activated(n, m)
            e == dfiles'[i]
<1>1. FilesTyped /\ SlotsNamed /\ ExtentOk /\ WriterExtentOk /\ NoneOk /\ CountOk
      /\ StaleOk /\ LenOk /\ LrbcOk
  BY DEF HandleInv, TypeOK, TableConsistent, Lengths
<1>2. PICK d \in DiskLen(f, i) : dfiles'[i].len = d.len /\ SetCache(d.o)
  BY <1>1, SopenExistingFills
<1>3. /\ f \in File /\ f.name = n /\ f.live /\ f.alloc = dir[n].alloc
      /\ f.open_lrbc = (IF HasLrbc /\ ~m.text THEN dir[n].lrbc ELSE 0)
      /\ e.open_lrbc = f.open_lrbc
  BY <1>1, SopenExistingFills, ZenonT(60)
<1>4. f.text <=> m.text
  BY DEF Activated, Opening, FreeSlot
<1>5. /\ dir[n].exists /\ MayOpen(n, m)
      /\ dir' = dir /\ disk' = disk /\ UNCHANGED ghosts
      /\ \A j \in Slots \ {i} : dfiles'[j] = dfiles[j]
      /\ Live(i)'
  BY <1>1, SopenExistingEffect
<1>6. e.name = n /\ e.rc = dir[n].rc /\ e.wrote = FALSE
  BY <1>1, SopenExistingEffect
<1>7. (e.text <=> m.text) /\ (e.writable <=> m.writable)
  <2>1. e.text <=> m.text
    BY <1>1, SopenExistingEffect
  <2>2. e.writable <=> m.writable
    BY <1>1, SopenExistingEffect
  <2>. QED
    BY <2>1, <2>2
<1>8. ~OnDisk(i) /\ ~Live(i) /\ i # NULL
  BY DiskIOAssumption DEF OnDisk, Live, Slots, NULL
<1>9. \A j \in Slots \ {i} : Live(j)' <=> Live(j)
  BY <1>5, UnchangedHandle
<1>10. UNCHANGED <<flen, kind>>
  BY <1>5 DEF ghosts
<1>. HIDE DEF f, e
<1>11. ASSUME Current(e), Regular(f)
       PROVE  Exact(dfiles[i])'
  <2>1. ~Written(n)
    BY <1>5, <1>7, <1>11 DEF Written, MayOpen, OpenOn, HandleInv, HandlesOk, HandleSound,
                             Current, Live
  <2>2. kind[n] # "lost"
    BY <1>3, <1>11 DEF Regular
  <2>3. Extent(n, dir[n].rc, dir[n].alloc)
    BY <1>1, <1>5, <2>1, <2>2 DEF ExtentOk, Known
  <2>4. HasLrbc /\ ~f.text => flen[n] = BinLen(dir[n]) /\ f.open_lrbc = dir[n].lrbc
    BY <1>1, <1>3, <1>4, <1>5, <1>11, <2>1, CountKnown DEF Regular
  <2>5. SameFcb(f, i)
    BY <1>8 DEF SameFcb, BufferOk
  <2>6. IF f.text \/ HasLrbc THEN d.len = flen[n]
        ELSE flen[n] <= d.len /\ d.len = dir[n].rc * Sect
    BY <1>1, <1>3, <1>5, <1>8, <1>11, <2>3, <2>4, <2>5, DiskLenExact
  <2>7. dir[n].rc * Sect \in Nat
    BY <1>1, RecordBytes DEF FilesTyped, Entry
  <2>. QED
    BY <1>2, <1>4, <1>6, <1>7, <1>10, <2>6, <2>7 DEF Exact, e
<1>12. LenOk'
  <2>1. ASSUME NEW j \in Slots \ {i}, Live(j)', Regular(dfiles[j])', Current(dfiles[j])'
        PROVE  Exact(dfiles[j])'
    BY <1>1, <1>5, <1>9, <1>10, <2>1 DEF LenOk, Regular, Current, Exact
  <2>2. ASSUME Regular(dfiles[i])', Current(dfiles[i])'
        PROVE  Exact(dfiles[i])'
    <3>1. Regular(f)
      BY <1>3, <1>4, <1>6, <1>7, <1>10, <2>2 DEF Regular, e
    <3>2. Current(e)
      BY <2>2 DEF Current, e
    <3>. QED
      BY <1>11, <3>1, <3>2
  <2>. QED
    BY <2>1, <2>2 DEF LenOk
<1>13. LrbcOk'
  BY <1>1, <1>3, <1>5, <1>6, <1>7, <1>9 DEF LrbcOk, Current, e
<1>14. ExtentOk'
  <2>1. \A k \in Names : Written(k) => Written(k)'
    BY <1>5, <1>8, <1>9 DEF Written
  <2>. QED
    BY <1>1, <1>5, <1>10, <2>1 DEF ExtentOk, Extent, Known
<1>15. WriterExtentOk'
  <2>1. \A j \in Slots : Live(j)' /\ dfiles'[j].wrote => j # i
    BY <1>6 DEF e
  <2>. QED
    BY <1>1, <1>5, <1>9, <1>10, <2>1 DEF WriterExtentOk, Extent
<1>16. NoneOk'
  BY <1>1, <1>5, <1>10 DEF NoneOk
<1>17. CountOk'
  BY <1>1, <1>5, <1>8, <1>9, <1>10 DEF CountOk, BinLen
<1>18. StaleOk'
  BY <1>1, <1>5, <1>10 DEF StaleOk, CountKept
<1>. QED
  BY <1>12, <1>13, <1>14, <1>15, <1>16, <1>17, <1>18 DEF Lengths

\* The FCB of a handle that is current knows all there is of its file.
LEMMA FcbExtent ==
    ASSUME HandleInv, Lengths, NEW i \in Slots, Live(i), Current(dfiles[i]),
           kind[dfiles[i].name] # "lost"
    PROVE  Extent(dfiles[i].name, dfiles[i].rc, dfiles[i].alloc)
<1>. DEFINE f == dfiles[i]
            n == f.name
<1>1. TypeOK /\ SlotsNamed /\ ExtentOk /\ WriterExtentOk /\ HandlesOk
  BY DEF HandleInv, TableConsistent, Lengths
<1>2. CASE f.wrote
  BY <1>1, <1>2 DEF WriterExtentOk
<1>3. CASE ~f.wrote
  <2>1. n \in Names /\ dir[n].exists /\ HandleSound(f, dir[n])
    BY <1>1 DEF SlotsNamed, HandlesOk, HandleSound, Live
  <2>2. ~Written(n)
    BY <1>3, NotWritten
  <2>3. Extent(n, dir[n].rc, dir[n].alloc)
    BY <1>1, <2>1, <2>2 DEF ExtentOk, Known
  <2>4. f.alloc = dir[n].alloc /\ f.rc = dir[n].rc
    <3>1. f.rc \in Nat /\ dir[n].rc \in Nat
      BY <1>1, <2>1 DEF TypeOK, FilesTyped, File, Entry
    <3>. HIDE DEF f, n
    <3>. QED
      BY <1>3, <2>1, <3>1, SMTT(30) DEF HandleSound, f
  <2>. QED
    BY <2>3, <2>4
<1>. QED
  BY <1>2, <1>3

\* A handle about to write knows its file as the directory does.
LEMMA LengthsBegin ==
    ASSUME HandleInv, Lengths, NEW h \in Handles, NEW buf \in Buffers, QwriteBegin(h, buf)
    PROVE  Lengths'
<1>1. TypeOK /\ SlotsNamed /\ ExtentOk /\ WriterExtentOk /\ NoneOk /\ CountOk /\ StaleOk
      /\ LenOk /\ LrbcOk /\ HandlesOk
  BY DEF HandleInv, TableConsistent, Lengths
<1>2. PICK i \in Slots :
         LET f == dfiles[i]
             e == dfiles'[i]
         IN  /\ f \in File /\ OnDisk(i) /\ f.writable
             /\ OnDisk(i)' /\ e.name = f.name /\ e.writable = f.writable
             /\ e.text = f.text /\ e.len = f.len /\ e.open_lrbc = f.open_lrbc
             /\ e.alloc = f.alloc /\ e.rc = f.rc /\ e.live = f.live
             /\ e.wrote = TRUE
             /\ \A j \in Slots \ {i} : dfiles'[j] = dfiles[j]
             /\ UNCHANGED <<dir, disk, ghosts>>
  BY <1>1, QwriteBeginEffect
<1>3. \A j \in Slots : Live(j)' <=> Live(j)
  BY <1>2, UnchangedHandle DEF Live
<1>4. UNCHANGED <<dir, disk, flen, kind>>
  BY <1>2 DEF ghosts
<1>5. ASSUME Live(i), kind[dfiles[i].name] # "lost"
      PROVE  Extent(dfiles[i].name, dfiles[i].rc, dfiles[i].alloc)
  BY <1>2, <1>5, FcbExtent DEF Current
<1>6. ExtentOk'
  <2>1. \A k \in Names : Written(k) => Written(k)'
    BY <1>2, <1>3 DEF Written
  <2>. QED
    BY <1>1, <1>4, <2>1 DEF ExtentOk, Extent, Known
<1>7. WriterExtentOk'
  <2>1. ASSUME NEW j \in Slots \ {i}, Live(j)', dfiles'[j].wrote, kind'[dfiles'[j].name] # "lost"
        PROVE  Extent(dfiles[j].name, dfiles[j].rc, dfiles[j].alloc)'
    BY <1>1, <1>2, <1>3, <1>4, <2>1 DEF WriterExtentOk, Extent
  <2>2. ASSUME Live(i)', kind'[dfiles'[i].name] # "lost"
        PROVE  Extent(dfiles[i].name, dfiles[i].rc, dfiles[i].alloc)'
    BY <1>2, <1>3, <1>4, <1>5, <2>2 DEF Extent
  <2>. QED
    BY <2>1, <2>2 DEF WriterExtentOk
<1>8. NoneOk'
  BY <1>1, <1>4 DEF NoneOk
<1>9. CountOk'
  BY <1>1, <1>2, <1>3, <1>4 DEF CountOk, BinLen
<1>10. LenOk'
  BY <1>1, <1>2, <1>3, <1>4 DEF LenOk, Regular, Current, Exact
<1>11. LrbcOk'
  BY <1>1, <1>2, <1>3, <1>4 DEF LrbcOk, Current
<1>12. StaleOk'
  BY <1>1, <1>4 DEF StaleOk, CountKept
<1>. QED
  BY <1>6, <1>7, <1>8, <1>9, <1>10, <1>11, <1>12 DEF Lengths

\* The length of a file that is looked at again grows to what a writer has
\* committed, and is never wrong before for a handle that is current.
LEMMA LengthsRefreshed ==
    ASSUME HandleInv, BufferOk, Lengths, NEW i \in Slots, QreadRefresh(i),
           Live(i), Regular(dfiles[i]), Current(dfiles[i])
    PROVE  Exact(dfiles[i])'
<1>. DEFINE f == dfiles[i]
            n == f.name
<1>1. TypeOK /\ TableConsistent /\ FilesTyped /\ SlotsNamed /\ HandlesOk
      /\ ExtentOk /\ NoneOk /\ CountOk /\ LenOk /\ LrbcOk
  BY DEF HandleInv, TypeOK, TableConsistent, Lengths
<1>2. f \in File /\ n \in Names /\ ~f.wrote /\ i # NULL
  BY <1>1, ReadingTyped, DiskIOAssumption DEF QreadRefresh, Reading, Slots, NULL
<1>3. PICK d \in DiskLen(f, i) : dfiles' = [dfiles EXCEPT ![i].len = Refreshed(@, d.len)]
  BY DEF QreadRefresh
<1>4. /\ dfiles'[i].len = Max2(f.len, d.len) /\ dfiles'[i].text = f.text
      /\ dfiles'[i].name = n /\ dfiles'[i].rc = f.rc
  <2>1. dfiles'[i] = [f EXCEPT !.len = Max2(f.len, d.len)]
    BY <1>1, <1>3 DEF FilesTyped, Refreshed
  <2>. HIDE DEF f
  <2>. QED
    BY <1>2, <2>1 DEF File
<1>5. flen' = flen
  BY DEF QreadRefresh, ghosts
<1>6. dir[n].exists /\ dir[n].alloc \subseteq f.alloc /\ dir[n].rc <= f.rc
  BY <1>1 DEF HandlesOk, HandleSound
<1>7. ~Written(n)
  BY <1>2, NotWritten
<1>8. Extent(n, dir[n].rc, dir[n].alloc)
  BY <1>1, <1>2, <1>6, <1>7 DEF ExtentOk, Known, Regular
<1>9. HasLrbc /\ ~f.text => flen[n] = BinLen(dir[n]) /\ f.open_lrbc = dir[n].lrbc
  BY <1>1, <1>2, <1>6, <1>7, CountKnown DEF Regular, LrbcOk
<1>10. f.live /\ SameFcb(f, i)
  BY DEF SameFcb, Live
<1>11. IF f.text \/ HasLrbc THEN d.len = flen[n]
       ELSE flen[n] <= d.len /\ d.len = dir[n].rc * Sect
  BY <1>1, <1>2, <1>6, <1>8, <1>9, <1>10, DiskLenExact
<1>12. Exact(f)
  BY <1>1 DEF LenOk
<1>13. /\ f.rc * Sect \in Nat /\ dir[n].rc * Sect \in Nat /\ dir[n].rc * Sect <= f.rc * Sect
       /\ f.len \in Nat /\ flen[n] \in Nat
  <2>1. f.rc \in Nat /\ dir[n].rc \in Nat /\ f.len \in Nat /\ flen[n] \in Nat
    BY <1>1, <1>2 DEF FilesTyped, File, Entry
  <2>2. dir[n].rc * Sect <= f.rc * Sect
    BY <1>6, <2>1, BdosAssumption
  <2>. QED
    BY <2>1, <2>2, RecordBytes
<1>. HIDE DEF f, n
<1>14. CASE f.text \/ HasLrbc
  <2>1. dfiles'[i].len = flen[n]
    BY <1>4, <1>11, <1>12, <1>13, <1>14 DEF Exact, Max2, n
  <2>. QED
    BY <1>4, <1>5, <1>14, <2>1 DEF Exact, n, f
<1>15. CASE ~(f.text \/ HasLrbc)
  <2>1. flen[n] <= dfiles'[i].len /\ dfiles'[i].len <= f.rc * Sect
    BY <1>4, <1>11, <1>12, <1>13, <1>15 DEF Exact, Max2, n
  <2>. QED
    BY <1>4, <1>5, <1>15, <2>1 DEF Exact, n, f
<1>. QED
  BY <1>14, <1>15

LEMMA LengthsQuiet ==
    ASSUME HandleInv, BufferOk, Lengths, Quiet
    PROVE  Lengths'
<1>1. ExtentOk /\ WriterExtentOk /\ NoneOk /\ CountOk /\ StaleOk /\ LenOk /\ LrbcOk
  BY DEF Lengths
<1>2. UNCHANGED <<dir, disk, flen, kind>> /\ \A j \in Slots : KeepsFile(j)
  BY DEF Quiet, ghosts
<1>3. \A j \in Slots : Live(j)' <=> Live(j)
  BY <1>2 DEF KeepsFile, Live
<1>4. \A j \in Slots : Live(j) => /\ dfiles'[j].name = dfiles[j].name
                                  /\ (dfiles'[j].writable <=> dfiles[j].writable)
                                  /\ (dfiles'[j].text <=> dfiles[j].text)
                                  /\ (dfiles'[j].wrote <=> dfiles[j].wrote)
                                  /\ dfiles'[j].open_lrbc = dfiles[j].open_lrbc
                                  /\ dfiles'[j].alloc = dfiles[j].alloc
                                  /\ dfiles'[j].rc = dfiles[j].rc
  BY <1>2 DEF KeepsFile, Live
<1>5. ExtentOk'
  <2>1. \A k \in Names : Written(k) => Written(k)'
    BY <1>3, <1>4 DEF Written
  <2>. QED
    BY <1>1, <1>2, <2>1 DEF ExtentOk, Extent, Known
<1>6. WriterExtentOk'
  BY <1>1, <1>2, <1>3, <1>4 DEF WriterExtentOk, Extent
<1>7. NoneOk'
  BY <1>1, <1>2 DEF NoneOk
<1>8. CountOk'
  BY <1>1, <1>2, <1>3, <1>4 DEF CountOk, BinLen
<1>9. LrbcOk'
  BY <1>1, <1>2, <1>3, <1>4 DEF LrbcOk, Current
<1>10. ASSUME NEW j \in Slots, Live(j)', Regular(dfiles[j])', Current(dfiles[j])'
       PROVE  Exact(dfiles[j])'
  <2>1. Live(j) /\ Regular(dfiles[j]) /\ Current(dfiles[j])
    BY <1>2, <1>3, <1>4, <1>10 DEF Regular, Current
  <2>2. CASE dfiles'[j].len = dfiles[j].len
    BY <1>1, <1>2, <1>4, <2>1, <2>2 DEF LenOk, Exact
  <2>3. CASE dfiles'[j].len # dfiles[j].len
    <3>1. PICK i \in Slots : QreadRefresh(i)
      BY <2>1, <2>3 DEF Quiet, Live
    <3>2. CASE i = j
      BY <2>1, <3>1, <3>2, LengthsRefreshed
    <3>3. CASE i # j
      <4>1. dfiles'[j] = dfiles[j]
        BY <3>1, <3>3 DEF QreadRefresh, HandleInv, TypeOK, FilesTyped
      <4>. QED
        BY <2>3, <4>1
    <3>. QED
      BY <3>2, <3>3
  <2>. QED
    BY <2>2, <2>3
<1>11. LenOk'
  BY <1>10 DEF LenOk
<1>12. StaleOk'
  BY <1>1, <1>2 DEF StaleOk, CountKept
<1>. QED
  BY <1>5, <1>6, <1>7, <1>8, <1>9, <1>11, <1>12 DEF Lengths

-----------------------------------------------------------------------------
(* Records and bytes.                                                      *)

\* The length L takes rc records.
Takes(rc, L) == L <= rc * Sect /\ (rc = 0 => L = 0) /\ (rc # 0 => (rc - 1) * Sect < L)

\* No length takes two numbers of records.
LEMMA TakesOne ==
    ASSUME NEW a \in Nat, NEW b \in Nat, NEW L \in Nat, Takes(a, L), Takes(b, L)
    PROVE  a = b
<1>1. ASSUME NEW c \in Nat, NEW d \in Nat, c < d, Takes(c, L), Takes(d, L)
      PROVE  FALSE
  <2>1. c <= d - 1 /\ d - 1 \in Nat /\ d # 0
    BY <1>1
  <2>2. c * Sect <= (d - 1) * Sect /\ c * Sect \in Nat /\ (d - 1) * Sect \in Nat
    BY <2>1, BdosAssumption
  <2>. QED
    BY <1>1, <2>1, <2>2 DEF Takes
<1>. QED
  BY <1>1

\* The last record is full, or holds what the length leaves over.
LEMMA LastRecord ==
    ASSUME NEW rc \in Nat, NEW L \in Nat, Takes(rc, L)
    PROVE  /\ L % Sect # 0 => L = (rc - 1) * Sect + (L % Sect)
           /\ L % Sect = 0 => L = rc * Sect
<1>. DEFINE q == L \div Sect
            r == L % Sect
<1>1. L = Sect * q + r /\ r \in 0 .. Sect - 1 /\ q \in Int
  BY DivMod
<1>. HIDE DEF q, r
<1>2. Sect * rc = rc * Sect /\ Sect * (rc - 1) = (rc - 1) * Sect
      /\ Sect * (rc - 1) = Sect * rc - Sect /\ Sect * rc \in Nat /\ Sect * q \in Int
      /\ Sect \in Nat \ {0}
  BY <1>1, BdosAssumption
<1>3. CASE rc = 0
  <2>1. Sect * 0 + 0 = Sect * q + r
    BY <1>1, <1>2, <1>3 DEF Takes
  <2>2. r = 0 /\ L = 0
    BY <1>1, <1>2, <1>3, <2>1, Unique DEF Takes
  <2>. QED
    BY <1>2, <1>3, <2>2 DEF r
<1>4. CASE rc # 0
  <2>1. Sect * rc - Sect < Sect * q + r /\ Sect * q + r <= Sect * rc
    BY <1>1, <1>2, <1>4 DEF Takes
  <2>2. CASE r # 0
    <3>1. Sect * (q - (rc - 1)) = Sect * q - (Sect * rc - Sect)
      BY <1>1, <1>2
    <3>2. Sect * (q - (rc - 1)) > -Sect /\ Sect * (q - (rc - 1)) < Sect
      BY <1>1, <1>2, <2>1, <2>2, <3>1
    <3>3. q - (rc - 1) = 0
      BY <1>1, <3>2, BdosAssumption
    <3>4. L = (rc - 1) * Sect + r
      BY <1>1, <1>2, <3>3
    <3>. QED
      BY <2>2, <3>4 DEF r
  <2>3. CASE r = 0
    <3>1. Sect * (q - rc) = Sect * q - Sect * rc
      BY <1>1, <1>2
    <3>2. Sect * (q - rc) > -Sect /\ Sect * (q - rc) < Sect
      BY <1>1, <1>2, <2>1, <2>3, <3>1
    <3>3. q - rc = 0
      BY <1>1, <3>2, BdosAssumption
    <3>4. L = rc * Sect
      BY <1>1, <1>2, <2>3, <3>3
    <3>. QED
      BY <2>3, <3>4 DEF r
  <2>. QED
    BY <2>2, <2>3
<1>. QED
  BY <1>3, <1>4

\* Where the length and the last record of a file of rc records are after a write
\* that ends at the position end, before the byte to of record rec.
Grows(rc, L, rec, to, end) ==
    /\ Takes(Max2(rc, rec + 1), Max2(L, end)) /\ Max2(rc, rec + 1) # 0
    /\ rc < rec + 1 => Max2(L, end) = end
    /\ rc = rec + 1 => Max2(L, end) = rec * Sect + Max2(L - rec * Sect, to)
    /\ rc > rec + 1 => Max2(L, end) = L
    /\ end <= Max2(rc, rec + 1) * Sect

LEMMA WriteTakes ==
    ASSUME NEW rc \in Nat, NEW L \in Nat, Takes(rc, L), NEW rec \in Nat,
           NEW to \in 1 .. Sect, NEW end, end = rec * Sect + to
    PROVE  Grows(rc, L, rec, to, end)
<1>1. /\ Sect \in Nat \ {0} /\ rec * Sect \in Nat /\ (rec + 1) * Sect = rec * Sect + Sect
      /\ rc * Sect \in Nat /\ (rc - 1) * Sect = rc * Sect - Sect
  BY BdosAssumption
<1>2. to \in Nat
  BY <1>1
<1>3. end \in Nat /\ rec * Sect < end /\ end <= rec * Sect + Sect
  BY <1>1, <1>2
<1>4. CASE rc < rec + 1
  <2>1. rc * Sect <= rec * Sect
    BY <1>4, BdosAssumption
  <2>2. Max2(L, end) = end /\ Max2(rc, rec + 1) = rec + 1
    BY <1>1, <1>3, <1>4, <2>1 DEF Takes, Max2
  <2>. QED
    BY <1>1, <1>3, <1>4, <2>2 DEF Takes, Grows
<1>5. CASE rc = rec + 1
  <2>1. Max2(rc, rec + 1) = rc /\ rec * Sect < L /\ L <= rec * Sect + Sect
    BY <1>1, <1>5 DEF Takes, Max2
  <2>2. Max2(L, end) = rec * Sect + Max2(L - rec * Sect, to)
    BY <1>1, <1>2, <1>3 DEF Max2
  <2>3. rec * Sect < Max2(L, end) /\ Max2(L, end) <= rec * Sect + Sect
    BY <1>1, <1>3, <2>1 DEF Max2
  <2>. QED
    BY <1>1, <1>3, <1>5, <2>1, <2>2, <2>3 DEF Takes, Grows
<1>6. CASE rc > rec + 1
  <2>1. (rec + 1) * Sect <= (rc - 1) * Sect
    BY <1>6, BdosAssumption
  <2>2. Max2(rc, rec + 1) = rc /\ Max2(L, end) = L /\ end <= rc * Sect
    BY <1>1, <1>3, <1>6, <2>1 DEF Takes, Max2
  <2>. QED
    BY <1>6, <2>2 DEF Grows
<1>. QED
  BY <1>4, <1>5, <1>6

\* Text laid over a padded record moves its padding to the end of what is in it.
LEMMA MergedEnd ==
    ASSUME NEW cells, NEW l \in 0 .. Sect, TextEnd(cells, l), NEW off \in Offs,
           NEW n \in Nat \ {0}, off + n <= Sect, NEW buf, NEW total \in Nat,
           buf[total + n] # CtrlZ
    PROVE  TextEnd(Merged(cells, off, n, buf, total), Max2(l, off + n))
<1>. DEFINE new == Merged(cells, off, n, buf, total)
            e == Max2(l, off + n)
<1>1. /\ Sect \in Nat \ {0} /\ off \in Nat /\ off < Sect /\ Offs = 0 .. Sect - 1
      /\ e \in 1 .. Sect /\ e >= l /\ e >= off + n /\ (e = l \/ e = off + n)
  BY BdosAssumption DEF Offs, Max2
<1>2. \A k \in Offs : new[k] = IF off <= k /\ k < off + n THEN buf[total + k - off + 1]
                               ELSE cells[k]
  BY DEF Merged
<1>. HIDE DEF new, e
<1>3. ASSUME NEW k \in e .. Sect - 1
      PROVE  new[k] = CtrlZ
  <2>1. k \in Offs /\ ~(k < off + n) /\ k \in l .. Sect - 1
    BY <1>1
  <2>. QED
    BY <1>2, <2>1 DEF TextEnd
<1>4. new[e - 1] # CtrlZ
  <2>1. e - 1 \in Offs
    BY <1>1
  <2>2. CASE e = off + n
    <3>1. off <= e - 1 /\ e - 1 < off + n /\ total + (e - 1) - off + 1 = total + n
      BY <1>1, <2>2
    <3>. QED
      BY <1>2, <2>1, <3>1
  <2>3. CASE e = l /\ e # off + n
    <3>1. ~(e - 1 < off + n) /\ l > 0
      BY <1>1, <2>3
    <3>2. new[e - 1] = cells[e - 1]
      BY <1>2, <2>1, <3>1
    <3>. QED
      BY <2>3, <3>1, <3>2 DEF TextEnd
  <2>. QED
    BY <1>1, <2>2, <2>3
<1>. QED
  BY <1>3, <1>4 DEF TextEnd, new, e

\* What a turn of __qwrite leaves of the last record of the file.
LEMMA WriteExtent ==
    ASSUME HandleInv, BufferOk, Lengths, NEW i \in Slots, QwriteRecord(i),
           NEW k \in Names, k = dfiles[i].name, kind'[k] # "lost"
    PROVE  /\ Extent(k, dfiles[i].rc, dfiles[i].alloc)'
           /\ dfiles'[i].pos <= dfiles'[i].rc * Sect
<1>. DEFINE f == dfiles[i]
            rec == f.pos \div Sect
            off == f.pos % Sect
            n == Span(f.pos, Len(call.buf) - call.total)
            o == Load(f, i, rec)
            cells == Merged(o.dma, off, n, call.buf, call.total)
<1>1. TypeOK /\ TableConsistent /\ FilesTyped /\ HandlesOk /\ WriterExtentOk /\ NoneOk
  BY DEF HandleInv, TypeOK, Lengths
<1>2. PICK g \in Gaps(f, rec) :
         /\ Live(i) /\ rec \in Recs
         /\ dfiles'[i].name = f.name
         /\ dfiles'[i].alloc = f.alloc \cup {rec} \cup g
         /\ dfiles'[i].rc = Max2(f.rc, rec + 1)
         /\ dfiles'[i].pos = f.pos + n
         /\ disk'[f.name] = Stored(disk[f.name], rec, cells, g)
  BY <1>1, QwriteRecordEffect
<1>3. /\ f \in File /\ f.rc \in Nat /\ n \in Nat \ {0} /\ f.pos \in Nat
      /\ rec \in Nat /\ off \in Offs /\ flen[k] \in Nat /\ i # NULL /\ f.live
      /\ call.total \in Nat /\ call.total + n <= Len(call.buf)
      /\ call.buf \in Seq(Bytes \cup {CtrlZ})
      /\ call.op = "write" /\ call.slot = i
  <2>1. /\ f \in File /\ n \in Nat \ {0} /\ f.pos \in Nat
        /\ call.total \in Nat /\ rec \in Nat /\ off \in Offs
        /\ call.buf \in Seq(Bytes \cup {CtrlZ}) /\ call.total + n <= Len(call.buf)
    BY <1>1, WritingTyped DEF QwriteRecord
  <2>2. call.op = "write" /\ call.slot = i
    BY DEF QwriteRecord, Writing
  <2>3. i # NULL /\ f.live
    BY <1>2, DiskIOAssumption DEF Live, Slots, NULL
  <2>4. flen[k] \in Nat
    BY <1>1 DEF FilesTyped
  <2>. HIDE DEF f, n, rec, off
  <2>5. f.rc \in Nat
    BY <2>1 DEF File
  <2>. QED
    BY <2>1, <2>2, <2>3, <2>4, <2>5
<1>4. off + n <= Sect
  <2>1. Len(call.buf) - call.total \in Nat \ {0}
    BY <1>3 DEF QwriteRecord
  <2>. QED
    BY <1>3, <2>1, SpanFits
<1>5. /\ flen'[k] = Max2(flen[k], f.pos + n)
      /\ kind'[k] = KindAfter(kind[k], f)
  BY <1>1, QwriteRecordGhosts
<1>6. f.wrote /\ Legal(f, call.buf)
  BY <1>3 DEF HandleInv, WriterOk
<1>7. kind[k] # "lost" /\ Extent(k, f.rc, f.alloc)
  <2>1. kind[k] # "lost"
    BY <1>5 DEF KindAfter
  <2>. QED
    BY <1>1, <1>2, <1>6, <2>1 DEF WriterExtentOk
<1>8. f.pos + n = rec * Sect + (off + n)
  <2>1. f.pos = Sect * rec + off
    <3>1. ASSUME NEW p \in Nat
          PROVE  p = Sect * (p \div Sect) + (p % Sect)
      BY DivMod
    <3>. QED
      BY <1>3, <3>1
  <2>2. Sect * rec = rec * Sect
    BY <1>3, BdosAssumption
  <2>3. rec * Sect \in Nat /\ off \in Nat
    BY <1>3, BdosAssumption DEF Offs
  <2>. HIDE DEF rec, off, n, f
  <2>. QED
    BY <1>3, <2>1, <2>2, <2>3
<1>9. \A r \in f.alloc : r < f.rc
  BY <1>1, <1>2 DEF HandlesOk, HandleSound
<1>10. (rec \in f.alloc => o.dma = disk[k][rec]) /\ (rec \notin f.alloc => o.dma = AllCtrlZ)
  BY <1>1, <1>3, LoadSound DEF SameFcb
<1>11. f.text => call.buf[call.total + n] # CtrlZ
  <2>1. call.total + n \in DOMAIN call.buf
    <3>. DEFINE buf == call.buf
                t == call.total
    <3>1. DOMAIN buf = 1 .. Len(buf)
      BY <1>3, LenProperties
    <3>2. t + n \in 1 .. Len(buf)
      <4>1. Len(buf) \in Nat
        BY <1>3, LenProperties
      <4>. HIDE DEF buf, t, n
      <4>. QED
        BY <1>3, <4>1 DEF buf, t
    <3>. QED
      BY <3>1, <3>2
  <2>. QED
    BY <1>6, <2>1 DEF Legal
<1>. DEFINE rc2 == Max2(f.rc, rec + 1)
            L == flen[k]
            L2 == Max2(L, f.pos + n)
<1>12. Takes(f.rc, L)
  BY <1>7 DEF Takes, Extent
<1>. HIDE DEF f, rec, off, n, o, cells, L, rc2, L2
<1>13. /\ Takes(rc2, L2) /\ rc2 # 0
       /\ f.rc < rec + 1 => L2 = f.pos + n
       /\ f.rc = rec + 1 => L2 = rec * Sect + Max2(L - rec * Sect, off + n)
       /\ f.rc > rec + 1 => L2 = L
       /\ f.pos + n <= rc2 * Sect
  <2>1. L \in Nat /\ off + n \in 1 .. Sect
    BY <1>3, <1>4, BdosAssumption DEF L, Offs
  <2>2. Grows(f.rc, L, rec, off + n, f.pos + n)
    BY <1>3, <1>8, <1>12, <2>1, WriteTakes
  <2>. QED
    BY <2>2 DEF rc2, L2, Grows
<1>14. rec * Sect \in Nat /\ L \in Nat /\ Sect \in Nat
  BY <1>3, BdosAssumption DEF L
<1>15. ASSUME kind'[k] = "text"
       PROVE  TextEnd(disk'[k][rc2 - 1], L2 - (rc2 - 1) * Sect)
  <2>1. f.text /\ kind[k] \in {"none", "text"}
    BY <1>5, <1>15 DEF KindAfter
  <2>2. f.rc # 0 => kind[k] = "text" /\ TextEnd(disk[k][f.rc - 1], L - (f.rc - 1) * Sect)
                    /\ f.rc - 1 \in f.alloc
    <3>1. f.rc # 0 => (f.rc - 1) * Sect < L /\ (f.rc - 1) * Sect \in Nat
      <4>1. ASSUME NEW m \in Nat
            PROVE  m * Sect \in Nat
        BY BdosAssumption
      <4>2. f.rc # 0 => f.rc - 1 \in Nat
        BY <1>3
      <4>. QED
        BY <1>12, <4>1, <4>2 DEF Takes
    <3>2. f.rc # 0 => L # 0
      BY <1>14, <3>1
    <3>3. dir[k].exists
      BY <1>1, <1>2 DEF HandlesOk, HandleSound, f
    <3>4. f.rc # 0 => kind[k] = "text"
      BY <1>1, <2>1, <3>2, <3>3 DEF NoneOk, L
    <3>. QED
      BY <1>7, <3>4 DEF Extent, L
  <2>3. CASE f.rc < rec + 1
    <3>1. rc2 = rec + 1 /\ rec \notin f.alloc
      BY <1>3, <1>9, <2>3 DEF rc2, Max2
    <3>2. disk'[k][rec] = cells
      BY <1>2 DEF Stored, f
    <3>3. TextEnd(AllCtrlZ, 0)
      BY DEF TextEnd, AllCtrlZ, Offs
    <3>4. TextEnd(cells, Max2(0, off + n))
      BY <1>3, <1>4, <1>10, <1>11, <2>1, <3>1, <3>3, BdosAssumption, MergedEnd DEF cells
    <3>5. L2 - rec * Sect = Max2(0, off + n)
      BY <1>3, <1>8, <1>13, <1>14, <2>3 DEF Max2, Offs
    <3>6. rc2 - 1 = rec
      BY <1>3, <3>1
    <3>. QED
      BY <3>2, <3>4, <3>5, <3>6
  <2>4. CASE f.rc = rec + 1
    <3>1. rc2 = rec + 1 /\ f.rc # 0 /\ f.rc - 1 = rec /\ rc2 - 1 = rec
      BY <1>3, <2>4 DEF rc2, Max2
    <3>2. disk'[k][rec] = cells
      BY <1>2 DEF Stored, f
    <3>. DEFINE l == L - rec * Sect
    <3>3. l \in 0 .. Sect /\ TextEnd(o.dma, l)
      <4>1. TextEnd(o.dma, l)
        BY <1>10, <2>2, <3>1
      <4>2. rec * Sect < L /\ L <= rec * Sect + Sect
        <5>1. f.rc * Sect = rec * Sect + Sect
          BY <1>3, <2>4, BdosAssumption
        <5>. QED
          BY <1>12, <3>1, <5>1 DEF Takes
      <4>. QED
        BY <1>14, <4>1, <4>2
    <3>. HIDE DEF l
    <3>4. TextEnd(cells, Max2(l, off + n))
      BY <1>3, <1>4, <1>11, <2>1, <3>3, MergedEnd DEF cells
    <3>5. L2 - rec * Sect = Max2(l, off + n)
      BY <1>3, <1>13, <1>14, <2>4, <3>3 DEF Max2, Offs, l
    <3>. QED
      BY <3>1, <3>2, <3>4, <3>5
  <2>5. CASE f.rc > rec + 1
    <3>1. rc2 = f.rc /\ f.rc # 0 /\ f.rc - 1 # rec
      BY <1>3, <2>5 DEF rc2, Max2
    <3>2. f.rc - 1 \in Recs /\ f.rc - 1 \notin g
      BY <1>3, <2>2, <3>1 DEF File, Gaps
    <3>3. disk'[k][f.rc - 1] = disk[k][f.rc - 1]
      BY <1>2, <3>1, <3>2 DEF Stored, f
    <3>. QED
      BY <1>13, <2>2, <2>5, <3>1, <3>3
  <2>. QED
    BY <1>3, <2>3, <2>4, <2>5
<1>16. rc2 - 1 \in f.alloc \cup {rec} \cup g
  <2>1. CASE f.rc <= rec + 1
    <3>1. rc2 = rec + 1
      BY <1>3, <2>1 DEF rc2, Max2
    <3>. QED
      BY <1>3, <3>1
  <2>2. CASE f.rc > rec + 1
    <3>1. rc2 = f.rc /\ f.rc # 0
      BY <1>3, <2>2 DEF rc2, Max2
    <3>. QED
      BY <1>7, <3>1 DEF Extent
  <2>. QED
    BY <1>3, <2>1, <2>2
<1>17. flen'[k] = L2 /\ dfiles'[i].rc = rc2 /\ dfiles'[i].alloc = f.alloc \cup {rec} \cup g
  BY <1>2, <1>5 DEF L, L2, rc2
<1>. QED
  BY <1>2, <1>13, <1>15, <1>16, <1>17 DEF Extent, Takes

\* A turn of __qwrite moves the length of its file, fp->len and the FCB together.
LEMMA LengthsWrite ==
    ASSUME HandleInv, BufferOk, Lengths, NEW i \in Slots, QwriteRecord(i)
    PROVE  Lengths'
<1>. DEFINE f == dfiles[i]
            rec == f.pos \div Sect
            n == Span(f.pos, Len(call.buf) - call.total)
<1>1. /\ TypeOK /\ TableConsistent /\ FilesTyped /\ SlotsNamed /\ HandlesOk /\ Exclusive
      /\ ExtentOk /\ WriterExtentOk /\ NoneOk /\ CountOk /\ StaleOk /\ LenOk /\ LrbcOk
  BY DEF HandleInv, TypeOK, TableConsistent, Lengths
<1>2. PICK g \in Gaps(f, rec) :
         /\ Live(i) /\ Live(i)' /\ dfiles'[i].name = f.name
         /\ dfiles'[i].writable = f.writable /\ dfiles'[i].text = f.text
         /\ dfiles'[i].wrote = f.wrote /\ dfiles'[i].open_lrbc = f.open_lrbc
         /\ dfiles'[i].rc = Max2(f.rc, rec + 1)
         /\ dfiles'[i].pos = f.pos + n /\ dfiles'[i].len = LenAfter(f, n)
         /\ \A j \in Slots \ {i} : dfiles'[j] = dfiles[j]
         /\ \A k \in Names \ {f.name} : disk'[k] = disk[k]
         /\ dir' = dir
  BY <1>1, QwriteRecordEffect
<1>3. /\ f \in File /\ f.name \in Names /\ n \in Nat \ {0} /\ f.pos \in Nat /\ rec \in Nat
  BY <1>1, WritingTyped DEF QwriteRecord
<1>4. /\ flen'[f.name] = Max2(flen[f.name], f.pos + n)
      /\ kind'[f.name] = KindAfter(kind[f.name], f)
      /\ \A k \in Names \ {f.name} : flen'[k] = flen[k] /\ kind'[k] = kind[k]
  BY <1>1, QwriteRecordGhosts
<1>5. f.wrote /\ f.writable
  BY DEF QwriteRecord, Writing, HandleInv, WriterOk
<1>6. \A j \in Slots \ {i} : Live(j)' <=> Live(j)
  BY <1>2, UnchangedHandle
<1>7. ASSUME NEW j \in Slots \ {i}, Live(j), dfiles[j].name = f.name
      PROVE  ~Current(dfiles[j]) /\ ~dfiles[j].wrote
  <2>1. "shared" \in Usage /\ ~(f.writable /\ dfiles[j].writable)
    BY <1>1, <1>2, <1>7 DEF Exclusive
  <2>2. dfiles[j].wrote => dfiles[j].writable
    BY <1>1, <1>7 DEF HandlesOk, HandleSound
  <2>. QED
    BY <1>5, <2>1, <2>2 DEF Current
<1>8. kind'[f.name] # "none"
  BY <1>4 DEF KindAfter
<1>. HIDE DEF rec, n
<1>9. ASSUME kind'[f.name] # "lost"
      PROVE  /\ Extent(f.name, dfiles[i].rc, dfiles[i].alloc)'
             /\ dfiles'[i].pos <= dfiles'[i].rc * Sect
  <2>1. ASSUME NEW k \in Names, k = dfiles[i].name, kind'[k] # "lost"
        PROVE  /\ Extent(k, dfiles[i].rc, dfiles[i].alloc)'
               /\ dfiles'[i].pos <= dfiles'[i].rc * Sect
    BY <2>1, WriteExtent
  <2>. QED
    BY <1>2, <1>3, <1>9, <2>1 DEF Extent
<1>10. ExtentOk'
  <2>1. \A k \in Names : Written(k) => Written(k)'
    BY <1>2, <1>6 DEF Written
  <2>2. Written(f.name)
    BY <1>2, <1>5 DEF Written
  <2>3. ASSUME NEW k \in Names \ {f.name}, Known(k)'
        PROVE  Written(k)' \/ Extent(k, dir[k].rc, dir[k].alloc)'
    BY <1>1, <1>2, <1>4, <2>1, <2>3 DEF ExtentOk, Extent, Known
  <2>. HIDE DEF f
  <2>. QED
    BY <2>1, <2>2, <2>3 DEF ExtentOk
<1>11. WriterExtentOk'
  <2>1. ASSUME NEW j \in Slots \ {i}, Live(j)', dfiles'[j].wrote, kind'[dfiles'[j].name] # "lost"
        PROVE  Extent(dfiles[j].name, dfiles[j].rc, dfiles[j].alloc)'
    <3>1. Live(j) /\ dfiles'[j] = dfiles[j] /\ dfiles[j].name \in Names \ {f.name}
      BY <1>1, <1>2, <1>6, <1>7, <2>1 DEF SlotsNamed, Live
    <3>. QED
      BY <1>1, <1>2, <1>4, <2>1, <3>1 DEF WriterExtentOk, Extent
  <2>. QED
    BY <1>2, <1>9, <2>1 DEF WriterExtentOk, Extent
<1>12. NoneOk'
  BY <1>1, <1>2, <1>4, <1>8 DEF NoneOk
<1>13. CountOk'
  <2>1. ASSUME HasLrbc, NEW k \in Names \ {f.name}, dir'[k].exists, kind'[k] \in {"none", "bin"}
        PROVE  \/ \E j \in Slots : /\ Live(j)' /\ dfiles'[j].name = k
                                   /\ dfiles'[j].wrote /\ ~dfiles'[j].text
               \/ flen'[k] = BinLen(dir'[k])
    BY <1>1, <1>2, <1>4, <1>6, <2>1 DEF CountOk
  <2>2. kind'[f.name] \in {"none", "bin"} => ~f.text
    BY <1>4 DEF KindAfter
  <2>. HIDE DEF f
  <2>. QED
    BY <1>2, <1>5, <2>1, <2>2 DEF CountOk
<1>14. LenOk'
  <2>1. ASSUME NEW j \in Slots \ {i}, Live(j)', Regular(dfiles[j])', Current(dfiles[j])'
        PROVE  Exact(dfiles[j])'
    <3>1. Live(j) /\ dfiles'[j] = dfiles[j] /\ Current(dfiles[j])
      BY <1>2, <1>6, <2>1 DEF Current
    <3>2. dfiles[j].name \in Names \ {f.name}
      BY <1>1, <1>7, <3>1 DEF SlotsNamed, Live
    <3>. QED
      BY <1>1, <1>4, <2>1, <3>1, <3>2 DEF LenOk, Regular, Exact
  <2>2. ASSUME Regular(dfiles[i])'
        PROVE  Exact(dfiles[i])'
    <3>1. Regular(f) /\ kind'[f.name] # "lost"
      BY <1>2, <1>4, <2>2 DEF Regular, KindAfter
    <3>2. Exact(f)
      BY <1>1, <1>2, <1>5, <3>1 DEF LenOk, Current
    <3>3. f.len \in Nat /\ flen[f.name] \in Nat /\ f.rc \in Nat
      BY <1>1, <1>3 DEF FilesTyped, File
    <3>4. f.rc * Sect <= dfiles'[i].rc * Sect
      <4>1. f.rc <= dfiles'[i].rc /\ dfiles'[i].rc \in Nat
        BY <1>2, <1>3, <3>3 DEF Max2
      <4>. QED
        BY <3>3, <4>1, BdosAssumption
    <3>5. f.rc * Sect \in Nat /\ dfiles'[i].rc * Sect \in Nat
      BY <1>2, <1>3, <3>3, RecordBytes DEF Max2
    <3>6. f.pos + n <= dfiles'[i].rc * Sect
      BY <1>2, <1>9, <3>1
    <3>. HIDE DEF f
    <3>7. CASE f.text \/ HasLrbc
      BY <1>2, <1>4, <3>2, <3>7 DEF Exact, LenAfter
    <3>8. CASE ~(f.text \/ HasLrbc)
      <4>1. flen'[f.name] <= dfiles'[i].len /\ dfiles'[i].len <= dfiles'[i].rc * Sect
        BY <1>2, <1>3, <1>4, <3>2, <3>3, <3>4, <3>5, <3>6, <3>8 DEF Exact, LenAfter, Max2
      <4>. QED
        BY <1>2, <3>8, <4>1 DEF Exact
    <3>. QED
      BY <3>7, <3>8
  <2>. QED
    BY <2>1, <2>2 DEF LenOk
<1>15. LrbcOk'
  BY <1>1, <1>2, <1>6 DEF LrbcOk, Current
<1>16. StaleOk'
  <2>1. ASSUME NEW k \in Names \ {f.name}, dir'[k].exists, kind'[k] \in {"bin", "stale"}
        PROVE  CountKept(k)'
    BY <1>1, <1>2, <1>4, <2>1 DEF StaleOk, CountKept
  <2>2. ASSUME NEW k \in Names, k = f.name, dir'[k].exists, kind'[k] \in {"bin", "stale"}
        PROVE  CountKept(k)'
    <3>1. kind'[k] = "bin" /\ kind[k] \in {"none", "bin"}
      BY <1>4, <2>2 DEF KindAfter
    <3>. QED
      BY <1>1, <1>2, <2>2, <3>1 DEF StaleOk, CountKept, NoneOk
  <2>3. \A k \in Names : k = f.name \/ k \in Names \ {f.name}
    OBVIOUS
  <2>. HIDE DEF f
  <2>. QED
    BY <2>1, <2>2, <2>3 DEF StaleOk
<1>. QED
  BY <1>10, <1>11, <1>12, <1>13, <1>14, <1>15, <1>16 DEF Lengths

-----------------------------------------------------------------------------
(* __close.                                                                *)

\* Closing a handle that has written nothing.
LEMMA LengthsCloseRead ==
    ASSUME HandleInv, Lengths, NEW i \in Slots, CloseFile(i), ~dfiles[i].wrote
    PROVE  Lengths'
<1>. DEFINE f == dfiles[i]
            n == f.name
<1>1. FilesTyped /\ SlotsNamed /\ HandlesOk
  BY DEF HandleInv, TypeOK, TableConsistent
<1>2. /\ f \in File /\ n \in Names /\ Live(i) /\ ~OnDisk(i)'
      /\ \A j \in Slots \ {i} :
            /\ Live(j)' => Live(j) /\ dfiles'[j] = dfiles[j]
            /\ Live(j) /\ ~Live(j)' => SetsCount(f)
      /\ dir'[n].alloc = dir[n].alloc \cup f.alloc
      /\ dir'[n].rc = Max2(dir[n].rc, f.rc)
      /\ dir'[n].lrbc = IF SetsCount(f) THEN f.len % Sect ELSE dir[n].lrbc
      /\ dir'[n].exists = dir[n].exists
      /\ \A k \in Names \ {n} : dir'[k] = dir[k]
  BY <1>1, CloseFileEffect
<1>3. ~SetsCount(f) /\ ~CountIsStale(kind[n], dir[n], f)
  BY DEF SetsCount, CountIsStale
<1>4. disk' = disk /\ flen' = flen /\ kind' = kind
  <2>1. kind' = [kind EXCEPT ![n] = kind[n]]
    BY <1>3 DEF CloseFile
  <2>. QED
    BY <1>1, <2>1 DEF CloseFile, FilesTyped
<1>5. HandleSound(f, dir[n])
  BY <1>1, <1>2 DEF HandlesOk
<1>6. f.rc \in Nat /\ dir[n].rc \in Nat
  BY <1>1, <1>2 DEF FilesTyped, File, Entry
<1>. HIDE DEF f, n
<1>7. dir'[n].alloc = dir[n].alloc /\ dir'[n].rc = dir[n].rc /\ dir'[n].lrbc = dir[n].lrbc
  BY <1>2, <1>3, <1>5, <1>6 DEF HandleSound, Max2, f
<1>8. \A k \in Names : dir'[k].exists => FileMoved(k, k) /\ WritersKept(k)
  <2>1. \A k \in Names : dir[k].exists => FileMoved(k, k)
    BY <1>2, <1>4, <1>7 DEF FileMoved
  <2>2. \A k \in Names : WritersKept(k)
    BY <1>2, <1>3 DEF WritersKept
  <2>3. \A k \in Names : dir'[k].exists => dir[k].exists
    BY <1>2
  <2>. QED
    BY <2>1, <2>2, <2>3
<1>9. \A j \in Slots : Live(j)' => HandleKept(j)
  <2>1. ASSUME NEW j \in Slots, Live(j)'
        PROVE  HandleKept(j)
    <3>1. Live(j) /\ dfiles'[j] = dfiles[j] /\ dfiles[j].name \in Names
          /\ dir[dfiles[j].name].exists
      BY <1>1, <1>2, <2>1 DEF HandlesOk, HandleSound, SlotsNamed, Live
    <3>. QED
      BY <1>2, <1>4, <1>7, <2>1, <3>1 DEF HandleKept, FileMoved
  <2>. QED
    BY <2>1
<1>. QED
  BY <1>1, <1>8, <1>9, LengthsKept

\* The length a byte count stands for takes the records of its entry.
LEMMA BinLenTakes ==
    ASSUME NEW e \in Entry, BinLen(e) \in Nat
    PROVE  Takes(e.rc, BinLen(e))
<1>1. e.rc \in Nat /\ e.lrbc \in Nat /\ e.lrbc < Sect /\ Sect \in Nat \ {0}
  BY BdosAssumption DEF Entry, Offs
<1>2. e.rc * Sect \in Nat /\ (e.rc - 1) * Sect \in Int
      /\ e.rc * Sect = (e.rc - 1) * Sect + Sect
  BY <1>1, RecordBytes
<1>3. e.rc = 0 => e.rc * Sect = 0
  BY <1>1
<1>. QED
  BY <1>1, <1>2, <1>3 DEF BinLen, Takes

\* F_CLOSE and F_ATTRIB leave in the entry of a binary file the length its writer
\* knew.
LEMMA CountClosed ==
    ASSUME HandleInv, Lengths, NEW i \in Slots, CloseFile(i), dfiles[i].wrote, HasLrbc,
           NEW n \in Names, n = dfiles[i].name, kind'[n] \in {"none", "bin"}
    PROVE  flen[n] = BinLen(dir'[n])
<1>. DEFINE f == dfiles[i]
<1>1. /\ FilesTyped /\ SlotsNamed /\ HandlesOk /\ Exclusive
      /\ WriterExtentOk /\ NoneOk /\ CountOk /\ LenOk
  BY DEF HandleInv, TypeOK, TableConsistent, Lengths
<1>2. /\ f \in File /\ Live(i)
      /\ dir'[n].rc = Max2(dir[n].rc, f.rc)
      /\ dir'[n].lrbc = IF SetsCount(f) THEN f.len % Sect ELSE dir[n].lrbc
  BY <1>1, CloseFileEffect
<1>3. HandleSound(f, dir[n]) /\ f.writable
  BY <1>1, <1>2 DEF HandlesOk, HandleSound
<1>4. f.rc \in Nat /\ dir[n].rc \in Nat /\ flen[n] \in Nat /\ dir[n] \in Entry
  BY <1>1, <1>2 DEF FilesTyped, File, Entry
<1>5. kind[n] \in {"none", "bin"} /\ ~CountIsStale(kind[n], dir[n], f)
  <2>1. kind' = [kind EXCEPT ![n] = IF CountIsStale(kind[n], dir[n], f) THEN "stale"
                                    ELSE kind[n]]
    BY DEF CloseFile
  <2>. QED
    BY <1>1, <2>1 DEF FilesTyped
<1>6. Takes(f.rc, flen[n])
  BY <1>1, <1>2, <1>5 DEF WriterExtentOk, Extent, Takes
<1>7. dir[n].exists
  BY <1>3 DEF HandleSound
<1>. HIDE DEF f
<1>8. dir'[n].rc = f.rc
  BY <1>2, <1>3, <1>4 DEF HandleSound, Current, Max2, f
<1>9. CASE ~f.text
  <2>1. Regular(f) /\ Current(f)
    BY <1>3, <1>5, <1>9 DEF Regular, Current, f
  <2>2. f.len = flen[n]
    BY <1>1, <1>2, <2>1 DEF LenOk, Exact, f
  <2>3. CASE flen[n] % Sect # 0
    <3>1. SetsCount(f)
      BY <1>9, <2>2, <2>3 DEF SetsCount, f
    <3>2. flen[n] = (f.rc - 1) * Sect + (flen[n] % Sect)
      BY <1>4, <1>6, <2>3, LastRecord
    <3>. QED
      BY <1>2, <1>8, <2>2, <2>3, <3>1, <3>2 DEF BinLen
  <2>4. CASE flen[n] % Sect = 0
    <3>1. ~SetsCount(f) /\ dir[n].lrbc = 0
      BY <1>1, <1>5, <1>7, <1>9, <2>2, <2>4 DEF SetsCount, CountIsStale, NoneOk, f
    <3>2. flen[n] = f.rc * Sect
      BY <1>4, <1>6, <2>4, LastRecord
    <3>. QED
      BY <1>2, <1>8, <3>1, <3>2 DEF BinLen
  <2>. QED
    BY <2>3, <2>4
<1>10. CASE f.text
  <2>1. ~SetsCount(f)
    BY <1>10 DEF SetsCount
  <2>2. ASSUME NEW j \in Slots, Live(j), dfiles[j].name = n, dfiles[j].wrote
        PROVE  dfiles[j].text
    <3>1. dfiles[j].writable
      BY <1>1, <2>2 DEF HandlesOk, HandleSound
    <3>2. j = i
      BY <1>1, <1>2, <1>3, <2>2, <3>1 DEF Exclusive, f
    <3>. QED
      BY <1>10, <3>2 DEF f
  <2>3. flen[n] = BinLen(dir[n])
    BY <1>1, <1>5, <1>7, <2>2 DEF CountOk
  <2>4. Takes(dir[n].rc, flen[n])
    BY <1>4, <2>3, BinLenTakes
  <2>5. dir[n].rc = f.rc
    BY <1>4, <1>6, <2>4, TakesOne
  <2>. QED
    BY <1>2, <1>8, <2>1, <2>3, <2>5 DEF BinLen
<1>. QED
  BY <1>9, <1>10

\* A byte count that F_CLOSE leaves behind is one of a last record, and what it
\* falls short of is the rest of that record.
LEMMA StaleClosed ==
    ASSUME HandleInv, Lengths, NEW i \in Slots, CloseFile(i), dfiles[i].wrote,
           NEW n \in Names, n = dfiles[i].name, kind'[n] \in {"bin", "stale"}
    PROVE  CountKept(n)'
<1>. DEFINE f == dfiles[i]
<1>1. /\ FilesTyped /\ SlotsNamed /\ HandlesOk
      /\ WriterExtentOk /\ StaleOk /\ LenOk
  BY DEF HandleInv, TypeOK, TableConsistent, Lengths
<1>2. /\ f \in File /\ Live(i)
      /\ dir'[n].rc = Max2(dir[n].rc, f.rc)
      /\ dir'[n].lrbc = IF SetsCount(f) THEN f.len % Sect ELSE dir[n].lrbc
  BY <1>1, CloseFileEffect
<1>3. HandleSound(f, dir[n]) /\ f.writable
  BY <1>1, <1>2 DEF HandlesOk, HandleSound
<1>4. f.rc \in Nat /\ dir[n].rc \in Nat /\ flen[n] \in Nat
  BY <1>1, <1>2 DEF FilesTyped, File, Entry
<1>5. /\ flen' = flen
      /\ kind'[n] = IF CountIsStale(kind[n], dir[n], f) THEN "stale" ELSE kind[n]
  <2>1. kind' = [kind EXCEPT ![n] = IF CountIsStale(kind[n], dir[n], f) THEN "stale"
                                    ELSE kind[n]]
        /\ flen' = flen
    BY DEF CloseFile
  <2>. QED
    BY <1>1, <2>1 DEF FilesTyped
<1>6. kind[n] \in {"bin", "stale"}
  BY <1>5 DEF CountIsStale
<1>7. dir[n].exists
  BY <1>3 DEF HandleSound
<1>8. CountKept(n)
  BY <1>1, <1>6, <1>7 DEF StaleOk
<1>9. Takes(f.rc, flen[n])
  BY <1>1, <1>2, <1>6 DEF WriterExtentOk, Extent, Takes
<1>10. dir'[n].rc = f.rc /\ (dir[n].rc # 0 => f.rc # 0)
  <2>. HIDE DEF f
  <2>. QED
    BY <1>2, <1>3, <1>4 DEF HandleSound, Current, Max2, f
<1>11. kind[n] = "bin" /\ ~f.text /\ HasLrbc => f.len = flen[n]
  BY <1>1, <1>2, <1>3 DEF LenOk, Regular, Current, Exact
<1>12. 0 % Sect = 0
  BY BdosAssumption
<1>13. SetsCount(f) => ~f.text /\ HasLrbc /\ f.len % Sect # 0
  BY DEF SetsCount
<1>14. CountIsStale(kind[n], dir[n], f) =>
          kind[n] = "bin" /\ ~f.text /\ dir[n].lrbc # 0 /\ f.len % Sect = 0
  BY DEF CountIsStale
<1>. HIDE DEF f
<1>15. dir'[n].lrbc # 0 => HasLrbc /\ f.rc # 0
  <2>1. CASE SetsCount(f) /\ kind[n] = "bin"
    BY <1>9, <1>11, <1>12, <1>13, <2>1 DEF Takes
  <2>2. CASE SetsCount(f) /\ kind[n] = "stale"
    BY <1>8, <1>10, <1>13, <2>2 DEF CountKept
  <2>3. CASE ~SetsCount(f)
    BY <1>2, <1>8, <1>10, <2>3 DEF CountKept
  <2>. QED
    BY <1>6, <2>1, <2>2, <2>3
<1>16. ASSUME kind'[n] = "stale"
       PROVE  dir'[n].lrbc # 0 /\ flen[n] = f.rc * Sect
  <2>1. CASE kind[n] = "stale"
    <3>1. dir[n].lrbc # 0 /\ flen[n] = dir[n].rc * Sect /\ dir[n].rc # 0
      BY <1>8, <2>1 DEF CountKept
    <3>2. Takes(dir[n].rc, flen[n])
      BY <1>4, <3>1, RecordBytes, BdosAssumption DEF Takes
    <3>3. dir[n].rc = f.rc
      BY <1>4, <1>9, <3>2, TakesOne
    <3>. QED
      BY <1>2, <1>13, <3>1, <3>3
  <2>2. CASE kind[n] = "bin"
    <3>1. ~f.text /\ dir[n].lrbc # 0 /\ f.len % Sect = 0
      BY <1>5, <1>14, <1>16, <2>2
    <3>2. HasLrbc
      BY <1>8, <3>1 DEF CountKept
    <3>3. flen[n] % Sect = 0
      BY <1>11, <2>2, <3>1, <3>2
    <3>4. flen[n] = f.rc * Sect
      BY <1>4, <1>9, <3>3, LastRecord
    <3>. QED
      BY <1>2, <1>13, <3>1, <3>4
  <2>. QED
    BY <1>6, <2>1, <2>2
<1>. QED
  BY <1>5, <1>10, <1>15, <1>16 DEF CountKept

\* Closing the handle of a writer commits the length it knew.
LEMMA LengthsCloseWritten ==
    ASSUME HandleInv, Lengths, NEW i \in Slots, CloseFile(i), dfiles[i].wrote
    PROVE  Lengths'
<1>. DEFINE f == dfiles[i]
            n == f.name
<1>1. /\ FilesTyped /\ SlotsNamed /\ HandlesOk /\ Exclusive
      /\ ExtentOk /\ WriterExtentOk /\ NoneOk /\ CountOk /\ StaleOk /\ LenOk /\ LrbcOk
  BY DEF HandleInv, TypeOK, TableConsistent, Lengths
<1>2. /\ f \in File /\ n \in Names /\ Live(i) /\ ~OnDisk(i)'
      /\ \A j \in Slots \ {i} :
            /\ Live(j)' => Live(j) /\ dfiles'[j] = dfiles[j]
            /\ Live(j) /\ ~Live(j)' => dfiles[j].name = n
      /\ dir'[n].exists = dir[n].exists
      /\ dir'[n].alloc = dir[n].alloc \cup f.alloc
      /\ dir'[n].rc = Max2(dir[n].rc, f.rc)
      /\ dir'[n].lrbc = IF SetsCount(f) THEN f.len % Sect ELSE dir[n].lrbc
      /\ \A k \in Names \ {n} : dir'[k] = dir[k]
  BY <1>1, CloseFileEffect
<1>3. HandleSound(f, dir[n]) /\ f.writable
  BY <1>1, <1>2 DEF HandlesOk, HandleSound
<1>4. f.rc \in Nat /\ dir[n].rc \in Nat /\ flen[n] \in Nat
  BY <1>1, <1>2 DEF FilesTyped, File, Entry
<1>5. /\ disk' = disk /\ flen' = flen
      /\ \A k \in Names \ {n} : kind'[k] = kind[k]
      /\ kind'[n] = IF CountIsStale(kind[n], dir[n], f) THEN "stale" ELSE kind[n]
  <2>1. /\ disk' = disk /\ flen' = flen
        /\ kind' = [kind EXCEPT ![n] = IF CountIsStale(kind[n], dir[n], f) THEN "stale"
                                       ELSE kind[n]]
    BY DEF CloseFile
  <2>. HIDE DEF f, n
  <2>. QED
    BY <1>1, <1>2, <2>1 DEF FilesTyped
<1>6. ASSUME NEW j \in Slots, Live(j)'
      PROVE  /\ Live(j) /\ dfiles'[j] = dfiles[j] /\ dfiles[j].name \in Names
             /\ Current(dfiles[j]) \/ dfiles[j].wrote => dfiles[j].name # n
  <2>1. j # i /\ Live(j) /\ dfiles'[j] = dfiles[j]
    BY <1>2, <1>6 DEF Live
  <2>2. dfiles[j].wrote => dfiles[j].writable
    BY <1>1, <2>1 DEF HandlesOk, HandleSound
  <2>. QED
    BY <1>1, <1>2, <1>3, <2>1, <2>2 DEF Exclusive, Current, SlotsNamed, Live
<1>7. \A k \in Names \ {n} : \A j \in Slots :
         Live(j) /\ dfiles[j].name = k => Live(j)' /\ dfiles'[j] = dfiles[j]
  BY <1>2
<1>8. HasLrbc /\ kind'[n] \in {"none", "bin"} => flen[n] = BinLen(dir'[n])
  BY <1>2, CountClosed
<1>9. dir'[n].rc = f.rc /\ dir'[n].alloc = f.alloc
  <2>. HIDE DEF f, n
  <2>. QED
    BY <1>2, <1>3, <1>4 DEF HandleSound, Current, Max2, f
<1>10. kind[n] # "lost" => Extent(n, f.rc, f.alloc)
  BY <1>1, <1>2 DEF WriterExtentOk
<1>11. dir[n].exists
  BY <1>3 DEF HandleSound
<1>12. kind[n] = "none" => dir'[n].lrbc = 0
  <2>1. kind[n] = "none" /\ SetsCount(f) => f.len = flen[n]
    BY <1>1, <1>2, <1>3 DEF LenOk, Regular, Current, Exact, SetsCount
  <2>2. 0 % Sect = 0
    BY BdosAssumption
  <2>3. kind[n] = "none" => flen[n] = 0 /\ dir[n].lrbc = 0
    BY <1>1, <1>2, <1>11 DEF NoneOk
  <2>. HIDE DEF f, n
  <2>. QED
    BY <1>2, <2>1, <2>2, <2>3
<1>. HIDE DEF f, n
<1>13. ExtentOk'
  <2>1. ASSUME NEW k \in Names \ {n}, Known(k)'
        PROVE  Written(k)' \/ Extent(k, dir[k].rc, dir[k].alloc)'
    <3>1. Written(k) => Written(k)'
      BY <1>7 DEF Written
    <3>. QED
      BY <1>1, <1>2, <1>5, <2>1, <3>1 DEF ExtentOk, Extent, Known
  <2>2. ASSUME NEW k \in Names, k = n, Known(k)'
        PROVE  Extent(k, dir[k].rc, dir[k].alloc)'
    <3>1. kind[k] # "lost" /\ (kind'[k] = "text" => kind[k] = "text")
      BY <1>5, <2>2 DEF Known, CountIsStale
    <3>. QED
      BY <1>5, <1>9, <1>10, <2>2, <3>1 DEF Extent
  <2>3. \A k \in Names : k = n \/ k \in Names \ {n}
    OBVIOUS
  <2>. QED
    BY <2>1, <2>2, <2>3 DEF ExtentOk
<1>14. WriterExtentOk'
  <2>1. ASSUME NEW j \in Slots, Live(j)', dfiles'[j].wrote, kind'[dfiles'[j].name] # "lost"
        PROVE  Extent(dfiles[j].name, dfiles[j].rc, dfiles[j].alloc)'
    <3>1. Live(j) /\ dfiles'[j] = dfiles[j] /\ dfiles[j].name \in Names \ {n}
      BY <1>6, <2>1
    <3>. QED
      BY <1>1, <1>5, <2>1, <3>1 DEF WriterExtentOk, Extent
  <2>. QED
    BY <2>1 DEF WriterExtentOk
<1>15. NoneOk'
  BY <1>1, <1>2, <1>5, <1>12 DEF NoneOk
<1>16. CountOk'
  <2>1. ASSUME HasLrbc, NEW k \in Names \ {n}, dir'[k].exists, kind'[k] \in {"none", "bin"}
        PROVE  \/ \E j \in Slots : /\ Live(j)' /\ dfiles'[j].name = k
                                   /\ dfiles'[j].wrote /\ ~dfiles'[j].text
               \/ flen'[k] = BinLen(dir'[k])
    BY <1>1, <1>2, <1>5, <1>7, <2>1 DEF CountOk
  <2>. QED
    BY <1>5, <1>8, <2>1 DEF CountOk
<1>17. LenOk'
  <2>1. ASSUME NEW j \in Slots, Live(j)', Regular(dfiles[j])', Current(dfiles[j])'
        PROVE  Exact(dfiles[j])'
    <3>1. Live(j) /\ dfiles'[j] = dfiles[j] /\ Current(dfiles[j])
          /\ dfiles[j].name \in Names \ {n}
      BY <1>6, <2>1 DEF Current
    <3>. QED
      BY <1>1, <1>5, <2>1, <3>1 DEF LenOk, Regular, Exact
  <2>. QED
    BY <2>1 DEF LenOk
<1>18. LrbcOk'
  <2>1. ASSUME NEW j \in Slots, Live(j)', ~dfiles'[j].text, HasLrbc, Current(dfiles'[j])
        PROVE  dfiles'[j].open_lrbc = dir'[dfiles'[j].name].lrbc
    <3>1. Live(j) /\ dfiles'[j] = dfiles[j] /\ dfiles[j].name \in Names \ {n}
      BY <1>6, <2>1 DEF Current
    <3>. QED
      BY <1>1, <1>2, <2>1, <3>1 DEF LrbcOk
  <2>. QED
    BY <2>1 DEF LrbcOk, Current
<1>19. StaleOk'
  <2>1. ASSUME NEW k \in Names \ {n}, dir'[k].exists, kind'[k] \in {"bin", "stale"}
        PROVE  CountKept(k)'
    BY <1>1, <1>2, <1>5, <2>1 DEF StaleOk, CountKept
  <2>2. ASSUME NEW k \in Names, k = n, kind'[k] \in {"bin", "stale"}
        PROVE  CountKept(k)'
    BY <2>2, StaleClosed DEF n, f
  <2>3. \A k \in Names : k = n \/ k \in Names \ {n}
    OBVIOUS
  <2>. QED
    BY <2>1, <2>2, <2>3 DEF StaleOk
<1>. QED
  BY <1>13, <1>14, <1>15, <1>16, <1>17, <1>18, <1>19 DEF Lengths

-----------------------------------------------------------------------------
(* The invariant.                                                          *)

LEMMA LengthsInit == Init => Lengths
<1>. SUFFICES ASSUME Init PROVE Lengths
  OBVIOUS
<1>1. \A j \in Slots : ~Live(j)
  BY FreeTyped DEF Init, Live, OnDisk
<1>2. \A n \in Names : ~dir[n].exists
  BY DEF Init, NoEntry
<1>. QED
  BY <1>1, <1>2 DEF Lengths, ExtentOk, WriterExtentOk, NoneOk, CountOk, StaleOk,
                         LenOk, LrbcOk, Known

\* Every step keeps the lengths the disk, the FCBs and the handles know together.
LEMMA LengthsNext ==
    ASSUME HandleInv, BufferOk, Lengths, [Next]_vars
    PROVE  Lengths'
<1>1. TypeOK /\ TableConsistent /\ FilesTyped
  BY DEF HandleInv, TypeOK
<1>2. ASSUME NEW i \in Slots, NEW n \in Names, NEW m \in Mode, Sopen(i, n, m)
      PROVE  Lengths'
  <2>1. ~dfiles[i].used
    BY <1>2 DEF Sopen, FirstFree
  <2>. QED
    BY <1>2, <2>1, LengthsMade, LengthsOpened DEF Sopen, SopenTrunc, SopenCreate
<1>3. ASSUME NEW i \in Slots, CloseFile(i)
      PROVE  Lengths'
  BY <1>3, LengthsCloseRead, LengthsCloseWritten
<1>. QED
  BY <1>1, <1>2, <1>3, StepKinds, LengthsQuiet, LengthsBegin, LengthsWrite, LengthsNamed,
     LengthsReboot

LEMMA LengthInvNext ==
    ASSUME "probe_cached" \notin Usage
    PROVE  LengthInv /\ [Next]_vars => LengthInv'
BY ContentNext, LengthsNext DEF LengthInv, ContentInv

\* The invariant holds of every program that keeps its buffer.
LEMMA LengthInvAlways ==
    ASSUME "probe_cached" \notin Usage
    PROVE  Spec => []LengthInv
<1>1. Init => LengthInv
  BY ContentInit, LengthsInit DEF LengthInv
<1>. QED
  BY <1>1, LengthInvNext, PTL DEF Spec

-----------------------------------------------------------------------------
(* Lengths of closed and of open files.                                    *)

\* The records a length takes are those it rounds up to.
LEMMA TakesRoundUp ==
    ASSUME NEW rc \in Nat, NEW L \in Nat, Takes(rc, L)
    PROVE  rc * Sect <= RoundUp(L)
<1>. DEFINE p == L + Sect - 1
            q == p \div Sect
            r == p % Sect
<1>1. p \in Int
  BY BdosAssumption
<1>2. p = Sect * q + r /\ r \in 0 .. Sect - 1 /\ q \in Int
  BY <1>1, DivMod
<1>3. RoundUp(L) = q * Sect
  BY DEF RoundUp
<1>4. p = L + Sect - 1
  OBVIOUS
<1>. HIDE DEF p, q, r
<1>5. /\ Sect \in Nat \ {0} /\ rc * Sect \in Nat /\ (rc - 1) * Sect = rc * Sect - Sect
      /\ Sect * q = q * Sect /\ q * Sect \in Int
  BY <1>2, BdosAssumption
<1>6. rc * Sect < q * Sect + Sect
  BY <1>2, <1>4, <1>5 DEF Takes
<1>7. (rc - q) * Sect = rc * Sect - q * Sect
  BY <1>2, BdosAssumption
<1>8. rc - q <= 0
  BY <1>2, <1>5, <1>6, <1>7
<1>9. (rc - q) * Sect <= 0
  BY <1>2, <1>5, <1>8
<1>. QED
  BY <1>3, <1>5, <1>7, <1>9

\* What F_OPEN and disk_len make of a closed file.
LEMMA ReopenedExactly ==
    ASSUME LengthInv, NEW n \in Names, Closed(n), NEW text \in BOOLEAN,
           kind[n] = IF text THEN "text" ELSE "bin", NEW len \in Reopened(n, text)
    PROVE  Exactly(len, n, text)
<1>. DEFINE m == [readable |-> TRUE, writable |-> FALSE, append |-> FALSE,
                  text |-> text, trunc |-> FALSE, creat |-> FALSE]
            f == Activated(n, m)
<1>1. FilesTyped /\ BufferOk /\ ExtentOk /\ NoneOk /\ CountOk
  BY DEF LengthInv, ContentInv, HandleInv, TypeOK, Lengths
<1>2. f \in File /\ f.name = n
  BY <1>1, OpenedTyped DEF Mode
<1>3. /\ f.alloc = dir[n].alloc /\ f.live /\ f.text = text
      /\ f.open_lrbc = IF HasLrbc /\ ~text THEN dir[n].lrbc ELSE 0
  BY DEF Activated, Opening, FreeSlot
<1>4. PICK d \in DiskLen(f, DiskMax) : len = d.len
  BY DEF Reopened
<1>5. DiskMax # NULL /\ cache_fp # DiskMax
  BY <1>1, DiskIOAssumption DEF FilesTyped, Slots, NULL
<1>6. dir[n].exists /\ ~Written(n)
  BY DEF Closed, Written, OpenOn, Live
<1>7. Extent(n, dir[n].rc, dir[n].alloc)
  BY <1>1, <1>6 DEF ExtentOk, Known
<1>. HIDE DEF f, m
<1>8. HasLrbc /\ ~f.text => flen[n] = BinLen(dir[n]) /\ f.open_lrbc = dir[n].lrbc
  BY <1>1, <1>3, <1>6, CountKnown
<1>9. Regular(f) /\ SameFcb(f, DiskMax)
  BY <1>2, <1>3, <1>5 DEF Regular, SameFcb
<1>10. IF f.text \/ HasLrbc THEN len = flen[n]
       ELSE flen[n] <= len /\ len = dir[n].rc * Sect
  BY <1>1, <1>2, <1>3, <1>4, <1>5, <1>6, <1>7, <1>8, <1>9, DiskLenExact
<1>11. dir[n].rc * Sect <= RoundUp(flen[n])
  BY <1>1, <1>7, TakesRoundUp DEF Extent, Takes, FilesTyped, Entry
<1>. QED
  BY <1>3, <1>10, <1>11 DEF Exactly

\* A file of whole records whose byte count is that of an earlier length.
LEMMA ReopenedStale ==
    ASSUME LengthInv, NEW n \in Names, Closed(n), kind[n] = "stale",
           NEW len \in Reopened(n, FALSE)
    PROVE  len < flen[n] /\ RoundUp(len) = flen[n]
<1>. DEFINE m == [readable |-> TRUE, writable |-> FALSE, append |-> FALSE,
                  text |-> FALSE, trunc |-> FALSE, creat |-> FALSE]
            f == Activated(n, m)
            rc == dir[n].rc
            lrbc == dir[n].lrbc
<1>1. FilesTyped /\ StaleOk
  BY DEF LengthInv, ContentInv, HandleInv, TypeOK, Lengths
<1>2. CountKept(n)
  BY <1>1 DEF StaleOk, Closed
<1>3. /\ HasLrbc /\ lrbc # 0 /\ rc # 0 /\ flen[n] = rc * Sect
      /\ rc \in Nat /\ lrbc \in Offs
  BY <1>1, <1>2 DEF CountKept, FilesTyped, Entry
<1>4. f.name = n /\ f.text = FALSE /\ f.open_lrbc = lrbc
  BY <1>3 DEF Activated, Opening, FreeSlot
<1>5. PICK d \in DiskLen(f, DiskMax) : len = d.len
  BY DEF Reopened
<1>. HIDE DEF f, m
<1>. HIDE DEF rc, lrbc
<1>6. len = (rc - 1) * Sect + lrbc
  <2>. DEFINE last == Load(f, DiskMax, rc - 1)
  <2>1. F_SIZE(dir[n]) = rc
    BY DEF F_SIZE, Closed, rc
  <2>. HIDE DEF last
  <2>2. d.len = IF HasLrbc /\ f.open_lrbc # 0 THEN (rc - 1) * Sect + f.open_lrbc
               ELSE rc * Sect
    BY <1>3, <1>4, <1>5, <2>1 DEF DiskLen
  <2>. QED
    BY <1>3, <1>4, <1>5, <2>2
<1>7. /\ Sect \in Nat \ {0} /\ lrbc \in 1 .. Sect - 1
      /\ rc * Sect \in Nat /\ (rc - 1) * Sect = rc * Sect - Sect /\ rc * Sect = Sect * rc
  BY <1>3, BdosAssumption DEF Offs
<1>8. len < flen[n]
  BY <1>3, <1>6, <1>7
<1>. DEFINE p == len + Sect - 1
            q == p \div Sect
            r == p % Sect
<1>9. p \in Int /\ p = Sect * rc + (lrbc - 1) /\ lrbc - 1 \in 0 .. Sect - 1
  BY <1>6, <1>7
<1>10. RoundUp(len) = q * Sect
  BY DEF RoundUp
<1>11. p = Sect * q + r /\ r \in 0 .. Sect - 1 /\ q \in Int
  <2>. HIDE DEF p
  <2>. QED
    BY <1>9, DivMod
<1>. HIDE DEF p, q, r
<1>12. q = rc
  BY <1>3, <1>9, <1>11, Unique
<1>. QED
  BY <1>3, <1>8, <1>10, <1>12

\* As long as no access, stat or utime lands in the buffer while it caches a
\* record, the program that opens a closed file next, in the mode it was written in,
\* finds the length its writers left: through the Ctrl-Z padding for text, through
\* the record count and the last record byte count for binary.  Three kinds of file
\* are excepted: one written in both modes and one never closed, of which nothing is
\* said, and a binary file that grew to whole records over an earlier byte count,
\* which falls short by less than a record.
THEOREM LengthsLast ==
    ASSUME "probe_cached" \notin Usage
    PROVE  Spec => []LengthDurable
<1>1. ASSUME LengthInv
      PROVE  LengthDurable
  BY <1>1, ReopenedExactly, ReopenedStale DEF LengthDurable
<1>. QED
  BY <1>1, LengthInvAlways, PTL

\* Under the same condition, as long as no file is opened while another handle has
\* it open, fp->len is the exact length of the file through every write and close.
THEOREM LengthsTracked ==
    ASSUME Usage \cap {"probe_cached", "shared"} = {}
    PROVE  Spec => []LengthTracked
<1>1. ASSUME LengthInv
      PROVE  LengthTracked
  <2>1. HandleInv /\ Lengths /\ FilesTyped /\ SlotsNamed
    BY <1>1 DEF LengthInv, ContentInv, HandleInv, TypeOK, TableConsistent
  <2>2. ASSUME NEW i \in Slots, Live(i), Regular(dfiles[i])
        PROVE  Exactly(dfiles[i].len, dfiles[i].name, dfiles[i].text)
    <3>. DEFINE f == dfiles[i]
    <3>1. Exact(f)
      BY <2>1, <2>2 DEF Lengths, LenOk, Current
    <3>2. Extent(f.name, f.rc, f.alloc)
      BY <2>1, <2>2, FcbExtent DEF Current, Regular
    <3>3. f.rc \in Nat /\ flen[f.name] \in Nat /\ f.len \in Nat
      BY <2>1, <2>2 DEF FilesTyped, File, SlotsNamed, Live
    <3>4. f.rc * Sect <= RoundUp(flen[f.name])
      BY <3>2, <3>3, TakesRoundUp DEF Extent, Takes
    <3>5. RoundUp(flen[f.name]) \in Int /\ f.rc * Sect \in Nat
      <4>1. ASSUME NEW p \in Int
            PROVE  (p \div Sect) * Sect \in Int
        BY BdosAssumption, DivMod
      <4>2. flen[f.name] + Sect - 1 \in Int
        BY <3>3, BdosAssumption
      <4>. QED
        BY <3>3, <4>1, <4>2, RecordBytes DEF RoundUp
    <3>. HIDE DEF f
    <3>. QED
      BY <3>1, <3>3, <3>4, <3>5 DEF Exact, Exactly, f
  <2>. QED
    BY <2>2 DEF LengthTracked, Live
<1>2. Spec => []LengthInv
  BY LengthInvAlways
<1>. QED
  BY <1>1, <1>2, PTL

-----------------------------------------------------------------------------
(* Appends.                                                                *)

\* While a write is in progress only its turns change what files hold.
LEMMA WritesOnly ==
    ASSUME call.op = "write", [Next]_vars
    PROVE  \/ content' = content
           \/ \E i \in Slots : QwriteRecord(i)
<1>1. call # Idle
  BY DEF Idle
<1>2. CASE UserCall
  BY <1>1, <1>2 DEF UserCall, Open, OpenConsole, QwriteBegin, QreadBegin, MayUse, Lseek, Close,
                    Remove, StatProbe, Chmod, Rename, Running
<1>3. CASE LibraryStep
  BY <1>3 DEF LibraryStep, QwriteFails, QwriteReturn, QreadRefresh, QreadRecord, QreadMissing,
              QreadReturn, ghosts
<1>4. CASE ProgramStep
  BY <1>1, <1>4 DEF ProgramStep, RedirectOpen, RedirectLatch, StartMain, MainReturns,
                    CloseRedirOut, CloseRedirIn, Terminate, Exit, Running, Aborts,
                    NextProgram, ghosts
<1>5. CASE UNCHANGED vars
  BY <1>5 DEF vars, ghosts
<1>. QED
  BY <1>2, <1>3, <1>4, <1>5 DEF Next

\* An append lays its bytes past the length of the file.
LEMMA AppendPast ==
    ASSUME LengthInv, NEW i \in Slots, QwriteRecord(i), dfiles[i].append, Regular(dfiles[i]),
           NEW p \in Positions, p < flen[dfiles[i].name]
    PROVE  content'[dfiles[i].name][p] = content[dfiles[i].name][p]
<1>. DEFINE f == dfiles[i]
            n == Span(f.pos, Len(call.buf) - call.total)
<1>1. TypeOK /\ TableConsistent /\ FilesTyped /\ LenOk
  BY DEF LengthInv, ContentInv, HandleInv, TypeOK, Lengths
<1>2. Live(i)
  BY <1>1, QwriteRecordEffect
<1>3. f.writable /\ f.pos = f.len
  BY DEF QwriteRecord, Writing, LengthInv, ContentInv, HandleInv, WriterOk
<1>4. Exact(f)
  BY <1>1, <1>2, <1>3 DEF LenOk, Current
<1>5. f.pos \in Nat /\ flen[f.name] \in Nat
  BY <1>1, WritingTyped DEF QwriteRecord, FilesTyped
<1>6. content'[f.name] = Spliced(content[f.name], f.pos, n, call.buf, call.total)
  BY <1>1, QwriteRecordGhosts
<1>7. p \in Nat
  BY BdosAssumption DEF Positions
<1>. HIDE DEF f, n
<1>8. ~(f.pos <= p)
  <2>1. p < flen[f.name]
    BY DEF f
  <2>. QED
    BY <1>3, <1>4, <1>5, <1>7, <2>1 DEF Exact
<1>. QED
  BY <1>6, <1>8 DEF Spliced, f

\* As long as no access, stat or utime lands in the buffer while it caches a
\* record, a write through an O_APPEND handle changes no byte the file had, whoever
\* else has the file open for reading: every write repositions to fp->len first, and
\* the fp->len of a writer is never short of the length.
THEOREM AppendsAtEnd ==
    ASSUME "probe_cached" \notin Usage
    PROVE  Spec => AppendNeverOverwrites
<1>1. ASSUME LengthInv, [Next]_vars
      PROVE  AppendsKeep
  <2>1. ASSUME NEW i \in Slots, Writing(i), dfiles[i].append, Regular(dfiles[i]),
               NEW p \in Positions, p < flen[dfiles[i].name]
        PROVE  content'[dfiles[i].name][p] = content[dfiles[i].name][p]
    <3>1. CASE \E j \in Slots : QwriteRecord(j)
      <4>1. PICK j \in Slots : QwriteRecord(j)
        BY <3>1
      <4>2. Writing(j)
        BY <4>1 DEF QwriteRecord
      <4>3. j = i
        BY <2>1, <4>2 DEF Writing
      <4>. QED
        BY <1>1, <2>1, <4>1, <4>3, AppendPast
    <3>2. CASE content' = content
      BY <3>2
    <3>. QED
      BY <1>1, <2>1, <3>1, <3>2, WritesOnly DEF Writing
  <2>. QED
    BY <2>1 DEF AppendsKeep
<1>2. LengthInv /\ [Next]_vars => [AppendsKeep]_vars
  BY <1>1
<1>. QED
  BY <1>2, LengthInvAlways, PTL DEF Spec, AppendNeverOverwrites

-----------------------------------------------------------------------------
(* Short reads.                                                            *)

\* A read that finds no record where the length says there is one stands at a hole.
LEMMA StoppedMissing ==
    ASSUME "shared" \notin Usage, LengthInv, NEW i \in Slots, QreadMissing(i),
           dfiles[i].live, Regular(dfiles[i])
    PROVE  AtEnd(dfiles[i])
<1>. DEFINE f == dfiles[i]
            rec == f.pos \div Sect
            o == Load(f, i, rec)
<1>1. /\ TypeOK /\ TableConsistent /\ FilesTyped /\ HandlesOk /\ Exclusive /\ BufferOk
      /\ ContentOnDisk /\ HandleInv /\ Lengths
  BY DEF LengthInv, ContentInv, HandleInv, TypeOK
<1>2. /\ f \in File /\ f.name \in Names /\ OnDisk(i) /\ i # NULL
      /\ f.pos \in Nat /\ rec \in Nat
  BY <1>1, ReadingTyped, DiskIOAssumption DEF QreadMissing, Reading, Slots, NULL
<1>3. Live(i) /\ Current(f) /\ kind[f.name] # "lost"
  BY <1>2 DEF Live, Current, Regular
<1>4. rec \notin f.alloc
  <2>1. f.live /\ rec \in f.alloc => o.code = "ok"
    BY <1>1, <1>2, LoadSound DEF SameFcb
  <2>. QED
    BY <2>1 DEF QreadMissing
<1>5. Extent(f.name, f.rc, f.alloc)
  BY <1>1, <1>3, FcbExtent
<1>6. f.rc \in Nat /\ flen[f.name] \in Nat /\ f.alloc \subseteq Recs
  BY <1>1, <1>2 DEF FilesTyped, File
<1>7. ASSUME f.pos < flen[f.name]
      PROVE  f.pos \in Positions /\ content[f.name][f.pos] = Hole
  <2>1. f.rc # 0 /\ f.rc - 1 \in Recs /\ f.pos < f.rc * Sect
    <3>. HIDE DEF f
    <3>1. f.rc # 0
      BY <1>2, <1>5, <1>6, <1>7 DEF Extent
    <3>2. f.rc * Sect \in Nat
      BY <1>6, RecordBytes
    <3>. QED
      BY <1>2, <1>5, <1>6, <1>7, <3>1, <3>2 DEF Extent
  <2>2. rec \in Recs
    <3>. HIDE DEF f
    <3>1. ASSUME NEW p \in Nat, NEW rc \in Nat, p < rc * Sect
          PROVE  p \div Sect \in Nat /\ p \div Sect < rc
      BY <3>1, BdosAssumption
    <3>. QED
      BY <1>2, <1>6, <2>1, <3>1, BdosAssumption DEF Recs
  <2>3. f.pos \in Positions
    BY <1>2, <2>2, PositionInRecs
  <2>4. ~Held(f.name, rec)
    <3>1. dir[f.name].alloc \subseteq f.alloc
      BY <1>1, <1>3 DEF HandlesOk, HandleSound
    <3>2. \A j \in Slots : Live(j) /\ dfiles[j].name = f.name => j = i
      BY <1>1, <1>3 DEF Exclusive
    <3>. QED
      BY <1>4, <3>1, <3>2 DEF Held
  <2>5. dir[f.name].exists
    BY <1>1, <1>3 DEF HandlesOk, HandleSound
  <2>6. content[f.name][f.pos] = Hole
    BY <1>1, <1>2, <1>3, <2>3, <2>4, <2>5 DEF ContentOnDisk, Held, OpenOn, Live
  <2>. QED
    BY <2>3, <2>6
<1>8. f.pos >= flen[f.name] \/ f.pos < flen[f.name]
  BY <1>2, <1>6
<1>. QED
  BY <1>7, <1>8 DEF AtEnd

\* A read stops only there.
LEMMA StoppedNext ==
    ASSUME "shared" \notin Usage, LengthInv, Stopped, [Next]_vars
    PROVE  Stopped'
<1>1. /\ TypeOK /\ TableConsistent /\ FilesTyped /\ ContentInv
  BY DEF LengthInv, ContentInv, HandleInv, TypeOK
<1>2. ASSUME NEW h \in Handles, NEW want \in ReadLens, QreadBegin(h, want)
      PROVE  Stopped'
  BY <1>2 DEF QreadBegin, Stopped
<1>3. ASSUME NEW i \in Slots, QreadRefresh(i)
      PROVE  Stopped'
  <2>1. call \in ReadCalls /\ call.eof = FALSE
    BY <1>1, <1>3, ReadingTyped DEF QreadRefresh, Reading, ReadCalls
  <2>2. call' = [call EXCEPT !.fresh = TRUE]
    BY <1>3 DEF QreadRefresh
  <2>3. call'.eof = FALSE
    BY <2>1, <2>2 DEF ReadCalls
  <2>. QED
    BY <2>3 DEF Stopped
<1>4. ASSUME NEW i \in Slots, QreadRecord(i)
      PROVE  Stopped'
  <2>. DEFINE f == dfiles[i]
  <2>1. f \in File /\ call \in ReadCalls /\ call.slot = i
    BY <1>1, <1>4, ReadingTyped DEF QreadRecord, Reading
  <2>2. call'.slot = i
    BY <1>4, <2>1 DEF QreadRecord, ReadCalls
  <2>3. /\ dfiles'[i].name = f.name /\ dfiles'[i].live = f.live /\ dfiles'[i].text = f.text
    <3>1. PICK k \in 0 .. Sect : dfiles' = [dfiles EXCEPT ![i].pos = @ + k]
      BY <1>4 DEF QreadRecord
    <3>2. dfiles'[i] = [f EXCEPT !.pos = f.pos + k]
      BY <1>1, <3>1 DEF FilesTyped
    <3>. HIDE DEF f
    <3>. QED
      BY <2>1, <3>2 DEF File
  <2>4. UNCHANGED <<content, flen, kind>>
    BY <1>4 DEF QreadRecord, ghosts
  <2>5. ASSUME call'.eof, f.live, Regular(f)
        PROVE  /\ f.text /\ dfiles'[i].pos \in Positions
               /\ content[f.name][dfiles'[i].pos] \in {Hole, CtrlZ}
    BY <1>1, <1>4, <2>5, StoppedRecord DEF Regular
  <2>. HIDE DEF f
  <2>. QED
    BY <2>2, <2>3, <2>4, <2>5 DEF Stopped, AtEnd, Regular
<1>5. ASSUME NEW i \in Slots, QreadMissing(i)
      PROVE  Stopped'
  <2>1. call \in ReadCalls /\ call.slot = i /\ call' = [call EXCEPT !.eof = TRUE]
        /\ UNCHANGED <<dfiles, content, flen, kind>>
    BY <1>1, <1>5, ReadingTyped DEF QreadMissing, Reading, ghosts
  <2>2. call'.slot = i
    BY <2>1 DEF ReadCalls
  <2>3. dfiles[i].live /\ Regular(dfiles[i]) => AtEnd(dfiles[i])
    BY <1>5, StoppedMissing
  <2>. QED
    BY <2>1, <2>2, <2>3 DEF Stopped, AtEnd, Regular
<1>6. CASE UNCHANGED vars
  BY <1>6 DEF vars, library, control, ghosts, Stopped, AtEnd, Regular
<1>7. ASSUME NEW i \in Slots, QwriteRecord(i)
      PROVE  call'.op = "write"
  <2>1. call \in WriteCalls /\ call.op = "write"
    BY <1>1, <1>7, WritingTyped DEF QwriteRecord, Writing
  <2>. QED
    BY <1>7, <2>1 DEF QwriteRecord, WriteCalls
<1>8. ASSUME NEW h \in Handles, NEW buf \in Buffers, QwriteBegin(h, buf)
      PROVE  call'.op = "write"
  BY <1>8 DEF QwriteBegin
<1>9. CASE call'.op # "read"
  BY <1>9 DEF Stopped
<1>. QED
  BY <1>1, <1>2, <1>3, <1>4, <1>5, <1>6, <1>7, <1>8, <1>9, CallSteps

\* Under the conditions of LengthsTracked, a read that returns fewer bytes than asked
\* for stands at the end of the file, at a Ctrl-Z of a text file, or at a hole: the
\* loop of __qread stops at the known end only after looking at the disk again, and
\* at a missing record only where none was written.
THEOREM ReadsEndAtEnd ==
    ASSUME Usage \cap {"probe_cached", "shared"} = {}
    PROVE  Spec => ShortReadsOnlyAtEnd
<1>1. ASSUME LengthInv, Stopped, [Next]_vars
      PROVE  ShortReadAtEnd
  <2>. SUFFICES ASSUME call.op = "read", call'.op = "idle", phase' = phase,
                       Len(call.out) < call.want,
                       dfiles[call.slot].live, Regular(dfiles[call.slot])
                PROVE  AtEnd(dfiles[call.slot])
    BY DEF ShortReadAtEnd, AtEnd
  <2>1. TypeOK /\ TableConsistent /\ FilesTyped /\ LenOk
    BY <1>1 DEF LengthInv, ContentInv, HandleInv, TypeOK, Lengths
  <2>2. PICK i \in Slots : QreadReturn(i)
    BY <1>1, <2>1, ReadEnds
  <2>3. i = call.slot
    BY <2>2 DEF QreadReturn
  <2>4. CASE call.eof
    BY <1>1, <2>4 DEF Stopped
  <2>5. CASE ~call.eof
    <3>. DEFINE f == dfiles[i]
    <3>1. f.pos >= f.len
      BY <2>2, <2>3, <2>5 DEF QreadReturn, Reading
    <3>2. f \in File /\ f.name \in Names /\ OnDisk(i) /\ f.pos \in Nat /\ f.len \in Nat
      BY <2>1, <2>3, ReadingTyped
    <3>3. Exact(f)
      BY <2>1, <2>3, <3>2 DEF LenOk, Current, Live
    <3>4. flen[f.name] \in Nat
      BY <2>1, <3>2 DEF FilesTyped
    <3>. HIDE DEF f
    <3>5. f.pos >= flen[f.name]
      BY <3>1, <3>2, <3>3, <3>4 DEF Exact
    <3>. QED
      BY <2>3, <3>5 DEF AtEnd, f
  <2>. QED
    BY <2>4, <2>5
<1>2. Spec => []LengthInv
  BY LengthInvAlways
<1>3. Init => Stopped
  BY DEF Init, Idle, Stopped
<1>4. LengthInv /\ Stopped /\ [Next]_vars => Stopped'
  BY StoppedNext
<1>5. LengthInv /\ Stopped /\ [Next]_vars => [ShortReadAtEnd]_vars
  BY <1>1
<1>. QED
  BY <1>2, <1>3, <1>4, <1>5, PTL DEF Spec, ShortReadsOnlyAtEnd

-----------------------------------------------------------------------------
(* Programs.                                                               *)

\* A program that returns from main has its redirected streams closed first.
LEMMA ReturnSteps ==
    ASSUME [Next]_vars, phase = "closing", phase' = "exited"
    PROVE  /\ redir_in = NULL /\ redir_out = NULL
           /\ UNCHANGED <<dir, dfiles, redir_in, redir_out, flen, kind>>
<1>1. ~UserCall
  BY DEF UserCall, Open, OpenConsole, QwriteBegin, QreadBegin, Lseek, Close,
         Remove, StatProbe, Chmod, Rename, Running, control
<1>2. ~LibraryStep
  BY DEF LibraryStep, QwriteRecord, QwriteFails, QwriteReturn, QreadRefresh, QreadRecord,
         QreadMissing, QreadReturn
<1>3. Next => Terminate
  BY <1>1, <1>2 DEF Next, ProgramStep, RedirectOpen, RedirectLatch, Latch, StartMain,
                    MainReturns, CloseRedirOut, CloseRedirIn, Exit, Running, Aborts, NextProgram
<1>4. ~UNCHANGED vars
  BY DEF vars, control
<1>. QED
  BY <1>3, <1>4 DEF Terminate, library, ghosts

\* As long as no access, stat or utime lands in the buffer while it caches a record,
\* a program that ends by returning from main leaves no output behind that the
\* directory does not know, unless it left a file of its own open: the redirected
\* streams are committed before BDOS function 0.
THEOREM OutputCommitted ==
    ASSUME "probe_cached" \notin Usage
    PROVE  Spec => ReturnCommits
<1>1. ASSUME LengthInv, [Next]_vars, phase = "closing", phase' = "exited"
      PROVE  OutputRecorded'
  <2>1. redir_in = NULL /\ redir_out = NULL
        /\ UNCHANGED <<dir, dfiles, redir_in, redir_out, flen, kind>>
    BY <1>1, ReturnSteps
  <2>2. ASSUME NEW n \in Names, Known(n),
               \A i \in OpenOn(n) : dfiles[i].wrote => i \in {redir_in, redir_out}
        PROVE  flen[n] <= dir[n].rc * Sect
    <3>1. ~Written(n)
      BY <2>1, <2>2, DiskIOAssumption DEF Written, OpenOn, Live, Slots, NULL
    <3>. QED
      BY <1>1, <2>2, <3>1 DEF LengthInv, Lengths, ExtentOk, Extent
  <2>. QED
    BY <2>1, <2>2 DEF OutputRecorded, Known, OpenOn, OnDisk
<1>2. LengthInv /\ [Next]_vars => [phase = "closing" /\ phase' = "exited" => OutputRecorded']_vars
  BY <1>1
<1>. QED
  BY <1>2, LengthInvAlways, PTL DEF Spec, ReturnCommits

=============================================================================
