---------------------------- MODULE ContentProofs ----------------------------
(***************************************************************************)
(* No byte a program put in a file is lost and every byte a read hands out *)
(* is the one that was written there: ContentOnDisk and ReadsMatch, for    *)
(* every number of slots, record size, set of files, mode and program.     *)
(***************************************************************************)
EXTENDS DiskIOProofs

\* A file the BDOS has not purged is open in slot i.
Live(i) == OnDisk(i) /\ dfiles[i].live

\* A handle the directory cannot get ahead of: it may write, or no other
\* handle of its file may be open.
Current(f) == f.writable \/ "shared" \notin Usage

\* What an open FCB knows of a file whose directory entry is e.  Only writes make
\* it know more than the entry, only another handle's close makes it know less.
HandleSound(f, e) ==
    /\ e.exists
    /\ f.wrote => f.writable
    /\ Current(f) => e.alloc \subseteq f.alloc /\ e.rc <= f.rc
    /\ ~f.wrote => f.alloc \subseteq e.alloc /\ f.rc <= e.rc
    /\ \A r \in f.alloc : r < f.rc

HandlesOk == \A i \in Slots : Live(i) => HandleSound(dfiles[i], dir[dfiles[i].name])

\* Two live handles of one file are sharers, one of them at most a writer.
Exclusive ==
    \A i, j \in Slots :
        Live(i) /\ Live(j) /\ dfiles[i].name = dfiles[j].name /\ i # j =>
            "shared" \in Usage /\ ~(dfiles[i].writable /\ dfiles[j].writable)

\* F_SIZE is past every record of the entry.
EntriesOk == \A n \in Names : \A r \in dir[n].alloc : r < dir[n].rc

\* The handle and the buffer of a write in progress.
WriterOk ==
    call.op = "write" =>
        LET f == dfiles[call.slot]
        IN  /\ f.writable /\ f.wrote /\ Legal(f, call.buf)
            /\ f.append => f.pos = f.len

HandleInv == TypeOK /\ TableConsistent /\ HandlesOk /\ Exclusive /\ EntriesOk /\ WriterOk

\* dma holds the cached record, as long as its FCB is good.
BufferOk ==
    cache_fp # NULL =>
        /\ OnDisk(cache_fp)
        /\ dfiles[cache_fp].live =>
              /\ cache_rec \in dfiles[cache_fp].alloc
              /\ dma = disk[dfiles[cache_fp].name][cache_rec]

\* A file whose bytes the system has promised to keep.
Known(n) == dir[n].exists /\ kind[n] # "lost"

\* The directory or a good FCB of n has the record r.
Held(n, r) == \/ r \in dir[n].alloc
              \/ \E i \in Slots : Live(i) /\ dfiles[i].name = n /\ r \in dfiles[i].alloc

ContentInv == HandleInv /\ BufferOk /\ ContentOnDisk /\ ReadsMatch

-----------------------------------------------------------------------------
(* The kinds of steps, as far as files and handles see them.               *)

buffer == <<dma, cache_fp, cache_rec>>

\* The slot j keeps its file and what its FCB knows.
KeepsFile(j) ==
    /\ OnDisk(j)' <=> OnDisk(j)
    /\ OnDisk(j) => /\ dfiles'[j].name = dfiles[j].name
                    /\ dfiles'[j].writable = dfiles[j].writable
                    /\ dfiles'[j].text = dfiles[j].text
                    /\ dfiles'[j].wrote = dfiles[j].wrote
                    /\ dfiles'[j].open_lrbc = dfiles[j].open_lrbc
                    /\ dfiles'[j].alloc = dfiles[j].alloc
                    /\ dfiles'[j].rc = dfiles[j].rc
                    /\ dfiles'[j].live = dfiles[j].live

\* A step that moves positions, loads records or has to do with the console.
Quiet == /\ UNCHANGED <<dir, disk, ghosts>>
         /\ \A j \in Slots : KeepsFile(j)
         /\ \/ \E i \in Slots : QreadRefresh(i)
            \/ \A j \in Slots : OnDisk(j) => dfiles'[j].len = dfiles[j].len
         /\ \/ UNCHANGED buffer
            \/ \E i \in Slots : \/ QreadRefresh(i) \/ QreadRecord(i)
                                \/ QreadMissing(i) \/ QwriteFails(i)
            \/ \E n \in Names : StatProbe(n)

\* A slot that does not change keeps its file.
LEMMA KeepsUnchanged ==
    ASSUME NEW j \in Slots, dfiles'[j] = dfiles[j]
    PROVE  KeepsFile(j) /\ dfiles'[j].len = dfiles[j].len
BY DEF KeepsFile, OnDisk

\* Steps that change neither the files nor the table.
LEMMA QuietUnchanged ==
    ASSUME UNCHANGED <<dir, disk, library, ghosts>>
    PROVE  Quiet
<1>1. UNCHANGED dfiles /\ UNCHANGED buffer
  BY DEF library, buffer
<1>2. \A j \in Slots : KeepsFile(j) /\ dfiles'[j].len = dfiles[j].len
  BY <1>1, KeepsUnchanged
<1>. QED
  BY <1>1, <1>2 DEF Quiet

\* A console slot comes or goes.
LEMMA QuietConsole ==
    ASSUME FilesTyped,
           \E i \in Slots, r, w \in BOOLEAN : SopenConsole(i, r, w) \/ CloseConsole(i)
    PROVE  Quiet
<1>1. PICK i \in Slots, e \in File :
         /\ ~OnDisk(i) /\ ~(e.used /\ ~e.is_con)
         /\ dfiles' = [dfiles EXCEPT ![i] = e]
  <2>1. ASSUME NEW i \in Slots, NEW r \in BOOLEAN, NEW w \in BOOLEAN, SopenConsole(i, r, w)
        PROVE  \E e \in File : /\ ~OnDisk(i) /\ ~(e.used /\ ~e.is_con)
                                /\ dfiles' = [dfiles EXCEPT ![i] = e]
    <3>. DEFINE con == [Free EXCEPT !.used = TRUE, !.is_con = TRUE, !.text = TRUE,
                                    !.readable = r, !.writable = w]
    <3>1. con.is_con /\ con \in File
      BY FreeTyped DEF File
    <3>. HIDE DEF con
    <3>2. dfiles' = [dfiles EXCEPT ![i] = con]
      BY <2>1 DEF SopenConsole, con
    <3>. QED
      BY <2>1, <3>1, <3>2 DEF SopenConsole, FirstFree, OnDisk
  <2>2. CASE \E i \in Slots : CloseConsole(i)
    BY <2>2, FreeTyped DEF CloseConsole, OnDisk
  <2>. QED
    BY <2>1, <2>2
<1>2. ~OnDisk(i)' /\ \A j \in Slots \ {i} : dfiles'[j] = dfiles[j]
  BY <1>1 DEF OnDisk, FilesTyped
<1>3. \A j \in Slots : KeepsFile(j) /\ (OnDisk(j) => dfiles'[j].len = dfiles[j].len)
  BY <1>1, <1>2, KeepsUnchanged DEF KeepsFile
<1>4. UNCHANGED <<dir, disk, dma, cache_fp, cache_rec, ghosts>>
  BY DEF SopenConsole, CloseConsole
<1>. QED
  BY <1>3, <1>4 DEF Quiet, buffer

\* A position moves.
LEMMA QuietMove ==
    ASSUME FilesTyped, NEW i \in Slots, NEW p,
           dfiles' = [dfiles EXCEPT ![i] = [dfiles[i] EXCEPT !.pos = p]]
    PROVE  \A j \in Slots : KeepsFile(j) /\ dfiles'[j].len = dfiles[j].len
<1>1. dfiles[i] \in File /\ dfiles'[i] = [dfiles[i] EXCEPT !.pos = p]
  BY DEF FilesTyped
<1>2. KeepsFile(i) /\ dfiles'[i].len = dfiles[i].len
  BY <1>1 DEF KeepsFile, OnDisk, File
<1>3. \A j \in Slots \ {i} : dfiles'[j] = dfiles[j]
  BY DEF FilesTyped
<1>. QED
  BY <1>2, <1>3, KeepsUnchanged

\* The steps of a read that change the table.
LEMMA QuietRead ==
    ASSUME FilesTyped, NEW i \in Slots, QreadRefresh(i) \/ QreadRecord(i) \/ QreadMissing(i)
    PROVE  Quiet
<1>. DEFINE f == dfiles[i]
<1>1. f \in File
  BY DEF FilesTyped
<1>2. UNCHANGED <<dir, disk, ghosts>>
  BY DEF QreadRefresh, QreadRecord, QreadMissing
<1>3. CASE QreadRefresh(i)
  <2>1. PICK d \in DiskLen(f, i) : dfiles' = [dfiles EXCEPT ![i].len = Refreshed(@, d.len)]
    BY <1>3 DEF QreadRefresh
  <2>2. dfiles'[i] = [f EXCEPT !.len = Refreshed(f.len, d.len)]
        /\ \A j \in Slots \ {i} : dfiles'[j] = dfiles[j]
    BY <2>1 DEF FilesTyped
  <2>3. KeepsFile(i)
    BY <1>1, <2>2 DEF KeepsFile, OnDisk, File
  <2>4. \A j \in Slots : KeepsFile(j)
    BY <2>2, <2>3, KeepsUnchanged
  <2>. QED
    BY <1>2, <1>3, <2>4 DEF Quiet
<1>4. CASE QreadRecord(i)
  <2>1. PICK k \in 0 .. Sect : dfiles' = [dfiles EXCEPT ![i].pos = @ + k]
    BY <1>4 DEF QreadRecord
  <2>2. dfiles' = [dfiles EXCEPT ![i] = [dfiles[i] EXCEPT !.pos = dfiles[i].pos + k]]
    BY <2>1 DEF FilesTyped
  <2>3. \A j \in Slots : KeepsFile(j) /\ dfiles'[j].len = dfiles[j].len
    BY <2>2, QuietMove
  <2>. QED
    BY <1>2, <1>4, <2>3 DEF Quiet
<1>5. CASE QreadMissing(i)
  <2>1. \A j \in Slots : KeepsFile(j) /\ dfiles'[j].len = dfiles[j].len
    BY <1>5, KeepsUnchanged DEF QreadMissing
  <2>. QED
    BY <1>2, <1>5, <2>1 DEF Quiet
<1>. QED
  BY <1>3, <1>4, <1>5

\* Every step is quiet, or one of those that touch files or handles.
LEMMA StepKinds ==
    ASSUME TypeOK, TableConsistent, [Next]_vars
    PROVE  \/ Quiet
           \/ \E h \in Handles, buf \in Buffers : QwriteBegin(h, buf)
           \/ \E i \in Slots : QwriteRecord(i) \/ CloseFile(i)
           \/ \E i \in Slots, n \in Names, m \in Mode :
                 Sopen(i, n, m) /\ (m \in OpenModes \/ m.text)
           \/ \E n \in Names : Remove(n)
           \/ \E n \in Names, ro \in BOOLEAN : Chmod(n, ro)
           \/ \E old, new \in Names : Rename(old, new)
           \/ NextProgram
<1>1. FilesTyped
  BY DEF TypeOK
<1>2. CASE UserCall
  <2>1. ASSUME NEW i \in Slots, NEW origin \in {"SEEK_SET", "SEEK_CUR", "SEEK_END"},
               NEW offset \in Offsets, Lseek(i, origin, offset)
        PROVE  Quiet
    <3>. DEFINE to == SeekBase(dfiles[i], origin) + offset
    <3>1. dfiles' = [dfiles EXCEPT ![i].pos = to]
          /\ UNCHANGED <<dir, disk, dma, cache_fp, cache_rec, control, ghosts>>
      BY <2>1 DEF Lseek
    <3>. HIDE DEF to
    <3>2. dfiles' = [dfiles EXCEPT ![i] = [dfiles[i] EXCEPT !.pos = to]]
      BY <1>1, <3>1 DEF FilesTyped
    <3>3. \A j \in Slots : KeepsFile(j) /\ dfiles'[j].len = dfiles[j].len
      BY <1>1, <3>2, QuietMove
    <3>. QED
      BY <3>1, <3>3 DEF Quiet, buffer
  <2>2. ASSUME NEW n \in Names, StatProbe(n)
        PROVE  Quiet
    <3>1. \A j \in Slots : KeepsFile(j) /\ dfiles'[j].len = dfiles[j].len
      BY <2>2, KeepsUnchanged DEF StatProbe
    <3>. QED
      BY <2>2, <3>1 DEF StatProbe, Quiet
  <2>3. ASSUME NEW h \in Handles, NEW want \in ReadLens, QreadBegin(h, want)
        PROVE  Quiet
    BY <2>3, QuietUnchanged DEF QreadBegin
  <2>4. ASSUME NEW n \in Names, NEW m \in OpenModes, Open(n, m)
        PROVE  \E i \in Slots, mm \in Mode : Sopen(i, n, mm) /\ (mm \in OpenModes \/ mm.text)
    BY <2>4, DiskIOAssumption DEF Open
  <2>5. ASSUME NEW i \in Slots, Close(i)
        PROVE  Quiet \/ CloseFile(i)
    BY <1>1, <2>5, QuietConsole DEF Close, CloseSlot
  <2>6. CASE OpenConsole
    BY <1>1, <2>6, QuietConsole DEF OpenConsole
  <2>. QED
    BY <1>2, <2>1, <2>2, <2>3, <2>4, <2>5, <2>6 DEF UserCall
<1>3. CASE LibraryStep
  <2>1. PICK i \in Slots :
           \/ QwriteRecord(i) \/ QwriteFails(i) \/ QwriteReturn(i)
           \/ QreadRefresh(i) \/ QreadRecord(i) \/ QreadMissing(i) \/ QreadReturn(i)
    BY <1>3 DEF LibraryStep
  <2>2. CASE QwriteFails(i)
    <3>1. \A j \in Slots : KeepsFile(j) /\ dfiles'[j].len = dfiles[j].len
      BY <2>2, KeepsUnchanged DEF QwriteFails
    <3>2. UNCHANGED <<dir, disk, ghosts>>
      BY <2>2 DEF QwriteFails
    <3>. QED
      BY <2>2, <3>1, <3>2 DEF Quiet
  <2>3. CASE QwriteReturn(i) \/ QreadReturn(i)
    <3>1. UNCHANGED <<dir, disk, library, ghosts>>
      BY <2>3 DEF QwriteReturn, QreadReturn
    <3>. QED
      BY <3>1, QuietUnchanged
  <2>. QED
    BY <1>1, <2>1, <2>2, <2>3, QuietRead
<1>4. CASE ProgramStep
  <2>1. ASSUME NEW op \in Operators, RedirectOpen(op)
        PROVE  \/ Quiet
               \/ \E i \in Slots, n \in Names, m \in Mode :
                     Sopen(i, n, m) /\ (m \in OpenModes \/ m.text)
    <3>1. RedirectMode(op) \in Mode /\ RedirectMode(op).text
      BY DEF RedirectMode, Mode
    <3>2. PICK i \in Slots : \/ \E n \in Names : Sopen(i, n, RedirectMode(op))
                             \/ SopenConsole(i, op = "<", op # "<")
      BY <2>1 DEF RedirectOpen
    <3>3. CASE SopenConsole(i, op = "<", op # "<")
      <4>1. (op = "<") \in BOOLEAN /\ (op # "<") \in BOOLEAN
        OBVIOUS
      <4>. QED
        BY <1>1, <3>3, <4>1, QuietConsole
    <3>. QED
      BY <3>1, <3>2, <3>3
  <2>2. CASE RedirectLatch
    <3>1. UNCHANGED <<dir, disk, library, ghosts>> \/ (\E i \in Slots : CloseSlot(i))
      BY <2>2 DEF RedirectLatch, Latched, TypeOK, ControlTyped
    <3>. QED
      BY <1>1, <3>1, QuietUnchanged, QuietConsole DEF CloseSlot
  <2>3. CASE CloseRedirOut \/ CloseRedirIn
    <3>1. \E i \in Slots : CloseSlot(i)
      BY <2>3 DEF CloseRedirOut, CloseRedirIn, TypeOK, ControlTyped
    <3>. QED
      BY <1>1, <3>1, QuietConsole DEF CloseSlot
  <2>4. CASE StartMain \/ MainReturns \/ Terminate \/ Exit \/ Aborts
    BY <2>4, QuietUnchanged DEF StartMain, MainReturns, Terminate, Exit, Aborts
  <2>. QED
    BY <1>4, <2>1, <2>2, <2>3, <2>4 DEF ProgramStep
<1>5. CASE UNCHANGED vars
  BY <1>5, QuietUnchanged DEF vars
<1>. QED
  BY <1>2, <1>3, <1>4, <1>5 DEF Next

-----------------------------------------------------------------------------
(* What each of those steps does to the table.                             *)

\* The slot j has the same good handle as before the step, or none.
KeepsHandle(j) ==
    Live(j)' => /\ Live(j)
                /\ dfiles'[j].name = dfiles[j].name
                /\ dfiles'[j].writable = dfiles[j].writable
                /\ dfiles'[j].text = dfiles[j].text
                /\ dfiles'[j].wrote = dfiles[j].wrote
                /\ dfiles'[j].alloc = dfiles[j].alloc
                /\ dfiles'[j].rc = dfiles[j].rc

\* The records of n in the directory are those of before the step.
KeepsEntry(n) == /\ dir'[n].exists = dir[n].exists
                 /\ dir'[n].alloc = dir[n].alloc
                 /\ dir'[n].rc = dir[n].rc
                 /\ dir'[n].lrbc = dir[n].lrbc

\* F_MAKE purges the handles of its file and fills one slot.
LEMMA MakeFileEffect ==
    ASSUME FilesTyped, NEW i \in Slots, NEW n \in Names, NEW m \in Mode,
           ~dfiles[i].used, MakeFile(i, n, m)
    PROVE  /\ dfiles'[i] = Opening(n, m) /\ Opening(n, m) \in File
           /\ Live(i)' /\ dfiles'[i].name = n /\ ~dfiles'[i].wrote
           /\ dfiles'[i].alloc = {} /\ dfiles'[i].rc = 0 /\ dfiles'[i].len = 0
           /\ dfiles'[i].open_lrbc = 0
           /\ \A j \in Slots \ {i} :
                 /\ OnDisk(j)' <=> OnDisk(j)
                 /\ Live(j)' => /\ Live(j) /\ dfiles[j].name # n
                                /\ dfiles'[j] = dfiles[j]
           /\ dir'[n] = Made /\ Made.exists /\ Made.rc = 0 /\ Made.alloc = {}
           /\ Made.lrbc = 0
           /\ \A k \in Names \ {n} : dir'[k] = dir[k]
<1>1. dfiles' = [Purged(n) EXCEPT ![i] = Opening(n, m)] /\ dir' = [dir EXCEPT ![n] = Made]
  BY DEF MakeFile
<1>2. Purged(n) \in [Slots -> File]
  BY PurgedTyped
<1>3. Opening(n, m) \in File /\ Opening(n, m).name = n
  BY OpenedTyped
<1>4. /\ Opening(n, m).used /\ ~Opening(n, m).is_con /\ Opening(n, m).live
      /\ ~Opening(n, m).wrote /\ Opening(n, m).alloc = {} /\ Opening(n, m).rc = 0
      /\ Opening(n, m).len = 0 /\ Opening(n, m).open_lrbc = 0
  BY DEF Opening, FreeSlot
<1>5. dfiles'[i] = Opening(n, m) /\ \A j \in Slots \ {i} : dfiles'[j] = Purged(n)[j]
  BY <1>1, <1>2
<1>6. ASSUME NEW j \in Slots \ {i}
      PROVE  /\ OnDisk(j)' <=> OnDisk(j)
             /\ Live(j)' => Live(j) /\ dfiles[j].name # n /\ dfiles'[j] = dfiles[j]
  <2>1. dfiles[j] \in File
    BY DEF FilesTyped
  <2>2. CASE j \in OpenOn(n)
    <3>1. dfiles'[j] = [dfiles[j] EXCEPT !.live = FALSE]
      BY <1>5, <2>2 DEF Purged
    <3>. QED
      BY <2>1, <3>1 DEF OnDisk, Live, File
  <2>3. CASE j \notin OpenOn(n)
    <3>1. dfiles'[j] = dfiles[j]
      BY <1>5, <2>3 DEF Purged
    <3>. QED
      BY <2>3, <3>1 DEF OnDisk, Live, OpenOn
  <2>. QED
    BY <2>2, <2>3
<1>7. Made.exists /\ Made.rc = 0 /\ Made.alloc = {} /\ Made.lrbc = 0
  BY DEF Made, NoEntry
<1>8. dir'[n] = Made /\ \A k \in Names \ {n} : dir'[k] = dir[k]
  BY <1>1 DEF FilesTyped
<1>. HIDE DEF Opening, Made
<1>. QED
  BY <1>3, <1>4, <1>5, <1>6, <1>7, <1>8 DEF Live, OnDisk

\* Calls on names purge the handles of one file.
LEMMA PurgeEffect ==
    ASSUME FilesTyped, NEW n \in Names, dfiles' = Purged(n)
    PROVE  \A j \in Slots :
              /\ OnDisk(j)' <=> OnDisk(j)
              /\ Live(j)' => Live(j) /\ dfiles[j].name # n /\ dfiles'[j] = dfiles[j]
<1>. TAKE j \in Slots
<1>1. dfiles[j] \in File
  BY DEF FilesTyped
<1>2. CASE j \in OpenOn(n)
  <2>1. dfiles'[j] = [dfiles[j] EXCEPT !.live = FALSE]
    BY <1>2 DEF Purged
  <2>. QED
    BY <1>1, <2>1 DEF OnDisk, Live, File
<1>3. CASE j \notin OpenOn(n)
  <2>1. dfiles'[j] = dfiles[j]
    BY <1>3 DEF Purged
  <2>. QED
    BY <1>3, <2>1 DEF OnDisk, Live, OpenOn
<1>. QED
  BY <1>2, <1>3

\* __close frees one slot, purges others only with a byte count, and adds to the
\* entry what the FCB knew.
LEMMA CloseFileEffect ==
    ASSUME FilesTyped, SlotsNamed, NEW i \in Slots, CloseFile(i)
    PROVE  LET f == dfiles[i]
               n == f.name
           IN  /\ f \in File /\ n \in Names /\ Live(i) /\ ~OnDisk(i)'
               /\ \A j \in Slots \ {i} :
                     /\ OnDisk(j)' <=> OnDisk(j)
                     /\ dfiles'[j].name = dfiles[j].name
                     /\ Live(j)' => /\ Live(j) /\ dfiles'[j] = dfiles[j]
                                    /\ SetsCount(f) => dfiles[j].name # n
                     /\ Live(j) /\ ~Live(j)' => SetsCount(f) /\ dfiles[j].name = n
               /\ dir'[n].exists = dir[n].exists
               /\ dir'[n].alloc = dir[n].alloc \cup f.alloc
               /\ dir'[n].rc = Max2(dir[n].rc, f.rc)
               /\ dir'[n].lrbc = IF SetsCount(f) THEN f.len % Sect ELSE dir[n].lrbc
               /\ \A k \in Names \ {n} : dir'[k] = dir[k]
<1>. DEFINE f == dfiles[i]
            n == f.name
<1>1. f \in File /\ n \in Names /\ Live(i)
  BY DEF CloseFile, FilesTyped, SlotsNamed, Live
<1>2. dfiles' = [IF SetsCount(f) THEN Purged(n) ELSE dfiles EXCEPT ![i] = Free]
  BY DEF CloseFile
<1>3. ~OnDisk(i)'
  BY CloseFileTyped DEF OnDisk
<1>4. ASSUME NEW j \in Slots \ {i}
      PROVE  /\ OnDisk(j)' <=> OnDisk(j)
             /\ dfiles'[j].name = dfiles[j].name
             /\ Live(j)' => /\ Live(j) /\ dfiles'[j] = dfiles[j]
                            /\ SetsCount(f) => dfiles[j].name # n
             /\ Live(j) /\ ~Live(j)' => SetsCount(f) /\ dfiles[j].name = n
  <2>1. dfiles[j] \in File /\ dfiles \in [Slots -> File]
    BY DEF FilesTyped
  <2>2. CASE SetsCount(f) /\ j \in OpenOn(n)
    <3>1. dfiles'[j] = [dfiles[j] EXCEPT !.live = FALSE]
      BY <1>1, <1>2, <2>2, PurgedTyped DEF Purged
    <3>. QED
      BY <2>1, <2>2, <3>1 DEF OnDisk, Live, File, OpenOn
  <2>3. CASE ~SetsCount(f) \/ j \notin OpenOn(n)
    <3>1. dfiles'[j] = dfiles[j]
      BY <1>1, <1>2, <2>1, <2>3, PurgedTyped DEF Purged
    <3>. QED
      BY <2>3, <3>1 DEF OnDisk, Live, OpenOn
  <2>. QED
    BY <2>2, <2>3
<1>5. dir' = [dir EXCEPT ![n] = ClosedEntry(dir[n], f)]
  BY DEF CloseFile
<1>6. dir[n] \in Entry
  BY <1>1 DEF FilesTyped
<1>. HIDE DEF f, n
<1>7. /\ ClosedEntry(dir[n], f).exists = dir[n].exists
      /\ ClosedEntry(dir[n], f).alloc = dir[n].alloc \cup f.alloc
      /\ ClosedEntry(dir[n], f).rc = Max2(dir[n].rc, f.rc)
      /\ ClosedEntry(dir[n], f).lrbc = IF SetsCount(f) THEN f.len % Sect ELSE dir[n].lrbc
  BY <1>6 DEF ClosedEntry, Committed, Entry
<1>8. /\ dir'[n] = ClosedEntry(dir[n], f)
      /\ \A k \in Names \ {n} : dir'[k] = dir[k]
  BY <1>1, <1>5 DEF FilesTyped
<1>9. /\ f \in File /\ n \in Names /\ Live(i) /\ ~OnDisk(i)'
      /\ \A j \in Slots \ {i} :
            /\ OnDisk(j)' <=> OnDisk(j)
            /\ dfiles'[j].name = dfiles[j].name
            /\ Live(j)' => /\ Live(j) /\ dfiles'[j] = dfiles[j]
                           /\ SetsCount(f) => dfiles[j].name # n
            /\ Live(j) /\ ~Live(j)' => SetsCount(f) /\ dfiles[j].name = n
  BY <1>1, <1>3, <1>4
<1>. QED
  BY <1>7, <1>8, <1>9 DEF f, n

\* F_OPEN gives a slot what the directory knows, and its length is seeded.
LEMMA SopenExistingFills ==
    ASSUME FilesTyped, NEW i \in Slots, NEW n \in Names, NEW m \in Mode,
           ~dfiles[i].used, SopenExisting(i, n, m)
    PROVE  LET f == Activated(n, m)
           IN  /\ f \in File /\ f.name = n /\ f.live /\ f.alloc = dir[n].alloc
               /\ f.open_lrbc = (IF HasLrbc /\ ~m.text THEN dir[n].lrbc ELSE 0)
               /\ f.text = m.text
               /\ dfiles'[i].open_lrbc = f.open_lrbc
               /\ \E d \in DiskLen(f, i) : dfiles'[i].len = d.len /\ SetCache(d.o)
               /\ dir[n].exists /\ MayOpen(n, m)
               /\ dir' = dir /\ disk' = disk /\ UNCHANGED ghosts
               /\ \A j \in Slots \ {i} : dfiles'[j] = dfiles[j]
               /\ Live(i)'
               /\ dfiles'[i].name = n /\ (dfiles'[i].writable <=> m.writable)
               /\ dfiles'[i].text = m.text /\ dfiles'[i].wrote = FALSE
               /\ dfiles'[i].alloc = dir[n].alloc /\ dfiles'[i].rc = dir[n].rc
<1>. DEFINE f == Activated(n, m)
<1>1. f \in File /\ f.name = n
  BY OpenedTyped
<1>2. /\ f.used /\ ~f.is_con /\ f.live /\ f.wrote = FALSE /\ f.writable = m.writable
      /\ f.text = m.text /\ f.alloc = dir[n].alloc /\ f.rc = dir[n].rc
      /\ f.open_lrbc = (IF HasLrbc /\ ~m.text THEN dir[n].lrbc ELSE 0)
  BY DEF Activated, Opening, FreeSlot
<1>3. PICK d \in DiskLen(f, i) :
         /\ dfiles' = [dfiles EXCEPT ![i] =
               [f EXCEPT !.len = d.len, !.pos = IF m.append THEN d.len ELSE 0]]
         /\ SetCache(d.o)
  BY DEF SopenExisting
<1>. DEFINE g == [f EXCEPT !.len = d.len, !.pos = IF m.append THEN d.len ELSE 0]
<1>4. /\ g.name = f.name /\ g.used = f.used /\ g.is_con = f.is_con /\ g.live = f.live
      /\ g.wrote = f.wrote /\ g.writable = f.writable /\ g.text = f.text
      /\ g.alloc = f.alloc /\ g.rc = f.rc /\ g.open_lrbc = f.open_lrbc /\ g.len = d.len
  <2>. HIDE DEF f
  <2>. QED
    BY <1>1 DEF File
<1>5. dfiles' = [dfiles EXCEPT ![i] = g]
  BY <1>3
<1>. HIDE DEF g
<1>6. dfiles'[i] = g /\ \A j \in Slots \ {i} : dfiles'[j] = dfiles[j]
  BY <1>5 DEF FilesTyped
<1>7. dir[n].exists /\ MayOpen(n, m) /\ dir' = dir /\ disk' = disk /\ UNCHANGED ghosts
  BY DEF SopenExisting
<1>8. \E e \in DiskLen(f, i) : dfiles'[i].len = e.len /\ SetCache(e.o)
  BY <1>3, <1>4, <1>6
<1>. HIDE DEF f
<1>9. Live(i)'
  BY <1>2, <1>4, <1>6 DEF Live, OnDisk
<1>. QED
  BY <1>1, <1>2, <1>4, <1>6, <1>7, <1>8, <1>9 DEF f

\* The same without the load.
LEMMA SopenExistingEffect ==
    ASSUME FilesTyped, NEW i \in Slots, NEW n \in Names, NEW m \in Mode,
           ~dfiles[i].used, SopenExisting(i, n, m)
    PROVE  /\ dir[n].exists /\ MayOpen(n, m)
           /\ dir' = dir /\ disk' = disk /\ UNCHANGED ghosts
           /\ \A j \in Slots \ {i} : dfiles'[j] = dfiles[j]
           /\ Live(i)'
           /\ dfiles'[i].name = n /\ (dfiles'[i].writable <=> m.writable)
           /\ dfiles'[i].text = m.text /\ dfiles'[i].wrote = FALSE
           /\ dfiles'[i].alloc = dir[n].alloc /\ dfiles'[i].rc = dir[n].rc
<1>1. /\ dir[n].exists /\ MayOpen(n, m)
      /\ dir' = dir /\ disk' = disk /\ UNCHANGED ghosts
      /\ \A j \in Slots \ {i} : dfiles'[j] = dfiles[j]
      /\ Live(i)'
  BY SopenExistingFills
<1>2. dfiles'[i].name = n
  BY SopenExistingFills
<1>3. (dfiles'[i].writable <=> m.writable)
  BY SopenExistingFills
<1>4. dfiles'[i].text = m.text
  BY SopenExistingFills
<1>5. dfiles'[i].wrote = FALSE
  BY SopenExistingFills
<1>6. dfiles'[i].alloc = dir[n].alloc /\ dfiles'[i].rc = dir[n].rc
  BY SopenExistingFills, ZenonT(30)
<1>. QED
  BY <1>1, <1>2, <1>3, <1>4, <1>5, <1>6

\* A write marks its handle.
LEMMA QwriteBeginEffect ==
    ASSUME TypeOK, NEW h \in Handles, NEW buf \in Buffers, QwriteBegin(h, buf)
    PROVE  \E i \in Slots :
              LET f == dfiles[i]
                  e == dfiles'[i]
              IN  /\ f \in File /\ OnDisk(i) /\ f.writable /\ Legal(f, buf)
                  /\ OnDisk(i)' /\ e.name = f.name /\ e.writable = f.writable
                  /\ e.text = f.text /\ e.append = f.append /\ e.len = f.len
                  /\ e.open_lrbc = f.open_lrbc
                  /\ e.alloc = f.alloc /\ e.rc = f.rc /\ e.live = f.live
                  /\ e.wrote = TRUE /\ e.pos = StartPos(f)
                  /\ \A j \in Slots \ {i} : dfiles'[j] = dfiles[j]
                  /\ call' = [op |-> "write", slot |-> i, buf |-> buf, total |-> 0]
                  /\ UNCHANGED <<dir, disk, dma, cache_fp, cache_rec, ghosts, phase>>
<1>1. redir_out \in Slots \cup {NULL} /\ FilesTyped
  BY DEF TypeOK, ControlTyped
<1>2. PICK i \in Slots : i = WriteSlot(h) /\ OnDisk(i) /\ dfiles[i].writable
  <2>1. h < 3 \/ h - 3 \in Slots
    BY DiskIOAssumption DEF Handles, Slots, DISK_FIRST_FD
  <2>2. WriteSlot(h) \in Slots \cup {NULL}
    BY <1>1, <2>1 DEF WriteSlot, DISK_FIRST_FD
  <2>. QED
    BY <2>2 DEF QwriteBegin
<1>. DEFINE f == dfiles[i]
            e == [f EXCEPT !.wrote = TRUE, !.pos = StartPos(f)]
<1>3. f \in File
  BY <1>1 DEF FilesTyped
<1>4. /\ e.used = f.used /\ e.is_con = f.is_con /\ e.name = f.name
      /\ e.writable = f.writable /\ e.live = f.live /\ e.text = f.text
      /\ e.append = f.append /\ e.len = f.len /\ e.open_lrbc = f.open_lrbc
      /\ e.alloc = f.alloc /\ e.rc = f.rc /\ e.wrote = TRUE /\ e.pos = StartPos(f)
  <2>. HIDE DEF f
  <2>. QED
    BY <1>3 DEF File
<1>5. dfiles'[i] = e /\ \A j \in Slots \ {i} : dfiles'[j] = dfiles[j]
  <2>1. dfiles' = [dfiles EXCEPT ![i].wrote = TRUE, ![i].pos = StartPos(dfiles[i])]
    BY <1>2 DEF QwriteBegin
  <2>. QED
    BY <1>1, <2>1 DEF FilesTyped
<1>6. /\ Legal(f, buf)
      /\ call' = [op |-> "write", slot |-> i, buf |-> buf, total |-> 0]
      /\ UNCHANGED <<dir, disk, dma, cache_fp, cache_rec, ghosts, phase>>
  BY <1>2 DEF QwriteBegin
<1>. HIDE DEF e
<1>7. OnDisk(i)'
  BY <1>2, <1>4, <1>5 DEF OnDisk
<1>. QED
  BY <1>2, <1>3, <1>4, <1>5, <1>6, <1>7

\* A turn of __qwrite extends one FCB and the data of one file.
LEMMA QwriteRecordEffect ==
    ASSUME TypeOK, TableConsistent, NEW i \in Slots, QwriteRecord(i)
    PROVE  LET f == dfiles[i]
               e == dfiles'[i]
               rec == f.pos \div Sect
               n == Span(f.pos, Len(call.buf) - call.total)
               o == Load(f, i, rec)
               cells == Merged(o.dma, f.pos % Sect, n, call.buf, call.total)
           IN  \E g \in Gaps(f, rec) :
                  /\ Live(i) /\ rec \in Recs /\ Live(i)' /\ o.code # "error"
                  /\ e.name = f.name /\ e.writable = f.writable /\ e.text = f.text
                  /\ e.append = f.append /\ e.wrote = f.wrote /\ e.open_lrbc = f.open_lrbc
                  /\ e.alloc = f.alloc \cup {rec} \cup g /\ e.rc = Max2(f.rc, rec + 1)
                  /\ e.pos = f.pos + n /\ e.len = LenAfter(f, n)
                  /\ \A j \in Slots \ {i} : dfiles'[j] = dfiles[j]
                  /\ disk'[f.name] = Stored(disk[f.name], rec, cells, g)
                  /\ \A k \in Names \ {f.name} : disk'[k] = disk[k]
                  /\ dir' = dir /\ dma' = cells /\ cache_fp' = i /\ cache_rec' = rec
<1>. DEFINE f == dfiles[i]
            rec == f.pos \div Sect
            n == Span(f.pos, Len(call.buf) - call.total)
            o == Load(f, i, rec)
            cells == Merged(o.dma, f.pos % Sect, n, call.buf, call.total)
<1>1. FilesTyped /\ f \in File /\ f.name \in Names /\ OnDisk(i)
  BY WritingTyped DEF QwriteRecord, TypeOK
<1>2. rec \in Recs /\ f.live /\ o.code # "error"
  BY DEF QwriteRecord, WriteCode
<1>3. PICK g \in Gaps(f, rec) :
         /\ disk' = [disk EXCEPT ![f.name] = Stored(@, rec, cells, g)]
         /\ dfiles' = [dfiles EXCEPT ![i] =
               [Extended(f, rec, g) EXCEPT !.pos = f.pos + n, !.len = LenAfter(f, n)]]
  BY DEF QwriteRecord
<1>. DEFINE e == [Extended(f, rec, g) EXCEPT !.pos = f.pos + n, !.len = LenAfter(f, n)]
<1>4. /\ e.used = f.used /\ e.is_con = f.is_con /\ e.name = f.name
      /\ e.writable = f.writable /\ e.wrote = f.wrote /\ e.live = f.live
      /\ e.text = f.text /\ e.append = f.append /\ e.open_lrbc = f.open_lrbc
      /\ e.alloc = f.alloc \cup {rec} \cup g /\ e.rc = Max2(f.rc, rec + 1)
      /\ e.pos = f.pos + n /\ e.len = LenAfter(f, n)
  <2>. HIDE DEF f, n, rec
  <2>. QED
    BY <1>1 DEF Extended, File
<1>5. dfiles' = [dfiles EXCEPT ![i] = e]
  BY <1>3
<1>. HIDE DEF e
<1>6. dfiles'[i] = e /\ \A j \in Slots \ {i} : dfiles'[j] = dfiles[j]
  BY <1>1, <1>5 DEF FilesTyped
<1>7. /\ disk'[f.name] = Stored(disk[f.name], rec, cells, g)
      /\ \A k \in Names \ {f.name} : disk'[k] = disk[k]
  <2>. HIDE DEF f, rec, cells
  <2>. QED
    BY <1>1, <1>3 DEF FilesTyped
<1>8. dir' = dir /\ dma' = cells /\ cache_fp' = i /\ cache_rec' = rec
  BY DEF QwriteRecord
<1>9. Live(i) /\ Live(i)'
  BY <1>1, <1>2, <1>4, <1>6 DEF Live, OnDisk
<1>. HIDE DEF f, rec, n, o, cells
<1>. QED
  BY <1>2, <1>4, <1>6, <1>7, <1>8, <1>9 DEF f, rec, n, o, cells

\* What a turn of __qwrite does to the ghosts.
LEMMA QwriteRecordGhosts ==
    ASSUME TypeOK, TableConsistent, NEW i \in Slots, QwriteRecord(i)
    PROVE  LET f == dfiles[i]
               n == Span(f.pos, Len(call.buf) - call.total)
           IN  /\ content'[f.name] = Spliced(content[f.name], f.pos, n, call.buf, call.total)
               /\ flen'[f.name] = Max2(flen[f.name], f.pos + n)
               /\ kind'[f.name] = KindAfter(kind[f.name], f)
               /\ \A k \in Names \ {f.name} : /\ content'[k] = content[k]
                                              /\ flen'[k] = flen[k]
                                              /\ kind'[k] = kind[k]
<1>. DEFINE f == dfiles[i]
            n == Span(f.pos, Len(call.buf) - call.total)
<1>1. FilesTyped /\ f.name \in Names
  BY WritingTyped DEF QwriteRecord, TypeOK
<1>2. /\ content' = [content EXCEPT ![f.name] = Spliced(@, f.pos, n, call.buf, call.total)]
      /\ flen' = [flen EXCEPT ![f.name] = Max2(@, f.pos + n)]
      /\ kind' = [kind EXCEPT ![f.name] = KindAfter(@, f)]
  BY DEF QwriteRecord
<1>. HIDE DEF f, n
<1>3. /\ content'[f.name] = Spliced(content[f.name], f.pos, n, call.buf, call.total)
      /\ flen'[f.name] = Max2(flen[f.name], f.pos + n)
      /\ kind'[f.name] = KindAfter(kind[f.name], f)
      /\ \A k \in Names \ {f.name} : /\ content'[k] = content[k]
                                     /\ flen'[k] = flen[k]
                                     /\ kind'[k] = kind[k]
  BY <1>1, <1>2 DEF FilesTyped
<1>. QED
  BY <1>3 DEF f, n

-----------------------------------------------------------------------------
(* Handles and directory.                                                  *)

\* A step that neither opens a handle nor touches the entry of an open file.
LEMMA HandlesKept ==
    ASSUME SlotsNamed, HandlesOk, Exclusive, \A j \in Slots : KeepsHandle(j),
           \A j \in Slots : Live(j)' => KeepsEntry(dfiles[j].name)
    PROVE  HandlesOk' /\ Exclusive'
<1>1. HandlesOk'
  BY DEF HandlesOk, HandleSound, Current, KeepsHandle, KeepsEntry
<1>2. Exclusive'
  BY DEF Exclusive, KeepsHandle
<1>. QED
  BY <1>1, <1>2

\* A quiet step, and any slot that does not change, keeps its handle.
LEMMA KeepsFileHandle ==
    ASSUME NEW j \in Slots, KeepsFile(j)
    PROVE  KeepsHandle(j) /\ (Live(j)' <=> Live(j))
BY DEF KeepsFile, KeepsHandle, Live

LEMMA UnchangedHandle ==
    ASSUME NEW j \in Slots, dfiles'[j] = dfiles[j]
    PROVE  KeepsHandle(j) /\ (Live(j)' <=> Live(j)) /\ (OnDisk(j)' <=> OnDisk(j))
BY DEF KeepsHandle, Live, OnDisk

LEMMA HandlesSopen ==
    ASSUME FilesTyped, SlotsNamed, HandlesOk, Exclusive, EntriesOk,
           NEW i \in Slots, NEW n \in Names, NEW m \in Mode, Sopen(i, n, m)
    PROVE  HandlesOk' /\ Exclusive' /\ EntriesOk'
<1>1. ~dfiles[i].used /\ ~OnDisk(i)
  BY DEF Sopen, FirstFree, OnDisk
<1>2. CASE MakeFile(i, n, m)
  <2>1. /\ Live(i)' /\ dfiles'[i].name = n /\ ~dfiles'[i].wrote
        /\ dfiles'[i].alloc = {} /\ dfiles'[i].rc = 0
        /\ \A j \in Slots \ {i} : Live(j)' => /\ Live(j) /\ dfiles[j].name # n
                                              /\ dfiles'[j] = dfiles[j]
        /\ dir'[n] = Made /\ Made.exists /\ Made.rc = 0 /\ Made.alloc = {}
        /\ \A k \in Names \ {n} : dir'[k] = dir[k]
    BY <1>1, <1>2, MakeFileEffect
  <2>2. HandleSound(dfiles'[i], dir'[dfiles'[i].name])
    <3>. HIDE DEF Made
    <3>. QED
      BY <2>1 DEF HandleSound
  <2>3. \A j \in Slots \ {i} : Live(j)' => HandleSound(dfiles'[j], dir'[dfiles'[j].name])
    BY <2>1 DEF HandlesOk, SlotsNamed, Live
  <2>4. HandlesOk'
    BY <2>2, <2>3 DEF HandlesOk, HandleSound, Current
  <2>5. Exclusive'
    BY <2>1 DEF Exclusive
  <2>6. EntriesOk'
    <3>. HIDE DEF Made
    <3>. QED
      BY <2>1 DEF EntriesOk
  <2>. QED
    BY <2>4, <2>5, <2>6
<1>3. CASE SopenExisting(i, n, m)
  <2>1. /\ dir[n].exists /\ MayOpen(n, m) /\ dir' = dir
        /\ \A j \in Slots \ {i} : dfiles'[j] = dfiles[j]
        /\ Live(i)'
        /\ dfiles'[i].name = n /\ (dfiles'[i].writable <=> m.writable)
        /\ dfiles'[i].wrote = FALSE
        /\ dfiles'[i].alloc = dir[n].alloc /\ dfiles'[i].rc = dir[n].rc
    BY <1>1, <1>3, SopenExistingEffect
  <2>2. \A j \in Slots \ {i} : Live(j)' <=> Live(j)
    BY <2>1, UnchangedHandle
  <2>3. dir[n].rc \in Nat
    BY DEF FilesTyped, Entry
  <2>4. HandleSound(dfiles'[i], dir'[dfiles'[i].name])
    BY <2>1, <2>3 DEF HandleSound, EntriesOk
  <2>5. \A j \in Slots \ {i} : Live(j)' => HandleSound(dfiles'[j], dir'[dfiles'[j].name])
    BY <2>1, <2>2 DEF HandlesOk
  <2>6. HandlesOk'
    BY <2>4, <2>5 DEF HandlesOk, HandleSound, Current
  <2>7. \A j \in Slots \ {i} : Live(j)' /\ dfiles'[j].name = n =>
           "shared" \in Usage /\ ~(dfiles'[i].writable /\ dfiles'[j].writable)
    BY <2>1, <2>2 DEF MayOpen, OpenOn, Live
  <2>8. Exclusive'
    BY <2>1, <2>2, <2>7 DEF Exclusive
  <2>. QED
    BY <2>1, <2>6, <2>8 DEF EntriesOk
<1>. QED
  BY <1>2, <1>3 DEF Sopen, SopenTrunc, SopenCreate

LEMMA HandlesClose ==
    ASSUME FilesTyped, SlotsNamed, HandlesOk, Exclusive, EntriesOk,
           NEW i \in Slots, CloseFile(i)
    PROVE  HandlesOk' /\ Exclusive' /\ EntriesOk'
<1>. DEFINE f == dfiles[i]
            n == f.name
<1>1. /\ f \in File /\ n \in Names /\ Live(i) /\ ~OnDisk(i)'
      /\ \A j \in Slots \ {i} : Live(j)' => Live(j) /\ dfiles'[j] = dfiles[j]
      /\ dir'[n].exists = dir[n].exists
      /\ dir'[n].alloc = dir[n].alloc \cup f.alloc
      /\ dir'[n].rc = Max2(dir[n].rc, f.rc)
      /\ \A k \in Names \ {n} : dir'[k] = dir[k]
  BY CloseFileEffect
<1>2. dir[n].rc \in Nat /\ f.rc \in Nat /\ dir[n].alloc \subseteq Recs /\ f.alloc \subseteq Recs
  BY <1>1 DEF FilesTyped, Entry, File
<1>3. Recs \subseteq Int
  BY DEF Recs
<1>4. HandleSound(f, dir[n])
  BY <1>1 DEF HandlesOk
<1>. HIDE DEF f, n
<1>5. EntriesOk'
  <2>1. \A r \in dir'[n].alloc : r < dir'[n].rc
    <3>. TAKE r \in dir'[n].alloc
    <3>1. r \in Int /\ (r \in dir[n].alloc \/ r \in f.alloc)
      BY <1>1, <1>2, <1>3
    <3>2. r < dir[n].rc \/ r < f.rc
      BY <1>1, <1>4, <3>1 DEF EntriesOk, HandleSound
    <3>. QED
      BY <1>1, <1>2, <3>1, <3>2 DEF Max2
  <2>. QED
    BY <1>1, <2>1 DEF EntriesOk
<1>6. ASSUME NEW j \in Slots \ {i}, Live(j)'
      PROVE  HandleSound(dfiles'[j], dir'[dfiles'[j].name])
  <2>1. Live(j) /\ dfiles'[j] = dfiles[j] /\ HandleSound(dfiles[j], dir[dfiles[j].name])
    BY <1>1, <1>6 DEF HandlesOk
  <2>2. CASE dfiles[j].name # n
    BY <1>1, <2>1, <2>2 DEF SlotsNamed, Live
  <2>3. CASE dfiles[j].name = n
    <3>1. "shared" \in Usage /\ ~(f.writable /\ dfiles[j].writable)
      BY <1>1, <2>1, <2>3 DEF Exclusive, f, n
    <3>2. dfiles[j].rc \in Nat
      BY DEF FilesTyped, File
    <3>3. Current(dfiles[j]) => dir'[n].alloc = dir[n].alloc /\ dir'[n].rc = dir[n].rc
      BY <1>1, <1>2, <1>4, <3>1 DEF HandleSound, Current, Max2
    <3>. QED
      BY <1>1, <1>2, <2>1, <2>3, <3>2, <3>3 DEF HandleSound, Max2
  <2>. QED
    BY <2>2, <2>3
<1>7. \A j \in Slots : Live(j)' => j # i
  BY <1>1 DEF Live
<1>8. HandlesOk'
  BY <1>6, <1>7 DEF HandlesOk, HandleSound, Current
<1>9. Exclusive'
  BY <1>1, <1>7 DEF Exclusive
<1>. QED
  BY <1>5, <1>8, <1>9

LEMMA HandlesNamed ==
    ASSUME FilesTyped, SlotsNamed, HandlesOk, Exclusive, EntriesOk,
           \/ \E n \in Names : Remove(n)
           \/ \E n \in Names, ro \in BOOLEAN : Chmod(n, ro)
           \/ \E old, new \in Names : Rename(old, new)
    PROVE  HandlesOk' /\ Exclusive' /\ EntriesOk'
<1>1. NoEntry.alloc = {}
  BY DEF NoEntry
<1>2. ASSUME NEW n \in Names, Remove(n)
      PROVE  HandlesOk' /\ Exclusive' /\ EntriesOk'
  <2>1. \A j \in Slots : Live(j)' => Live(j) /\ dfiles[j].name # n /\ dfiles'[j] = dfiles[j]
    BY <1>2, PurgeEffect DEF Remove
  <2>2. dir'[n] = NoEntry /\ \A k \in Names \ {n} : dir'[k] = dir[k]
    BY <1>2 DEF Remove, FilesTyped
  <2>3. \A j \in Slots : KeepsHandle(j) /\ (Live(j)' => KeepsEntry(dfiles[j].name))
    BY <2>1, <2>2 DEF KeepsHandle, KeepsEntry, SlotsNamed, Live
  <2>4. EntriesOk'
    BY <1>1, <2>2 DEF EntriesOk
  <2>. QED
    BY <2>3, <2>4, HandlesKept
<1>3. ASSUME NEW n \in Names, NEW ro \in BOOLEAN, Chmod(n, ro)
      PROVE  HandlesOk' /\ Exclusive' /\ EntriesOk'
  <2>1. \A j \in Slots : Live(j)' => Live(j) /\ dfiles[j].name # n /\ dfiles'[j] = dfiles[j]
    BY <1>3, PurgeEffect DEF Chmod
  <2>2. dir'[n] = [dir[n] EXCEPT !.ro = ro] /\ \A k \in Names \ {n} : dir'[k] = dir[k]
    BY <1>3 DEF Chmod, FilesTyped
  <2>3. dir[n] \in Entry
    BY DEF FilesTyped
  <2>4. \A k \in Names : KeepsEntry(k)
    BY <2>2, <2>3 DEF KeepsEntry, Entry
  <2>5. \A j \in Slots : KeepsHandle(j) /\ (Live(j)' => KeepsEntry(dfiles[j].name))
    BY <2>1, <2>4 DEF KeepsHandle, SlotsNamed, Live
  <2>6. EntriesOk'
    BY <2>4 DEF EntriesOk, KeepsEntry
  <2>. QED
    BY <2>5, <2>6, HandlesKept
<1>4. ASSUME NEW old \in Names, NEW new \in Names, Rename(old, new)
      PROVE  HandlesOk' /\ Exclusive' /\ EntriesOk'
  <2>1. \A j \in Slots : Live(j)' => Live(j) /\ dfiles[j].name # old /\ dfiles'[j] = dfiles[j]
    BY <1>4, PurgeEffect DEF Rename
  <2>2. old # new /\ ~dir[new].exists
    BY <1>4 DEF Rename
  <2>3. /\ dir'[old] = NoEntry /\ dir'[new] = dir[old]
        /\ \A k \in Names \ {old, new} : dir'[k] = dir[k]
    BY <1>4, <2>2 DEF Rename, Moved, FilesTyped
  <2>4. \A j \in Slots : Live(j)' => dfiles[j].name \notin {old, new}
    BY <2>1, <2>2 DEF HandlesOk, HandleSound
  <2>5. \A j \in Slots : KeepsHandle(j) /\ (Live(j)' => KeepsEntry(dfiles[j].name))
    BY <2>1, <2>3, <2>4 DEF KeepsHandle, KeepsEntry, SlotsNamed, Live
  <2>6. EntriesOk'
    BY <1>1, <2>3 DEF EntriesOk
  <2>. QED
    BY <2>5, <2>6, HandlesKept
<1>. QED
  BY <1>2, <1>3, <1>4

-----------------------------------------------------------------------------
(* The record buffer.                                                      *)

\* A load for the file f of slot i: if it leaves a record cached, it is one that
\* f has, as it is on the disk.
Claims(o, f, i) ==
    o.fp # NULL => /\ o.fp = i
                   /\ f.live => o.rec \in f.alloc /\ o.dma = disk[f.name][o.rec]

\* The record cached for slot i, if any, is one of the FCB f.
SameFcb(f, i) == cache_fp = i => /\ dfiles[i].name = f.name /\ dfiles[i].alloc = f.alloc
                                 /\ f.live => dfiles[i].live

\* load_record returns the record of a good FCB that has it, and Ctrl-Z for one
\* that has not; it claims no other record than that.
LEMMA LoadSound ==
    ASSUME FilesTyped, BufferOk, NEW f \in File, f.name \in Names, NEW i, i # NULL,
           NEW rec \in Nat,
           SameFcb(f, i)
    PROVE  LET o == Load(f, i, rec)
           IN  /\ Claims(o, f, i)
               /\ f.live /\ rec \in f.alloc => o.code = "ok" /\ o.dma = disk[f.name][rec]
               /\ f.live /\ rec \notin f.alloc =>
                     o.code = "unwritten" /\ o.fp = NULL /\ o.dma = AllCtrlZ
<1>1. CASE cache_fp = i /\ cache_rec = rec
  <2>1. f.live => rec \in f.alloc /\ dma = disk[f.name][rec]
    BY <1>1 DEF BufferOk, SameFcb
  <2>. QED
    BY <1>1, <2>1 DEF Load, Claims
<1>2. CASE ~(cache_fp = i /\ cache_rec = rec)
  BY <1>2 DEF Load, ReadCode, Claims
<1>. QED
  BY <1>1, <1>2

\* disk_len leaves the buffer as it was, or as such a load does.
LEMMA DiskLenSound ==
    ASSUME FilesTyped, BufferOk, NEW f \in File, f.name \in Names, NEW i, i # NULL,
           SameFcb(f, i),
           NEW d \in DiskLen(f, i)
    PROVE  \/ d.o = Untouched
           \/ Claims(d.o, f, i)
<1>. DEFINE records == F_SIZE(dir[f.name])
            last == Load(f, i, records - 1)
<1>1. records \in Nat
  BY DEF FilesTyped, Entry, F_SIZE
<1>2. d.o = Untouched \/ (records # 0 /\ d.o = last)
  <2>. HIDE DEF records, last
  <2>1. CASE records = 0
    BY <2>1 DEF DiskLen, records
  <2>2. CASE records # 0 /\ ~f.text
    BY <2>2 DEF DiskLen, records, last
  <2>3. CASE records # 0 /\ f.text /\ last.code # "ok"
    BY <2>3 DEF DiskLen, records, last
  <2>4. CASE records # 0 /\ f.text /\ last.code = "ok"
    <3>1. PICK k \in 0 .. Sect : d = [len |-> (records - 1) * Sect + k, o |-> last]
      BY <2>4 DEF DiskLen, records, last
    <3>. QED
      BY <2>4, <3>1
  <2>. QED
    BY <2>1, <2>2, <2>3, <2>4
<1>3. records # 0 => Claims(last, f, i)
  <2>1. records # 0 => records - 1 \in Nat
    BY <1>1
  <2>. QED
    BY <2>1, LoadSound
<1>. QED
  BY <1>2, <1>3

\* A step that leaves the buffer alone, and the file cached in it.
LEMMA BufferKept ==
    ASSUME FilesTyped, BufferOk, UNCHANGED buffer,
           \A j \in Slots : OnDisk(j) /\ j = cache_fp =>
              /\ OnDisk(j)'
              /\ dfiles'[j].live => /\ dfiles[j].live
                                    /\ dfiles'[j].name = dfiles[j].name
                                    /\ dfiles[j].alloc \subseteq dfiles'[j].alloc
                                    /\ disk'[dfiles[j].name] = disk[dfiles[j].name]
    PROVE  BufferOk'
<1>1. cache_fp # NULL => cache_fp \in Slots /\ OnDisk(cache_fp)
  BY DEF FilesTyped, BufferOk
<1>. QED
  BY <1>1 DEF BufferOk, buffer, OnDisk

\* A step that loads a record of the file in slot i, or drops the cache.
LEMMA BufferLoaded ==
    ASSUME NEW i \in Slots, NEW o, SetCache(o), OnDisk(i)',
           o.fp # NULL => /\ o.fp = i
                          /\ dfiles'[i].live => /\ o.rec \in dfiles'[i].alloc
                                                /\ o.dma = disk'[dfiles'[i].name][o.rec]
    PROVE  BufferOk'
BY DEF BufferOk, SetCache, OnDisk

LEMMA BufferQuiet ==
    ASSUME "probe_cached" \notin Usage, HandleInv, BufferOk, Quiet
    PROVE  BufferOk'
<1>1. TypeOK /\ TableConsistent /\ FilesTyped /\ SlotsNamed
  BY DEF HandleInv, TypeOK, TableConsistent
<1>2. disk' = disk /\ \A j \in Slots : KeepsFile(j)
  BY DEF Quiet
<1>3. CASE UNCHANGED buffer
  BY <1>1, <1>2, <1>3, BufferKept DEF KeepsFile
<1>4. CASE \E n \in Names : StatProbe(n)
  BY <1>4 DEF StatProbe, BufferOk
<1>5. CASE \E i \in Slots : QreadRefresh(i) \/ QreadRecord(i) \/ QreadMissing(i)
  <2>1. PICK i \in Slots : QreadRefresh(i) \/ QreadRecord(i) \/ QreadMissing(i)
    BY <1>5
  <2>. DEFINE f == dfiles[i]
  <2>2. f \in File /\ f.name \in Names /\ OnDisk(i) /\ f.pos \div Sect \in Nat
    BY <1>1, <2>1, ReadingTyped DEF QreadRefresh, QreadRecord, QreadMissing, Reading
  <2>3. i # NULL
    BY DiskIOAssumption DEF Slots, NULL
  <2>4. /\ OnDisk(i)' /\ dfiles'[i].name = f.name /\ dfiles'[i].alloc = f.alloc
        /\ dfiles'[i].live = f.live
    BY <1>2, <2>2 DEF KeepsFile
  <2>5. CASE QreadRefresh(i)
    <3>1. PICK d \in DiskLen(f, i) : SetCache(d.o)
      BY <2>5 DEF QreadRefresh
    <3>2. \/ d.o = Untouched
          \/ Claims(d.o, f, i)
      BY <1>1, <2>2, <2>3, DiskLenSound DEF SameFcb
    <3>3. CASE d.o = Untouched
      <4>1. UNCHANGED buffer
        BY <3>1, <3>3 DEF SetCache, Untouched, buffer
      <4>. QED
        BY <1>3, <4>1
    <3>4. CASE Claims(d.o, f, i)
      BY <1>2, <2>4, <3>1, <3>4, BufferLoaded DEF Claims
    <3>. QED
      BY <3>2, <3>3, <3>4
  <2>6. CASE QreadRecord(i) \/ QreadMissing(i)
    <3>. DEFINE o == Load(f, i, f.pos \div Sect)
    <3>1. SetCache(o)
      BY <2>6 DEF QreadRecord, QreadMissing
    <3>2. Claims(o, f, i)
      BY <1>1, <2>2, <2>3, LoadSound DEF SameFcb
    <3>. HIDE DEF o
    <3>. QED
      BY <1>2, <2>4, <3>1, <3>2, BufferLoaded DEF Claims
  <2>. QED
    BY <2>1, <2>5, <2>6
<1>6. CASE \E i \in Slots : QwriteFails(i)
  <2>1. PICK i \in Slots : QwriteFails(i)
    BY <1>6
  <2>. DEFINE f == dfiles[i]
              rec == f.pos \div Sect
              n == Span(f.pos, Len(call.buf) - call.total)
              o == Load(f, i, rec)
              cells == Merged(o.dma, f.pos % Sect, n, call.buf, call.total)
              left == IF o.code = "error" THEN o ELSE [o EXCEPT !.dma = cells]
  <2>2. f \in File /\ f.name \in Names /\ OnDisk(i) /\ rec \in Nat /\ i # NULL
    BY <1>1, <2>1, WritingTyped, DiskIOAssumption DEF QwriteFails, Slots, NULL
  <2>3. /\ o.fp # NULL => o.fp = i
        /\ f.live /\ rec \in f.alloc => o.code = "ok"
        /\ f.live /\ rec \notin f.alloc => o.code = "unwritten" /\ o.fp = NULL
    BY <1>1, <2>2, LoadSound DEF Claims, SameFcb
  <2>4. SetCache(left) /\ (o.code = "error" \/ WriteCode(f, rec) = "error")
    BY <2>1 DEF QwriteFails
  <2>5. f.live => o.fp = NULL
    <3>1. f.alloc \subseteq Recs
      BY <2>2 DEF File
    <3>. HIDE DEF o, rec, f, left
    <3>. QED
      BY <2>3, <2>4, <3>1 DEF WriteCode
  <2>6. left.fp = o.fp
    <3>1. [o EXCEPT !.dma = cells].fp = o.fp
      <4>. HIDE DEF cells
      <4>. QED
        BY DEF Load
    <3>. HIDE DEF o, cells
    <3>. QED
      BY <3>1
  <2>7. /\ OnDisk(i)' /\ dfiles'[i].live = f.live
    BY <1>2, <2>2 DEF KeepsFile
  <2>. HIDE DEF o, left
  <2>8. left.fp # NULL => left.fp = i /\ ~dfiles'[i].live
    BY <2>3, <2>5, <2>6, <2>7
  <2>. QED
    BY <2>4, <2>7, <2>8, BufferLoaded
<1>. QED
  BY <1>3, <1>4, <1>5, <1>6 DEF Quiet

\* Every other step leaves the buffer alone, except a write, which leaves in it
\* what it wrote, and an open, which may load the last record.
LEMMA BufferNext ==
    ASSUME "probe_cached" \notin Usage, HandleInv, BufferOk, [Next]_vars
    PROVE  BufferOk'
<1>1. TypeOK /\ TableConsistent /\ FilesTyped /\ SlotsNamed /\ HandlesOk
  BY DEF HandleInv, TypeOK, TableConsistent
<1>2. ASSUME NEW h \in Handles, NEW buf \in Buffers, QwriteBegin(h, buf)
      PROVE  BufferOk'
  <2>1. PICK i \in Slots :
           /\ OnDisk(i)' /\ dfiles'[i].name = dfiles[i].name
           /\ dfiles'[i].alloc = dfiles[i].alloc /\ dfiles'[i].live = dfiles[i].live
           /\ \A j \in Slots \ {i} : dfiles'[j] = dfiles[j]
           /\ UNCHANGED <<disk, dma, cache_fp, cache_rec>>
    BY <1>1, <1>2, QwriteBeginEffect
  <2>2. \A j \in Slots \ {i} : OnDisk(j)' <=> OnDisk(j)
    BY <2>1, UnchangedHandle
  <2>. QED
    BY <1>1, <2>1, <2>2, BufferKept DEF buffer
<1>3. ASSUME NEW i \in Slots, QwriteRecord(i)
      PROVE  BufferOk'
  <2>. DEFINE f == dfiles[i]
              rec == f.pos \div Sect
              n == Span(f.pos, Len(call.buf) - call.total)
              o == Load(f, i, rec)
              cells == Merged(o.dma, f.pos % Sect, n, call.buf, call.total)
  <2>1. PICK g \in Gaps(f, rec) :
           /\ rec \in Recs /\ Live(i)'
           /\ dfiles'[i].name = f.name /\ dfiles'[i].alloc = f.alloc \cup {rec} \cup g
           /\ disk'[f.name] = Stored(disk[f.name], rec, cells, g)
           /\ dma' = cells /\ cache_fp' = i /\ cache_rec' = rec
    BY <1>1, <1>3, QwriteRecordEffect
  <2>. HIDE DEF cells, rec
  <2>2. Stored(disk[f.name], rec, cells, g)[rec] = cells
    BY <2>1 DEF Stored
  <2>. QED
    BY <2>1, <2>2 DEF BufferOk, Live, OnDisk
<1>4. ASSUME NEW i \in Slots, CloseFile(i)
      PROVE  BufferOk'
  <2>1. \A j \in Slots \ {i} : /\ OnDisk(j)' <=> OnDisk(j)
                               /\ Live(j)' => Live(j) /\ dfiles'[j] = dfiles[j]
    BY <1>1, <1>4, CloseFileEffect
  <2>2. CASE cache_fp = i
    BY <1>4, <2>2 DEF CloseFile, ForgetSlot, BufferOk
  <2>3. CASE cache_fp # i
    <3>1. UNCHANGED buffer /\ disk' = disk
      BY <1>4, <2>3 DEF CloseFile, ForgetSlot, buffer
    <3>. QED
      BY <1>1, <2>1, <2>3, <3>1, BufferKept DEF Live
  <2>. QED
    BY <2>2, <2>3
<1>5. ASSUME NEW i \in Slots, NEW n \in Names, NEW m \in Mode, Sopen(i, n, m)
      PROVE  BufferOk'
  <2>1. ~dfiles[i].used /\ ~OnDisk(i) /\ cache_fp # i /\ i # NULL
    BY <1>5, DiskIOAssumption DEF Sopen, FirstFree, OnDisk, BufferOk, Slots, NULL
  <2>2. CASE MakeFile(i, n, m)
    <3>1. \A j \in Slots \ {i} : /\ OnDisk(j)' <=> OnDisk(j)
                                 /\ Live(j)' => Live(j) /\ dfiles'[j] = dfiles[j]
      BY <1>1, <2>1, <2>2, MakeFileEffect
    <3>2. UNCHANGED buffer /\ disk' = disk
      BY <2>2 DEF MakeFile, buffer
    <3>. QED
      BY <1>1, <2>1, <3>1, <3>2, BufferKept DEF Live
  <2>3. CASE SopenExisting(i, n, m)
    <3>. DEFINE f == Activated(n, m)
    <3>1. PICK d \in DiskLen(f, i) : SetCache(d.o)
      BY <1>1, <2>1, <2>3, SopenExistingFills
    <3>2. f \in File /\ f.name = n /\ f.alloc = dir[n].alloc /\ disk' = disk
      BY <1>1, <2>1, <2>3, SopenExistingFills, ZenonT(30)
    <3>3. f.live
      BY DEF Activated, Opening, FreeSlot
    <3>4. /\ Live(i)' /\ dfiles'[i].name = n /\ dfiles'[i].alloc = dir[n].alloc
          /\ \A j \in Slots \ {i} : dfiles'[j] = dfiles[j]
      BY <1>1, <2>1, <2>3, SopenExistingEffect
    <3>. HIDE DEF f
    <3>5. d.o = Untouched \/ Claims(d.o, f, i)
      BY <1>1, <2>1, <3>2, DiskLenSound DEF SameFcb
    <3>6. CASE d.o = Untouched
      <4>1. UNCHANGED buffer
        BY <3>1, <3>6 DEF SetCache, Untouched, buffer
      <4>2. \A j \in Slots \ {i} : OnDisk(j)' <=> OnDisk(j)
        BY <3>4, UnchangedHandle
      <4>. QED
        BY <1>1, <2>1, <3>2, <3>4, <4>1, <4>2, BufferKept
    <3>7. CASE Claims(d.o, f, i)
      BY <3>1, <3>2, <3>3, <3>4, <3>7, BufferLoaded DEF Claims, Live
    <3>. QED
      BY <3>5, <3>6, <3>7
  <2>. QED
    BY <1>5, <2>2, <2>3 DEF Sopen, SopenTrunc, SopenCreate
<1>6. ASSUME NEW n \in Names, Remove(n) \/ \E ro \in BOOLEAN : Chmod(n, ro)
      PROVE  BufferOk'
  <2>1. UNCHANGED buffer /\ disk' = disk /\ dfiles' = Purged(n)
    BY <1>6 DEF Remove, Chmod, buffer
  <2>2. \A j \in Slots : /\ OnDisk(j)' <=> OnDisk(j)
                         /\ Live(j)' => Live(j) /\ dfiles'[j] = dfiles[j]
    BY <1>1, <2>1, PurgeEffect
  <2>. QED
    BY <1>1, <2>1, <2>2, BufferKept DEF Live
<1>7. ASSUME NEW old \in Names, NEW new \in Names, Rename(old, new)
      PROVE  BufferOk'
  <2>1. UNCHANGED buffer /\ dfiles' = Purged(old) /\ ~dir[new].exists
    BY <1>7 DEF Rename, buffer
  <2>2. \A j \in Slots : /\ OnDisk(j)' <=> OnDisk(j)
                         /\ Live(j)' => /\ Live(j) /\ dfiles[j].name # old
                                        /\ dfiles'[j] = dfiles[j]
    BY <1>1, <2>1, PurgeEffect
  <2>3. \A k \in Names \ {old, new} : disk'[k] = disk[k]
    BY <1>1, <1>7 DEF Rename, Moved, FilesTyped
  <2>4. \A j \in Slots : Live(j)' => dfiles[j].name \in Names \ {old, new}
    BY <1>1, <2>1, <2>2 DEF HandlesOk, HandleSound, SlotsNamed, Live
  <2>. QED
    BY <1>1, <2>1, <2>2, <2>3, <2>4, BufferKept DEF Live
<1>8. CASE NextProgram
  BY <1>8 DEF NextProgram, BufferOk
<1>. QED
  BY <1>1, <1>2, <1>3, <1>4, <1>5, <1>6, <1>7, <1>8, BufferQuiet, StepKinds

-----------------------------------------------------------------------------
(* The bytes on the disk.                                                  *)

\* The sharers of a file that nobody has written know no record the directory
\* does not know.
LEMMA HeldInEntry ==
    ASSUME HandlesOk, NEW n \in Names, n \notin Unclosed, NEW r, Held(n, r)
    PROVE  r \in dir[n].alloc
BY DEF HandlesOk, HandleSound, Held, Unclosed, OpenOn, Live

\* The writer of a file knows every record.
LEMMA HeldByWriter ==
    ASSUME HandlesOk, Exclusive, NEW i \in Slots, Live(i), dfiles[i].writable,
           NEW r, Held(dfiles[i].name, r)
    PROVE  r \in dfiles[i].alloc
<1>1. dir[dfiles[i].name].alloc \subseteq dfiles[i].alloc
  BY DEF HandlesOk, HandleSound, Current
<1>2. ASSUME NEW j \in Slots, Live(j), dfiles[j].name = dfiles[i].name, r \in dfiles[j].alloc
      PROVE  r \in dfiles[i].alloc
  <2>1. CASE dfiles[j].wrote
    BY <1>2, <2>1 DEF HandlesOk, HandleSound, Exclusive
  <2>2. CASE ~dfiles[j].wrote
    BY <1>1, <1>2, <2>2 DEF HandlesOk, HandleSound
  <2>. QED
    BY <2>1, <2>2
<1>. QED
  BY <1>1, <1>2 DEF Held

\* A step after which every file is empty or one that there was, with all its
\* records known.
LEMMA ContentKept ==
    ASSUME ContentOnDisk,
           \A n \in Names : Known(n)' =>
              \/ content'[n] = NoBytes
              \/ \E m \in Names : /\ Known(m) /\ content'[n] = content[m]
                                  /\ disk'[n] = disk[m]
                                  /\ \A r \in Recs : Held(m, r) => Held(n, r)'
    PROVE  ContentOnDisk'
<1>1. ASSUME NEW n \in Names, Known(n)', NEW p \in Positions, content'[n][p] # Hole
      PROVE  disk'[n][p \div Sect][p % Sect] = content'[n][p] /\ Held(n, p \div Sect)'
  <2>1. content'[n] # NoBytes
    BY <1>1 DEF NoBytes
  <2>2. PICK m \in Names : /\ Known(m) /\ content'[n] = content[m]
                           /\ disk'[n] = disk[m]
                           /\ \A r \in Recs : Held(m, r) => Held(n, r)'
    BY <1>1, <2>1
  <2>3. disk[m][p \div Sect][p % Sect] = content[m][p] /\ Held(m, p \div Sect)
    BY <1>1, <2>2 DEF ContentOnDisk, Known, Held, OpenOn, Live
  <2>4. p \div Sect \in Recs
    BY BdosAssumption DEF Positions, Recs
  <2>. QED
    BY <2>2, <2>3, <2>4
<1>. QED
  BY <1>1 DEF ContentOnDisk, Known, Held, OpenOn, Live

\* The steps that write nothing lose nothing.
LEMMA ContentUnwritten ==
    ASSUME HandleInv, ContentOnDisk,
           \/ Quiet
           \/ \E h \in Handles, buf \in Buffers : QwriteBegin(h, buf)
           \/ \E i \in Slots : CloseFile(i)
           \/ \E i \in Slots, n \in Names, m \in Mode : Sopen(i, n, m)
           \/ \E n \in Names : Remove(n)
           \/ \E n \in Names, ro \in BOOLEAN : Chmod(n, ro)
           \/ \E old, new \in Names : Rename(old, new)
           \/ NextProgram
    PROVE  ContentOnDisk'
<1>1. TypeOK /\ TableConsistent /\ FilesTyped /\ SlotsNamed /\ HandlesOk /\ Exclusive
  BY DEF HandleInv, TypeOK, TableConsistent
<1>2. CASE Quiet
  <2>1. UNCHANGED <<dir, disk, content, kind>> /\ \A j \in Slots : KeepsFile(j)
    BY <1>2 DEF Quiet, ghosts
  <2>2. \A n \in Names : \A r : Held(n, r) => Held(n, r)'
    BY <2>1 DEF Held, KeepsFile, Live
  <2>. QED
    BY <2>1, <2>2, ContentKept DEF Known
<1>3. CASE \E h \in Handles, buf \in Buffers : QwriteBegin(h, buf)
  <2>1. PICK h \in Handles, buf \in Buffers : QwriteBegin(h, buf)
    BY <1>3
  <2>2. PICK i \in Slots :
           /\ OnDisk(i)' /\ dfiles'[i].name = dfiles[i].name
           /\ dfiles'[i].alloc = dfiles[i].alloc /\ dfiles'[i].live = dfiles[i].live
           /\ \A j \in Slots \ {i} : dfiles'[j] = dfiles[j]
           /\ UNCHANGED <<dir, disk, ghosts>>
    BY <1>1, <2>1, QwriteBeginEffect
  <2>3. \A n \in Names : \A r : Held(n, r) => Held(n, r)'
    BY <2>2 DEF Held, Live, OnDisk
  <2>. QED
    BY <2>2, <2>3, ContentKept DEF Known, ghosts
<1>4. CASE \E i \in Slots : CloseFile(i)
  <2>1. PICK i \in Slots : CloseFile(i)
    BY <1>4
  <2>. DEFINE f == dfiles[i]
              n == f.name
  <2>2. /\ f \in File /\ n \in Names /\ Live(i) /\ ~OnDisk(i)'
        /\ \A j \in Slots \ {i} :
              /\ Live(j)' => Live(j) /\ dfiles'[j] = dfiles[j]
              /\ Live(j) /\ ~Live(j)' => SetsCount(f) /\ dfiles[j].name = n
        /\ dir'[n].exists = dir[n].exists
        /\ dir'[n].alloc = dir[n].alloc \cup f.alloc
        /\ \A k \in Names \ {n} : dir'[k] = dir[k]
    BY <1>1, <2>1, CloseFileEffect
  <2>3. disk' = disk /\ content' = content
    BY <2>1 DEF CloseFile
  <2>6. ASSUME NEW k \in Names, kind'[k] # "lost"
        PROVE  kind[k] # "lost"
    <3>1. kind' = [kind EXCEPT ![n] = IF CountIsStale(@, dir[n], f) THEN "stale" ELSE @]
      BY <2>1 DEF CloseFile
    <3>. HIDE DEF n, f
    <3>. QED
      BY <1>1, <2>2, <2>6, <3>1 DEF FilesTyped, CountIsStale
  <2>4. ASSUME NEW j \in Slots \ {i}, Live(j), ~Live(j)'
        PROVE  dfiles[j].alloc \subseteq dir[n].alloc
    <3>1. f.wrote /\ dfiles[j].name = n
      BY <2>2, <2>4 DEF SetsCount
    <3>. QED
      BY <1>1, <2>2, <2>4, <3>1 DEF HandlesOk, HandleSound, Exclusive
  <2>. HIDE DEF f, n
  <2>5. \A k \in Names : \A r : Held(k, r) => Held(k, r)'
    BY <2>2, <2>4 DEF Held, f, n
  <2>. QED
    BY <2>2, <2>3, <2>5, <2>6, ContentKept DEF Known
<1>5. CASE \E i \in Slots, n \in Names, m \in Mode : Sopen(i, n, m)
  <2>1. PICK i \in Slots, n \in Names, m \in Mode : Sopen(i, n, m)
    BY <1>5
  <2>2. ~dfiles[i].used /\ ~Live(i)
    BY <2>1 DEF Sopen, FirstFree, OnDisk, Live
  <2>3. CASE MakeFile(i, n, m)
    <3>1. /\ \A k \in Names \ {n} : dir'[k] = dir[k] /\ kind'[k] = kind[k]
                                    /\ content'[k] = content[k]
          /\ content'[n] = NoBytes /\ disk' = disk
      BY <1>1, <2>3 DEF MakeFile, FilesTyped
    <3>2. dfiles' = [Purged(n) EXCEPT ![i] = Opening(n, m)] /\ Purged(n) \in [Slots -> File]
      BY <1>1, <2>3, PurgedTyped DEF MakeFile
    <3>3. \A j \in Slots : Live(j) /\ dfiles[j].name # n => dfiles'[j] = dfiles[j]
      BY <2>2, <3>2 DEF Purged, OpenOn
    <3>4. \A k \in Names \ {n} : \A r : Held(k, r) => Held(k, r)'
      BY <3>1, <3>3 DEF Held, Live, OnDisk
    <3>. QED
      BY <3>1, <3>4, ContentKept DEF Known
  <2>4. CASE SopenExisting(i, n, m)
    <3>1. /\ dir' = dir /\ disk' = disk /\ UNCHANGED ghosts
          /\ \A j \in Slots \ {i} : dfiles'[j] = dfiles[j]
      BY <1>1, <2>2, <2>4, SopenExistingEffect
    <3>2. \A k \in Names : \A r : Held(k, r) => Held(k, r)'
      BY <2>2, <3>1 DEF Held, Live, OnDisk
    <3>. QED
      BY <3>1, <3>2, ContentKept DEF Known, ghosts
  <2>. QED
    BY <2>1, <2>3, <2>4 DEF Sopen, SopenTrunc, SopenCreate
<1>6. CASE \E n \in Names : Remove(n)
  <2>1. PICK n \in Names : Remove(n)
    BY <1>6
  <2>2. /\ \A k \in Names \ {n} : dir'[k] = dir[k] /\ kind'[k] = kind[k]
                                  /\ content'[k] = content[k]
        /\ content'[n] = NoBytes /\ disk' = disk
    BY <1>1, <2>1 DEF Remove, FilesTyped
  <2>3. \A j \in Slots : Live(j) /\ dfiles[j].name # n => dfiles'[j] = dfiles[j]
    BY <2>1 DEF Remove, Purged, OpenOn
  <2>4. \A k \in Names \ {n} : \A r : Held(k, r) => Held(k, r)'
    BY <2>2, <2>3 DEF Held, Live, OnDisk
  <2>. QED
    BY <2>2, <2>4, ContentKept DEF Known
<1>7. CASE \E n \in Names, ro \in BOOLEAN : Chmod(n, ro)
  <2>1. PICK n \in Names, ro \in BOOLEAN : Chmod(n, ro)
    BY <1>7
  <2>2. /\ \A k \in Names \ {n} : dir'[k] = dir[k] /\ kind'[k] = kind[k]
        /\ dir'[n] = [dir[n] EXCEPT !.ro = ro] /\ dir[n] \in Entry
        /\ kind'[n] = IF n \in Unclosed THEN "lost" ELSE kind[n]
        /\ content' = content /\ disk' = disk
    BY <1>1, <2>1 DEF Chmod, FilesTyped
  <2>3. \A j \in Slots : Live(j) /\ dfiles[j].name # n => dfiles'[j] = dfiles[j]
    BY <2>1 DEF Chmod, Purged, OpenOn
  <2>4. \A k \in Names \ {n} : \A r : Held(k, r) => Held(k, r)'
    BY <2>2, <2>3 DEF Held, Live, OnDisk
  <2>5. dir'[n].exists = dir[n].exists /\ dir'[n].alloc = dir[n].alloc
    BY <2>2 DEF Entry
  <2>6. n \notin Unclosed => \A r : Held(n, r) => Held(n, r)'
    BY <1>1, <2>5, HeldInEntry DEF Held
  <2>. QED
    BY <2>2, <2>4, <2>5, <2>6, ContentKept DEF Known
<1>8. CASE \E old, new \in Names : Rename(old, new)
  <2>1. PICK old \in Names, new \in Names : Rename(old, new)
    BY <1>8
  <2>2. old # new /\ dir[old].exists
    BY <2>1 DEF Rename
  <2>3. /\ \A k \in Names \ {old, new} :
              /\ dir'[k] = dir[k] /\ kind'[k] = kind[k]
              /\ content'[k] = content[k] /\ disk'[k] = disk[k]
        /\ dir'[new] = dir[old] /\ content'[new] = content[old] /\ disk'[new] = disk[old]
        /\ content'[old] = NoBytes
        /\ kind'[new] = IF old \in Unclosed THEN "lost" ELSE kind[old]
    BY <1>1, <2>1, <2>2 DEF Rename, Moved, FilesTyped
  <2>4. \A j \in Slots : Live(j) /\ dfiles[j].name # old => dfiles'[j] = dfiles[j]
    BY <2>1 DEF Rename, Purged, OpenOn
  <2>5. \A k \in Names \ {old, new} : \A r : Held(k, r) => Held(k, r)'
    BY <2>3, <2>4 DEF Held, Live, OnDisk
  <2>6. old \notin Unclosed => \A r : Held(old, r) => Held(new, r)'
    BY <1>1, <2>3, HeldInEntry DEF Held
  <2>7. Known(new)' => /\ Known(old) /\ content'[new] = content[old]
                       /\ disk'[new] = disk[old]
                       /\ \A r \in Recs : Held(old, r) => Held(new, r)'
    BY <2>2, <2>3, <2>6 DEF Known
  <2>8. ASSUME NEW k \in Names \ {old, new}, Known(k)'
        PROVE  /\ Known(k) /\ content'[k] = content[k] /\ disk'[k] = disk[k]
               /\ \A r \in Recs : Held(k, r) => Held(k, r)'
    BY <2>3, <2>5, <2>8 DEF Known
  <2>. QED
    BY <2>3, <2>7, <2>8, ContentKept
<1>9. CASE NextProgram
  <2>1. UNCHANGED <<dir, disk, content>>
        /\ \A n \in Names : kind'[n] = IF n \in Unclosed THEN "lost" ELSE kind[n]
    BY <1>9 DEF NextProgram
  <2>2. \A n \in Names \ Unclosed : \A r : Held(n, r) => Held(n, r)'
    BY <1>1, <2>1, HeldInEntry DEF Held
  <2>. QED
    BY <2>1, <2>2, ContentKept DEF Known
<1>. QED
  BY <1>2, <1>3, <1>4, <1>5, <1>6, <1>7, <1>8, <1>9

-----------------------------------------------------------------------------
(* The handle invariant.                                                   *)

\* A transfer is in progress after a step that began it or went on with it.
LEMMA CallSteps ==
    ASSUME TypeOK, [Next]_vars
    PROVE  \/ call'.op \in {"idle", "redirect"}
           \/ \E h \in Handles, buf \in Buffers : QwriteBegin(h, buf)
           \/ \E i \in Slots : QwriteRecord(i)
           \/ \E h \in Handles, want \in ReadLens : QreadBegin(h, want)
           \/ \E i \in Slots : QreadRefresh(i) \/ QreadRecord(i) \/ QreadMissing(i)
           \/ UNCHANGED vars
<1>1. Idle.op = "idle"
  BY DEF Idle
<1>2. CASE UserCall
  <2>1. CASE UNCHANGED control /\ call = Idle
    BY <1>1, <2>1 DEF control
  <2>. QED
    BY <1>2, <2>1 DEF UserCall, Open, OpenConsole, Lseek, Close, Remove, StatProbe, Chmod,
                      Rename, Running
<1>3. CASE LibraryStep
  BY <1>1, <1>3 DEF LibraryStep, QwriteFails, QwriteReturn, QreadReturn
<1>4. CASE ProgramStep
  <2>1. CASE \E op \in Operators : RedirectOpen(op)
    BY <2>1 DEF RedirectOpen
  <2>2. CASE ~\E op \in Operators : RedirectOpen(op)
    BY <1>1, <1>4, <2>2 DEF ProgramStep, RedirectLatch, Latch, StartMain, MainReturns,
                            CloseRedirOut, CloseRedirIn, Terminate, Exit, Running,
                            Aborts, NextProgram
  <2>. QED
    BY <2>1, <2>2
<1>. QED
  BY <1>2, <1>3, <1>4 DEF Next

\* The handle of a write is one that may write and is marked, through every turn.
LEMMA WriterNext ==
    ASSUME TypeOK, TableConsistent, WriterOk, [Next]_vars
    PROVE  WriterOk'
<1>1. ASSUME NEW h \in Handles, NEW buf \in Buffers, QwriteBegin(h, buf)
      PROVE  WriterOk'
  <2>1. PICK i \in Slots :
           LET f == dfiles[i]
               e == dfiles'[i]
           IN  /\ f.writable /\ Legal(f, buf) /\ e.writable = f.writable
               /\ e.text = f.text /\ e.append = f.append /\ e.len = f.len
               /\ e.wrote = TRUE /\ e.pos = StartPos(f)
               /\ call' = [op |-> "write", slot |-> i, buf |-> buf, total |-> 0]
    BY <1>1, QwriteBeginEffect
  <2>. QED
    BY <2>1 DEF WriterOk, Legal, StartPos
<1>2. ASSUME NEW i \in Slots, QwriteRecord(i)
      PROVE  WriterOk'
  <2>. DEFINE f == dfiles[i]
              e == dfiles'[i]
              n == Span(f.pos, Len(call.buf) - call.total)
  <2>1. /\ e.writable = f.writable /\ e.text = f.text /\ e.append = f.append
        /\ e.wrote = f.wrote /\ e.pos = f.pos + n /\ e.len = LenAfter(f, n)
    BY <1>2, QwriteRecordEffect
  <2>2. f \in File /\ call \in WriteCalls /\ n \in Nat \ {0} /\ call.op = "write" /\ call.slot = i
    BY <1>2, WritingTyped DEF QwriteRecord, Writing
  <2>3. call' = [call EXCEPT !.total = @ + n]
    BY <1>2 DEF QwriteRecord
  <2>4. call'.slot = i /\ call'.buf = call.buf
    <3>. HIDE DEF n, f
    <3>. QED
      BY <2>2, <2>3 DEF WriteCalls
  <2>5. f.writable /\ f.wrote /\ Legal(f, call.buf) /\ (f.append => f.pos = f.len)
    BY <2>2 DEF WriterOk
  <2>. HIDE DEF n, f, e
  <2>6. f.append => e.pos = e.len
    BY <2>1, <2>2, <2>5 DEF LenAfter, Max2, File
  <2>7. Legal(e, call.buf)
    BY <2>1, <2>5 DEF Legal
  <2>. QED
    BY <2>1, <2>4, <2>5, <2>6, <2>7 DEF WriterOk, e
<1>3. CASE UNCHANGED vars
  BY <1>3 DEF vars, control, library, WriterOk
<1>4. CASE call'.op # "write"
  BY <1>4 DEF WriterOk
<1>5. ASSUME NEW i \in Slots, QreadRefresh(i) \/ QreadRecord(i) \/ QreadMissing(i)
      PROVE  call'.op # "write"
  <2>1. call \in ReadCalls
    BY <1>5, ReadingTyped DEF QreadRefresh, QreadRecord, QreadMissing, Reading
  <2>. QED
    BY <1>5, <2>1 DEF QreadRefresh, QreadRecord, QreadMissing, ReadCalls
<1>6. ASSUME NEW h \in Handles, NEW want \in ReadLens, QreadBegin(h, want)
      PROVE  call'.op # "write"
  BY <1>6 DEF QreadBegin
<1>. QED
  BY <1>1, <1>2, <1>3, <1>4, <1>5, <1>6, CallSteps

\* A turn of __qwrite makes the FCB of the writer know more.
LEMMA HandlesWrite ==
    ASSUME HandleInv, NEW i \in Slots, QwriteRecord(i)
    PROVE  HandlesOk' /\ Exclusive' /\ EntriesOk'
<1>. DEFINE f == dfiles[i]
            rec == f.pos \div Sect
<1>1. TypeOK /\ TableConsistent /\ HandlesOk /\ Exclusive /\ EntriesOk
  BY DEF HandleInv
<1>2. PICK g \in Gaps(f, rec) :
         /\ Live(i) /\ rec \in Recs /\ Live(i)' /\ dfiles'[i].name = f.name
         /\ dfiles'[i].writable = f.writable /\ dfiles'[i].wrote = f.wrote
         /\ dfiles'[i].alloc = f.alloc \cup {rec} \cup g
         /\ dfiles'[i].rc = Max2(f.rc, rec + 1)
         /\ \A j \in Slots \ {i} : dfiles'[j] = dfiles[j]
         /\ dir' = dir
  BY <1>1, QwriteRecordEffect
<1>3. f \in File /\ dir[f.name] \in Entry /\ f.wrote
  BY <1>1, WritingTyped DEF QwriteRecord, Writing, TypeOK, FilesTyped, HandleInv, WriterOk
<1>4. HandleSound(f, dir[f.name])
  BY <1>1, <1>2 DEF HandlesOk
<1>. HIDE DEF f, rec
<1>5. \A j \in Slots \ {i} : Live(j)' <=> Live(j)
  BY <1>2, UnchangedHandle
<1>6. HandleSound(dfiles'[i], dir[f.name])
  <2>1. f.rc \in Nat /\ rec \in Nat /\ f.alloc \subseteq Recs /\ dir[f.name].rc \in Nat
    BY <1>2, <1>3 DEF File, Entry, Recs
  <2>2. ASSUME NEW r \in dfiles'[i].alloc
        PROVE  r < dfiles'[i].rc
    <3>3. r \in f.alloc \/ r = rec \/ r \in g
      BY <1>2, <2>2
    <3>4. r \in g => r \in Recs /\ r < rec
      BY DEF Gaps
    <3>5. r \in f.alloc => r \in Recs /\ r < f.rc
      BY <1>4, <2>1 DEF HandleSound
    <3>1. r \in Recs /\ (r < f.rc \/ r <= rec)
      BY <1>2, <2>1, <3>3, <3>4, <3>5 DEF Recs
    <3>. QED
      BY <1>2, <2>1, <3>1 DEF Max2, Recs
  <2>3. Current(dfiles'[i]) <=> Current(f)
    BY <1>2 DEF Current
  <2>4. f.rc <= dfiles'[i].rc
    BY <1>2, <2>1 DEF Max2
  <2>5. Current(f) => dir[f.name].alloc \subseteq dfiles'[i].alloc
    BY <1>2, <1>4 DEF HandleSound
  <2>6. Current(f) => dir[f.name].rc <= dfiles'[i].rc
    BY <1>2, <1>4, <2>1, <2>4 DEF HandleSound, Max2
  <2>. QED
    BY <1>2, <1>3, <1>4, <2>2, <2>3, <2>5, <2>6 DEF HandleSound
<1>7. HandlesOk'
  BY <1>1, <1>2, <1>5, <1>6 DEF HandlesOk, HandleSound, Current
<1>8. Exclusive'
  BY <1>1, <1>2, <1>5 DEF Exclusive, f
<1>. QED
  BY <1>1, <1>2, <1>7, <1>8 DEF EntriesOk

\* What handles know of their files stays sound, and one writer per file.
LEMMA HandlesNext ==
    ASSUME HandleInv, [Next]_vars
    PROVE  HandleInv'
<1>1. TypeOK /\ TableConsistent /\ FilesTyped /\ SlotsNamed /\ HandlesOk /\ Exclusive
      /\ EntriesOk /\ WriterOk
  BY DEF HandleInv, TypeOK, TableConsistent
<1>2. TypeOK' /\ TableConsistent' /\ WriterOk'
  BY <1>1, NextTyped, WriterNext
<1>3. CASE Quiet
  <2>1. dir' = dir /\ \A j \in Slots : KeepsHandle(j)
    BY <1>3, KeepsFileHandle DEF Quiet
  <2>2. \A n \in Names : KeepsEntry(n)
    BY <2>1 DEF KeepsEntry
  <2>3. \A j \in Slots : Live(j)' => KeepsEntry(dfiles[j].name)
    BY <1>1, <2>1, <2>2 DEF KeepsHandle, Live, SlotsNamed
  <2>. QED
    BY <1>1, <1>2, <2>1, <2>3, HandlesKept DEF HandleInv, EntriesOk
<1>4. ASSUME NEW h \in Handles, NEW buf \in Buffers, QwriteBegin(h, buf)
      PROVE  HandleInv'
  <2>1. PICK i \in Slots :
           LET f == dfiles[i]
               e == dfiles'[i]
           IN  /\ f \in File /\ OnDisk(i) /\ f.writable
               /\ OnDisk(i)' /\ e.name = f.name /\ e.writable = f.writable
               /\ e.alloc = f.alloc /\ e.rc = f.rc /\ e.live = f.live
               /\ e.wrote = TRUE
               /\ \A j \in Slots \ {i} : dfiles'[j] = dfiles[j]
               /\ dir' = dir
    BY <1>1, <1>4, QwriteBeginEffect
  <2>2. \A j \in Slots : Live(j)' <=> Live(j)
    BY <2>1, UnchangedHandle DEF Live
  <2>3. HandlesOk'
    BY <1>1, <2>1, <2>2 DEF HandlesOk, HandleSound, Current
  <2>4. Exclusive'
    BY <1>1, <2>1, <2>2 DEF Exclusive
  <2>. QED
    BY <1>1, <1>2, <2>1, <2>3, <2>4 DEF HandleInv, EntriesOk
<1>5. ASSUME NEW i \in Slots, QwriteRecord(i)
      PROVE  HandleInv'
  BY <1>2, <1>5, HandlesWrite DEF HandleInv
<1>6. ASSUME NEW i \in Slots, CloseFile(i)
      PROVE  HandleInv'
  BY <1>1, <1>2, <1>6, HandlesClose DEF HandleInv
<1>7. ASSUME NEW i \in Slots, NEW n \in Names, NEW m \in Mode, Sopen(i, n, m)
      PROVE  HandleInv'
  BY <1>1, <1>2, <1>7, HandlesSopen DEF HandleInv
<1>8. CASE \/ \E n \in Names : Remove(n)
           \/ \E n \in Names, ro \in BOOLEAN : Chmod(n, ro)
           \/ \E old, new \in Names : Rename(old, new)
  BY <1>1, <1>2, <1>8, HandlesNamed DEF HandleInv
<1>9. CASE NextProgram
  <2>1. dir' = dir /\ \A j \in Slots : ~Live(j)'
    BY <1>9, FreeTyped DEF NextProgram, Live, OnDisk
  <2>. QED
    BY <1>1, <1>2, <2>1 DEF HandleInv, HandlesOk, Exclusive, EntriesOk
<1>. QED
  BY <1>1, <1>3, <1>4, <1>5, <1>6, <1>7, <1>8, <1>9, StepKinds

LEMMA HandlesInit == Init => HandleInv
<1>. SUFFICES ASSUME Init PROVE HandleInv
  OBVIOUS
<1>1. TypeOK /\ TableConsistent
  BY InitTyped
<1>2. \A j \in Slots : ~Live(j)
  BY FreeTyped DEF Init, Live, OnDisk
<1>3. \A n \in Names : dir[n].alloc = {}
  BY DEF Init, NoEntry
<1>4. call.op = "idle"
  BY DEF Init, Idle
<1>. QED
  BY <1>1, <1>2, <1>3, <1>4 DEF HandleInv, HandlesOk, Exclusive, EntriesOk, WriterOk

-----------------------------------------------------------------------------
(* Positions and records.                                                  *)

\* A position is its record and its offset there.
LEMMA DivMod ==
    ASSUME NEW p \in Int
    PROVE  /\ p = Sect * (p \div Sect) + (p % Sect)
           /\ p % Sect \in 0 .. Sect - 1 /\ p \div Sect \in Int
BY BdosAssumption

\* It is no other record and offset.
LEMMA Unique ==
    ASSUME NEW a \in Int, NEW b \in Int, NEW r \in 0 .. Sect - 1, NEW s \in 0 .. Sect - 1,
           Sect * a + r = Sect * b + s
    PROVE  a = b /\ r = s
<1>1. Sect * (a - b) = s - r
  BY BdosAssumption
<1>2. a - b \in Int /\ s - r < Sect /\ s - r > -Sect
  BY BdosAssumption
<1>3. a - b = 0
  BY BdosAssumption, <1>1, <1>2
<1>. QED
  BY BdosAssumption, <1>3

\* A transfer that does not cross the end of its record stays in it.
LEMMA SameRecord ==
    ASSUME NEW p \in Nat, NEW j \in Nat, (p % Sect) + j < Sect
    PROVE  (p + j) \div Sect = p \div Sect /\ (p + j) % Sect = (p % Sect) + j
<1>1. /\ p = Sect * (p \div Sect) + (p % Sect)
      /\ p \div Sect \in Int /\ p % Sect \in 0 .. Sect - 1
  BY DivMod
<1>2. p + j = Sect * (p \div Sect) + ((p % Sect) + j)
  BY <1>1, BdosAssumption
<1>3. (p % Sect) + j \in 0 .. Sect - 1 /\ p + j \in Int
  BY <1>1, BdosAssumption
<1>4. /\ p + j = Sect * ((p + j) \div Sect) + ((p + j) % Sect)
      /\ (p + j) \div Sect \in Int /\ (p + j) % Sect \in 0 .. Sect - 1
  BY <1>3, DivMod
<1>5. Sect * (p \div Sect) + ((p % Sect) + j) = Sect * ((p + j) \div Sect) + ((p + j) % Sect)
  BY <1>2, <1>4
<1>. QED
  BY <1>1, <1>3, <1>4, <1>5, Unique

\* Two positions of one record are as far apart as their offsets.
LEMMA Apart ==
    ASSUME NEW p \in Nat, NEW q \in Nat, p \div Sect = q \div Sect
    PROVE  p - q = (p % Sect) - (q % Sect)
<1>1. /\ p = Sect * (p \div Sect) + (p % Sect)
      /\ q = Sect * (p \div Sect) + (q % Sect)
  BY DivMod
<1>. DEFINE base == Sect * (p \div Sect)
            r == p % Sect
            s == q % Sect
<1>2. r \in Int /\ s \in Int /\ base \in Int
  BY BdosAssumption, DivMod
<1>3. p = base + r /\ q = base + s
  BY <1>1
<1>. HIDE DEF base, r, s
<1>4. p - q = r - s
  BY <1>2, <1>3
<1>. QED
  BY <1>4 DEF r, s

-----------------------------------------------------------------------------
(* A turn of __qwrite.                                                     *)

\* Read, lay over, write back: every byte put in the file before is where it was,
\* and the new ones are where they belong.
LEMMA ContentWrite ==
    ASSUME HandleInv, BufferOk, ContentOnDisk, NEW i \in Slots, QwriteRecord(i)
    PROVE  ContentOnDisk'
<1>. DEFINE f == dfiles[i]
            rec == f.pos \div Sect
            off == f.pos % Sect
            n == Span(f.pos, Len(call.buf) - call.total)
            o == Load(f, i, rec)
            cells == Merged(o.dma, off, n, call.buf, call.total)
<1>1. TypeOK /\ TableConsistent /\ FilesTyped /\ HandlesOk /\ Exclusive
  BY DEF HandleInv, TypeOK
<1>2. PICK g \in Gaps(f, rec) :
         /\ Live(i) /\ rec \in Recs /\ Live(i)' /\ dfiles'[i].name = f.name
         /\ dfiles'[i].alloc = f.alloc \cup {rec} \cup g
         /\ \A j \in Slots \ {i} : dfiles'[j] = dfiles[j]
         /\ disk'[f.name] = Stored(disk[f.name], rec, cells, g)
         /\ \A k \in Names \ {f.name} : disk'[k] = disk[k]
         /\ dir' = dir
  BY <1>1, QwriteRecordEffect
<1>3. /\ f \in File /\ f.name \in Names /\ n \in Nat \ {0} /\ f.pos \in Nat
      /\ call.total \in Nat /\ rec \in Nat /\ off \in Offs
      /\ f.writable /\ f.live /\ i # NULL /\ off + n <= Sect
  <2>1. f \in File /\ f.name \in Names /\ n \in Nat \ {0} /\ f.pos \in Nat
        /\ call.total \in Nat /\ rec \in Nat /\ off \in Offs
        /\ Len(call.buf) - call.total \in Nat \ {0}
    BY <1>1, WritingTyped DEF QwriteRecord
  <2>2. off + n <= Sect
    BY <2>1, SpanFits
  <2>3. f.writable
    BY DEF QwriteRecord, Writing, HandleInv, WriterOk
  <2>. QED
    BY <1>2, <2>1, <2>2, <2>3, DiskIOAssumption DEF Live, Slots, NULL
<1>4. /\ content'[f.name] = Spliced(content[f.name], f.pos, n, call.buf, call.total)
      /\ kind'[f.name] = KindAfter(kind[f.name], f)
      /\ \A k \in Names \ {f.name} : content'[k] = content[k] /\ kind'[k] = kind[k]
  BY <1>1, QwriteRecordGhosts
<1>5. rec \in f.alloc => o.dma = disk[f.name][rec]
  BY <1>1, <1>3, LoadSound DEF SameFcb
<1>6. \A r : Held(f.name, r) => r \in f.alloc
  BY <1>1, <1>2, <1>3, HeldByWriter
<1>7. \A k \in Names : \A r : Held(k, r) => Held(k, r)'
  <2>. HIDE DEF rec
  <2>. QED
    BY <1>2 DEF Held, Live, OnDisk
<1>8. ASSUME NEW k \in Names \ {f.name}, Known(k)', NEW p \in Positions,
             content'[k][p] # Hole
      PROVE  disk'[k][p \div Sect][p % Sect] = content'[k][p] /\ Held(k, p \div Sect)'
  BY <1>2, <1>4, <1>7, <1>8 DEF ContentOnDisk, Known, Held, OpenOn, Live
<1>9. ASSUME NEW k \in Names, k = f.name, Known(k)', NEW p \in Positions,
             content'[k][p] # Hole
      PROVE  disk'[k][p \div Sect][p % Sect] = content'[k][p] /\ Held(k, p \div Sect)'
  <2>1. Known(k)
    BY <1>2, <1>4, <1>9 DEF Known, KindAfter
  <2>2. p \in Nat /\ p \div Sect \in Recs /\ p % Sect \in Offs
    <3>1. p \in Nat /\ p \div Sect \in Recs
      BY BdosAssumption DEF Positions, Recs
    <3>. QED
      BY <3>1, PositionSplit
  <2>3. \A r : r = rec => Held(k, r)'
    <3>. HIDE DEF rec
    <3>. QED
      BY <1>2, <1>9 DEF Held
  <2>4. CASE f.pos <= p /\ p < f.pos + n
    <3>1. p - f.pos \in Nat /\ f.pos + (p - f.pos) = p /\ off + (p - f.pos) < Sect
      <4>. HIDE DEF off, n
      <4>. QED
        BY <1>3, <2>2, <2>4, BdosAssumption DEF Offs
    <3>2. p \div Sect = rec /\ p % Sect = off + (p - f.pos)
      BY <1>3, <3>1, SameRecord
    <3>. HIDE DEF rec, off, n
    <3>3. off <= p % Sect /\ p % Sect < off + n
          /\ call.total + (p % Sect) - off + 1 = call.total + p - f.pos + 1
      BY <1>3, <2>2, <2>4, <3>2 DEF Offs
    <3>4. cells[p % Sect] = call.buf[call.total + p - f.pos + 1]
      BY <2>2, <3>3 DEF Merged
    <3>. HIDE DEF cells
    <3>5. disk'[k][p \div Sect] = cells
      BY <1>2, <1>9, <2>2, <3>2 DEF Stored
    <3>6. content'[k][p] = call.buf[call.total + p - f.pos + 1]
      BY <1>4, <1>9, <2>4 DEF Spliced
    <3>. QED
      BY <2>3, <3>2, <3>4, <3>5, <3>6
  <2>5. CASE ~(f.pos <= p /\ p < f.pos + n)
    <3>1. content'[k][p] = content[f.name][p]
      <4>. HIDE DEF n
      <4>. QED
        BY <1>4, <1>9, <2>5 DEF Spliced
    <3>2. /\ disk[f.name][p \div Sect][p % Sect] = content[f.name][p]
          /\ Held(k, p \div Sect)
      BY <1>3, <1>9, <2>1, <3>1 DEF ContentOnDisk, Known, Held, OpenOn, Live
    <3>3. p \div Sect \in f.alloc
      BY <1>6, <1>9, <3>2
    <3>4. CASE p \div Sect = rec
      <4>1. p - f.pos = (p % Sect) - off
        BY <1>3, <2>2, <3>4, Apart
      <4>2. ~(off <= p % Sect /\ p % Sect < off + n)
        <5>. HIDE DEF off, n
        <5>. QED
          BY <1>3, <2>2, <2>5, <4>1 DEF Offs
      <4>3. cells[p % Sect] = o.dma[p % Sect]
        <5>. HIDE DEF off, n, o
        <5>. QED
          BY <2>2, <4>2 DEF Merged
      <4>. HIDE DEF rec, off, n, cells
      <4>4. disk'[k][p \div Sect] = cells
        BY <1>2, <1>9, <2>2, <3>4 DEF Stored
      <4>. QED
        BY <1>5, <1>7, <1>9, <3>1, <3>2, <3>3, <3>4, <4>3, <4>4
    <3>5. CASE p \div Sect # rec
      <4>1. p \div Sect \notin g
        BY <3>3 DEF Gaps
      <4>. HIDE DEF rec, cells
      <4>2. disk'[k][p \div Sect] = disk[f.name][p \div Sect]
        BY <1>2, <1>9, <2>2, <3>5, <4>1 DEF Stored
      <4>. QED
        BY <1>7, <1>9, <3>1, <3>2, <4>2
    <3>. QED
      BY <3>4, <3>5
  <2>. QED
    BY <2>4, <2>5
<1>. HIDE DEF f
<1>. QED
  BY <1>8, <1>9 DEF ContentOnDisk, Known, Held, OpenOn, Live

-----------------------------------------------------------------------------
(* Reads.                                                                  *)

\* The elements of two sequences put together.
LEMMA Appended ==
    ASSUME NEW s \in Seq(Cell), NEW t \in Seq(Cell)
    PROVE  /\ Len(s) \in Nat /\ Len(s \o t) = Len(s) + Len(t)
           /\ \A j \in 1 .. Len(s) : (s \o t)[j] = s[j]
           /\ \A j \in 1 .. Len(t) : (s \o t)[Len(s) + j] = t[j]
<1>. DEFINE m == Len(s)
            k == Len(t)
            u == s \o t
<1>1. /\ Len(u) = m + k
      /\ \A j \in 1 .. m + k : u[j] = IF j <= m THEN s[j] ELSE t[j - m]
  BY ConcatProperties
<1>2. m \in Nat /\ k \in Nat
  BY LenProperties
<1>. HIDE DEF m, k, u
<1>3. \A j \in 1 .. m : u[j] = s[j]
  BY <1>1, <1>2
<1>4. ASSUME NEW j \in 1 .. k
      PROVE  u[m + j] = t[j]
  <2>1. m + j \in 1 .. m + k /\ ~(m + j <= m) /\ (m + j) - m = j
    BY <1>2
  <2>. QED
    BY <1>1, <2>1
<1>. QED
  BY <1>1, <1>2, <1>3, <1>4 DEF m, k, u

\* A turn of __qread hands out what the disk holds, and that is what was put there.
LEMMA ReadsRecord ==
    ASSUME HandleInv, BufferOk, ContentOnDisk, ReadsMatch, NEW i \in Slots, QreadRecord(i)
    PROVE  ReadsMatch'
<1>. DEFINE f == dfiles[i]
            rec == f.pos \div Sect
            off == f.pos % Sect
            n == Min2(Span(f.pos, f.len - f.pos), call.want - Len(call.out))
            o == Load(f, i, rec)
<1>1. TypeOK /\ TableConsistent /\ FilesTyped /\ HandlesOk
  BY DEF HandleInv, TypeOK
<1>2. /\ f \in File /\ f.name \in Names /\ OnDisk(i) /\ i # NULL
      /\ call \in ReadCalls /\ call.out \in Seq(Cell) /\ call.want \in Nat
      /\ f.pos \in Nat /\ f.len \in Nat /\ off \in Offs /\ rec \in Nat
      /\ call.slot = i /\ call.op = "read"
  <2>1. call.op = "read" /\ call.slot = i
    BY DEF QreadRecord, Reading
  <2>2. i # NULL
    BY DiskIOAssumption DEF Slots, NULL
  <2>. QED
    BY <1>1, <2>1, <2>2, ReadingTyped, Zenon
<1>3. n \in Nat /\ off + n <= Sect
  <2>1. f.len - f.pos \in Nat \ {0}
    BY <1>2 DEF QreadRecord
  <2>2. call.want - Len(call.out) \in Nat \ {0}
    BY <1>2 DEF QreadRecord, Reading
  <2>3. Span(f.pos, f.len - f.pos) \in 1 .. f.len - f.pos
        /\ off + Span(f.pos, f.len - f.pos) <= Sect
    BY <1>2, <2>1, SpanFits
  <2>4. Span(f.pos, f.len - f.pos) \in Nat /\ off \in Nat /\ Sect \in Nat
    BY <1>2, <2>1, <2>3, BdosAssumption DEF Offs
  <2>. HIDE DEF f, off
  <2>. QED
    BY <2>2, <2>3, <2>4 DEF Min2
<1>4. PICK k \in 0 .. Sect :
         /\ Delivers(f, o.dma, off, n, k)
         /\ dfiles' = [dfiles EXCEPT ![i].pos = @ + k]
         /\ call' = [call EXCEPT !.out = @ \o [j \in 1 .. k |-> o.dma[off + j - 1]],
                                !.fresh = FALSE, !.eof = k < n]
  BY DEF QreadRecord
<1>5. k \in Nat /\ off + k <= Sect
  <2>1. k <= n
    BY <1>4, Zenon DEF Delivers
  <2>2. k \in Nat
    BY BdosAssumption
  <2>. HIDE DEF off, n
  <2>. QED
    BY <1>2, <1>3, <2>1, <2>2, BdosAssumption DEF Offs
<1>6. UNCHANGED <<content, kind>> /\ o.code = "ok"
  BY DEF QreadRecord, ghosts
<1>. DEFINE copied == [j \in 1 .. k |-> o.dma[off + j - 1]]
<1>7. /\ dfiles'[i].pos = f.pos + k /\ dfiles'[i].name = f.name /\ dfiles'[i].live = f.live
  <2>1. dfiles'[i] = [f EXCEPT !.pos = f.pos + k]
    BY <1>1, <1>4 DEF FilesTyped
  <2>. HIDE DEF f
  <2>. QED
    BY <1>2, <2>1 DEF File
<1>8. call'.slot = i /\ call'.out = call.out \o copied
  <2>. HIDE DEF copied
  <2>1. call' = [call EXCEPT !.out = @ \o copied, !.fresh = FALSE, !.eof = k < n]
    BY <1>4 DEF copied
  <2>. HIDE DEF n
  <2>. QED
    BY <1>2, <2>1 DEF ReadCalls
<1>9. f.live => o.dma = disk[f.name][rec]
  <2>1. /\ f.live /\ rec \in f.alloc => o.dma = disk[f.name][rec]
        /\ f.live /\ rec \notin f.alloc => o.code = "unwritten"
    BY <1>1, <1>2, LoadSound DEF SameFcb
  <2>. QED
    BY <1>6, <2>1
<1>10. ASSUME f.live, kind[f.name] # "lost", NEW j \in 1 .. k, f.pos + j - 1 \in Positions,
              content[f.name][f.pos + j - 1] # Hole
       PROVE  content[f.name][f.pos + j - 1] = o.dma[off + j - 1]
  <2>1. Known(f.name)
    BY <1>1, <1>2, <1>10 DEF HandlesOk, HandleSound, Live, Known
  <2>2. j - 1 \in Nat /\ f.pos + (j - 1) = f.pos + j - 1 /\ off + (j - 1) = off + j - 1
        /\ off + (j - 1) < Sect
    <3>. HIDE DEF off, f
    <3>. QED
      BY <1>2, <1>5, BdosAssumption DEF Offs
  <2>3. (f.pos + j - 1) \div Sect = rec /\ (f.pos + j - 1) % Sect = off + j - 1
    BY <1>2, <2>2, SameRecord
  <2>4. disk[f.name][(f.pos + j - 1) \div Sect][(f.pos + j - 1) % Sect]
           = content[f.name][f.pos + j - 1]
    BY <1>2, <1>10, <2>1 DEF ContentOnDisk, Known
  <2>. QED
    BY <1>9, <1>10, <2>3, <2>4
<1>. DEFINE start == f.pos - Len(call.out)
<1>11. copied \in Seq(Cell) /\ Len(copied) = k
  <2>1. \A j \in 1 .. k : off + j - 1 \in Offs
    BY <1>2, <1>5, BdosAssumption DEF Offs
  <2>2. o.dma \in Record
    BY <1>1, <1>2, LoadTyped
  <2>. HIDE DEF f, off, n, o
  <2>3. copied \in [1 .. k -> Cell]
    BY <2>1, <2>2 DEF Record
  <2>. HIDE DEF copied
  <2>4. copied \in Seq(Cell)
    BY <1>5, <2>3, SeqDef
  <2>5. DOMAIN copied = 1 .. k
    BY <2>3
  <2>. QED
    BY <1>5, <2>4, <2>5, LenProperties
<1>. DEFINE got == Len(call.out)
<1>12. /\ got \in Nat /\ Len(call'.out) = got + k
       /\ \A j \in 1 .. got : call'.out[j] = call.out[j]
       /\ \A j \in 1 .. k : call'.out[got + j] = copied[j]
  <2>. DEFINE c == call.out
  <2>. HIDE DEF copied, c
  <2>1. c \in Seq(Cell) /\ copied \in Seq(Cell) /\ Len(copied) = k
    BY <1>2, <1>11 DEF c
  <2>2. /\ Len(c) \in Nat /\ Len(c \o copied) = Len(c) + Len(copied)
        /\ \A j \in 1 .. Len(c) : (c \o copied)[j] = c[j]
        /\ \A j \in 1 .. Len(copied) : (c \o copied)[Len(c) + j] = copied[j]
    BY <2>1, Appended
  <2>3. call'.out = c \o copied
    BY <1>8 DEF c
  <2>. QED
    BY <2>1, <2>2, <2>3 DEF c
<1>13. \A j \in 1 .. k : copied[j] = o.dma[off + j - 1]
  OBVIOUS
<1>14. ASSUME f.live, kind[f.name] # "lost", NEW j \in 1 .. Len(call'.out),
              start + j - 1 \in Positions
       PROVE  content[f.name][start + j - 1] \in {Hole, call'.out[j]}
  <2>1. j \in 1 .. got + k
    BY <1>12
  <2>2. CASE j <= got
    <3>1. j \in 1 .. got
      <4>. HIDE DEF got
      <4>. QED
        BY <1>5, <1>12, <2>1, <2>2
    <3>. QED
      BY <1>2, <1>12, <1>14, <3>1 DEF ReadsMatch
  <2>3. CASE j > got
    <3>1. PICK l \in 1 .. k : j = got + l
      <4>1. j - got \in 1 .. k /\ j = got + (j - got)
        <5>. HIDE DEF got
        <5>. QED
          BY <1>5, <1>12, <2>1, <2>3
      <4>. QED
        BY <4>1
    <3>2. start + j - 1 = f.pos + l - 1
      <4>1. f.pos \in Nat /\ start = f.pos - got
        BY <1>2
      <4>. HIDE DEF f, got, start
      <4>. QED
        BY <1>5, <1>12, <3>1, <4>1
    <3>. HIDE DEF start, copied, f, got, o, off
    <3>. QED
      <4>1. call'.out[j] = o.dma[off + l - 1]
        BY <1>12, <1>13, <3>1
      <4>2. \/ content[f.name][f.pos + l - 1] = Hole
            \/ content[f.name][f.pos + l - 1] = o.dma[off + l - 1]
        BY <1>10, <1>14, <3>2
      <4>. QED
        BY <3>2, <4>1, <4>2
  <2>. QED
    BY <1>5, <1>12, <2>1, <2>2, <2>3
<1>15. dfiles'[i].pos - Len(call'.out) = start
  <2>1. f.pos \in Nat /\ start = f.pos - got
    BY <1>2
  <2>. HIDE DEF f, got, start
  <2>. QED
    BY <1>5, <1>7, <1>12, <2>1
<1>. HIDE DEF start, f, got
<1>. QED
  BY <1>6, <1>7, <1>8, <1>14, <1>15 DEF ReadsMatch

\* The other steps of a read hand out nothing.
LEMMA ReadsNext ==
    ASSUME HandleInv, BufferOk, ContentOnDisk, ReadsMatch, [Next]_vars
    PROVE  ReadsMatch'
<1>1. TypeOK /\ TableConsistent /\ FilesTyped
  BY DEF HandleInv, TypeOK
<1>2. ASSUME NEW h \in Handles, NEW want \in ReadLens, QreadBegin(h, want)
      PROVE  ReadsMatch'
  BY <1>2 DEF QreadBegin, ReadsMatch
<1>3. ASSUME NEW i \in Slots, QreadRefresh(i) \/ QreadMissing(i)
      PROVE  ReadsMatch'
  <2>. DEFINE f == dfiles[i]
  <2>1. /\ f \in File /\ call \in ReadCalls /\ call.slot = i /\ call.op = "read"
    BY <1>1, <1>3, ReadingTyped DEF QreadRefresh, QreadMissing, Reading
  <2>2. call'.slot = i /\ call'.out = call.out
    <3>1. call' = [call EXCEPT !.fresh = TRUE] \/ call' = [call EXCEPT !.eof = TRUE]
      BY <1>3 DEF QreadRefresh, QreadMissing
    <3>. QED
      BY <2>1, <3>1 DEF ReadCalls
  <2>3. /\ dfiles'[i].pos = f.pos /\ dfiles'[i].name = f.name /\ dfiles'[i].live = f.live
    <3>1. CASE QreadMissing(i)
      BY <3>1 DEF QreadMissing
    <3>2. CASE QreadRefresh(i)
      <4>1. PICK d \in DiskLen(f, i) : dfiles' = [dfiles EXCEPT ![i].len = Refreshed(@, d.len)]
        BY <3>2 DEF QreadRefresh
      <4>2. dfiles'[i] = [f EXCEPT !.len = Refreshed(f.len, d.len)]
        BY <1>1, <4>1 DEF FilesTyped
      <4>. HIDE DEF f
      <4>. QED
        BY <2>1, <4>2 DEF File
    <3>. QED
      BY <1>3, <3>1, <3>2
  <2>4. UNCHANGED <<content, kind>>
    BY <1>3 DEF QreadRefresh, QreadMissing, ghosts
  <2>. QED
    BY <2>1, <2>2, <2>3, <2>4 DEF ReadsMatch
<1>4. CASE UNCHANGED vars
  BY <1>4 DEF vars, control, library, ghosts, ReadsMatch
<1>5. ASSUME NEW i \in Slots, QwriteRecord(i)
      PROVE  call'.op = "write"
  <2>1. call \in WriteCalls /\ call.op = "write"
    BY <1>1, <1>5, WritingTyped DEF QwriteRecord, Writing
  <2>. QED
    BY <1>5, <2>1 DEF QwriteRecord, WriteCalls
<1>6. ASSUME NEW h \in Handles, NEW buf \in Buffers, QwriteBegin(h, buf)
      PROVE  call'.op = "write"
  BY <1>6 DEF QwriteBegin
<1>7. CASE call'.op # "read"
  BY <1>7 DEF ReadsMatch
<1>. QED
  BY <1>1, <1>2, <1>3, <1>4, <1>5, <1>6, <1>7, CallSteps, ReadsRecord

-----------------------------------------------------------------------------
(* Where a read stops.                                                     *)

\* A position in a record the disk can give.
LEMMA PositionInRecs ==
    ASSUME NEW p \in Nat, p \div Sect \in Recs
    PROVE  p \in Positions
<1>1. p = Sect * (p \div Sect) + (p % Sect) /\ p % Sect \in 0 .. Sect - 1
  BY DivMod
<1>2. p \div Sect \in Nat /\ p \div Sect <= NRecs - 1
  BY BdosAssumption DEF Recs
<1>. DEFINE q == p \div Sect
            r == p % Sect
<1>3. p = Sect * q + r /\ r \in 0 .. Sect - 1 /\ q \in Nat /\ q <= NRecs - 1
  BY <1>1, <1>2
<1>. HIDE DEF q, r
<1>4. Sect * q <= Sect * (NRecs - 1) /\ Sect * (NRecs - 1) = Sect * NRecs - Sect
  BY <1>3, BdosAssumption
<1>5. Sect * q \in Nat /\ Sect * NRecs \in Nat
  BY <1>3, BdosAssumption
<1>. QED
  BY <1>3, <1>4, <1>5, BdosAssumption DEF Positions

\* A text read that delivers less than there is stands at a Ctrl-Z of the file.
LEMMA StoppedRecord ==
    ASSUME ContentInv, NEW i \in Slots, QreadRecord(i), dfiles[i].live,
           kind[dfiles[i].name] # "lost", call'.eof
    PROVE  LET p == dfiles'[i].pos
           IN  /\ dfiles[i].text /\ p \in Positions
               /\ content[dfiles[i].name][p] \in {Hole, CtrlZ}
<1>. DEFINE f == dfiles[i]
            rec == f.pos \div Sect
            off == f.pos % Sect
            n == Min2(Span(f.pos, f.len - f.pos), call.want - Len(call.out))
            o == Load(f, i, rec)
<1>1. TypeOK /\ TableConsistent /\ FilesTyped /\ HandlesOk /\ BufferOk /\ ContentOnDisk
  BY DEF ContentInv, HandleInv, TypeOK
<1>2. /\ f \in File /\ f.name \in Names /\ OnDisk(i) /\ i # NULL
      /\ call \in ReadCalls /\ call.want \in Nat /\ Len(call.out) \in Nat
      /\ f.pos \in Nat /\ f.len \in Nat /\ off \in Offs /\ rec \in Nat
  <2>1. /\ f \in File /\ f.name \in Names /\ OnDisk(i)
        /\ call \in ReadCalls /\ call.out \in Seq(Cell) /\ call.want \in Nat
        /\ f.pos \in Nat /\ f.len \in Nat /\ off \in Offs /\ rec \in Nat
    BY <1>1, ReadingTyped DEF QreadRecord, Reading
  <2>2. i # NULL
    BY DiskIOAssumption DEF Slots, NULL
  <2>. QED
    BY <2>1, <2>2, LenProperties
<1>3. n \in Nat /\ off + n <= Sect
  <2>1. f.len - f.pos \in Nat \ {0}
    BY <1>2 DEF QreadRecord
  <2>2. call.want - Len(call.out) \in Nat \ {0}
    BY <1>2 DEF QreadRecord, Reading
  <2>3. Span(f.pos, f.len - f.pos) \in 1 .. f.len - f.pos
        /\ off + Span(f.pos, f.len - f.pos) <= Sect
    BY <1>2, <2>1, SpanFits
  <2>4. Span(f.pos, f.len - f.pos) \in Nat /\ off \in Nat /\ Sect \in Nat
    BY <1>2, <2>1, <2>3, BdosAssumption DEF Offs
  <2>. HIDE DEF f, off
  <2>. QED
    BY <2>2, <2>3, <2>4 DEF Min2
<1>4. PICK k \in 0 .. Sect :
         /\ Delivers(f, o.dma, off, n, k)
         /\ dfiles' = [dfiles EXCEPT ![i].pos = @ + k]
         /\ call' = [call EXCEPT !.out = @ \o [j \in 1 .. k |-> o.dma[off + j - 1]],
                                !.fresh = FALSE, !.eof = k < n]
  BY DEF QreadRecord
<1>5. k < n
  <2>. DEFINE out == call.out \o [j \in 1 .. k |-> o.dma[off + j - 1]]
  <2>1. call' = [call EXCEPT !.out = out, !.fresh = FALSE, !.eof = k < n]
    BY <1>4
  <2>. HIDE DEF out, n
  <2>2. call'.eof = (k < n)
    BY <1>2, <2>1 DEF ReadCalls
  <2>. QED
    BY <2>2
<1>6. f.text /\ o.dma[off + k] = CtrlZ
  BY <1>4, <1>5 DEF Delivers
<1>7. dfiles'[i].pos = f.pos + k
  <2>1. dfiles'[i] = [f EXCEPT !.pos = f.pos + k]
    BY <1>1, <1>4 DEF FilesTyped
  <2>. HIDE DEF f
  <2>. QED
    BY <1>2, <2>1 DEF File
<1>8. rec \in f.alloc /\ o.dma = disk[f.name][rec]
  <2>1. /\ f.live /\ rec \in f.alloc => o.dma = disk[f.name][rec]
        /\ f.live /\ rec \notin f.alloc => o.code = "unwritten"
    BY <1>1, <1>2, LoadSound DEF SameFcb
  <2>. QED
    BY <2>1 DEF QreadRecord
<1>9. k \in Nat /\ off + k < Sect
  <2>1. k \in Nat
    BY BdosAssumption
  <2>. HIDE DEF off, n
  <2>. QED
    BY <1>2, <1>3, <1>5, <2>1, BdosAssumption DEF Offs
<1>10. (f.pos + k) \div Sect = rec /\ (f.pos + k) % Sect = off + k
  BY <1>2, <1>9, SameRecord
<1>11. f.pos + k \in Positions
  <2>1. rec \in Recs
    BY <1>2, <1>8 DEF File
  <2>. QED
    BY <1>2, <1>9, <1>10, <2>1, PositionInRecs
<1>12. content[f.name][f.pos + k] # Hole => content[f.name][f.pos + k] = CtrlZ
  <2>1. dir[f.name].exists
    BY <1>1, <1>2 DEF HandlesOk, HandleSound, Live
  <2>2. content[f.name][f.pos + k] # Hole =>
           disk[f.name][(f.pos + k) \div Sect][(f.pos + k) % Sect] = content[f.name][f.pos + k]
    BY <1>1, <1>2, <1>11, <2>1 DEF ContentOnDisk
  <2>. QED
    BY <1>6, <1>8, <1>10, <2>2
<1>. QED
  BY <1>6, <1>7, <1>11, <1>12

\* A read returns by the end of its loop.
LEMMA ReadEnds ==
    ASSUME TypeOK, TableConsistent, [Next]_vars,
           call.op = "read", call'.op = "idle", phase' = phase
    PROVE  \E i \in Slots : QreadReturn(i)
<1>1. call # Idle
  BY DEF Idle
<1>2. CASE UserCall
  BY <1>1, <1>2 DEF UserCall, Open, OpenConsole, QwriteBegin, QreadBegin, MayUse, Lseek, Close,
                    Remove, StatProbe, Chmod, Rename, Running
<1>3. CASE LibraryStep
  <2>1. PICK i \in Slots :
           \/ QwriteRecord(i) \/ QwriteFails(i) \/ QwriteReturn(i)
           \/ QreadRefresh(i) \/ QreadRecord(i) \/ QreadMissing(i) \/ QreadReturn(i)
    BY <1>3 DEF LibraryStep
  <2>2. CASE QwriteRecord(i) \/ QwriteFails(i) \/ QwriteReturn(i)
    BY <2>2 DEF QwriteRecord, QwriteFails, QwriteReturn, Writing
  <2>3. CASE QreadRefresh(i) \/ QreadRecord(i) \/ QreadMissing(i)
    <3>1. call \in ReadCalls
      BY <2>3, ReadingTyped DEF QreadRefresh, QreadRecord, QreadMissing, Reading
    <3>. QED
      BY <2>3, <3>1 DEF QreadRefresh, QreadRecord, QreadMissing, ReadCalls
  <2>. QED
    BY <2>1, <2>2, <2>3
<1>4. CASE ProgramStep
  BY <1>1, <1>4 DEF ProgramStep, RedirectOpen, RedirectLatch, StartMain, MainReturns,
                    CloseRedirOut, CloseRedirIn, Terminate, Exit, Running, Aborts, Fatal,
                    Writing, NextProgram
<1>5. CASE UNCHANGED vars
  BY <1>5 DEF vars, control
<1>. QED
  BY <1>2, <1>3, <1>4, <1>5 DEF Next

\* No handle is purged; on a system that keeps byte counts all files are text.
AllLive == \A i \in Slots : OnDisk(i) => dfiles[i].live
AllText == HasLrbc => \A i \in Slots : OnDisk(i) => dfiles[i].text

LiveInv == HandleInv /\ AllLive /\ AllText

\* Where a position stands against the bytes of some records.
LEMMA InRecords ==
    ASSUME NEW p \in Nat, NEW records \in Nat, p \div Sect < records
    PROVE  /\ p < records * Sect
           /\ \A k \in 0 .. Sect : p >= (records - 1) * Sect + k =>
                 p \div Sect = records - 1 /\ p % Sect >= k /\ p % Sect < Sect
<1>. DEFINE q == p \div Sect
            s == p % Sect
            base == Sect * (records - 1)
<1>1. p = Sect * q + s /\ s \in 0 .. Sect - 1 /\ q \in Nat /\ q <= records - 1
  BY DivMod, PositionSplit
<1>2. /\ records * Sect = base + Sect /\ (records - 1) * Sect = base
      /\ base \in Int /\ Sect \in Nat \ {0}
  BY BdosAssumption
<1>3. Sect * q <= base /\ Sect * q \in Nat
  BY <1>1, BdosAssumption
<1>4. q = records - 1 \/ Sect * q <= base - Sect
  <2>1. q = records - 1 \/ q <= records - 2
    BY <1>1
  <2>2. q <= records - 2 => Sect * q <= Sect * (records - 2)
    BY <1>1, BdosAssumption
  <2>3. Sect * (records - 2) = base - Sect
    BY BdosAssumption
  <2>. QED
    BY <2>1, <2>2, <2>3
<1>5. q = records - 1 => Sect * q = base
  OBVIOUS
<1>. HIDE DEF q, s, base
<1>6. p < base + Sect
  BY <1>1, <1>2, <1>3
<1>7. \A k \in 0 .. Sect : p >= base + k => q = records - 1 /\ s >= k /\ s < Sect
  BY <1>1, <1>2, <1>3, <1>4, <1>5
<1>. QED
  BY <1>2, <1>6, <1>7 DEF q, s

\* The length a reader has just re-derived is past every byte of the records it
\* can reach.
LEMMA RefreshBlocked ==
    ASSUME ContentInv, AllText, NEW i \in Slots, QreadRefresh(i), dfiles[i].live,
           ByteAhead(dfiles[i]), InReach(dfiles[i])
    PROVE  dfiles'[i].pos < dfiles'[i].len
<1>. DEFINE f == dfiles[i]
            n == f.name
            rec == f.pos \div Sect
            records == F_SIZE(dir[n])
            last == Load(f, i, records - 1)
<1>1. TypeOK /\ TableConsistent /\ FilesTyped /\ HandlesOk /\ BufferOk /\ ContentOnDisk
  BY DEF ContentInv, HandleInv, TypeOK
<1>2. /\ f \in File /\ n \in Names /\ OnDisk(i) /\ i # NULL
      /\ f.pos \in Nat /\ f.len \in Nat /\ rec \in Nat
  BY <1>1, ReadingTyped, DiskIOAssumption DEF QreadRefresh, Reading, Slots, NULL
<1>3. records \in Nat /\ rec < records /\ rec \in f.alloc
  BY <1>1, <1>2 DEF FilesTyped, Entry, F_SIZE, InReach
<1>4. PICK d \in DiskLen(f, i) : dfiles' = [dfiles EXCEPT ![i].len = Refreshed(@, d.len)]
  BY DEF QreadRefresh
<1>5. dfiles'[i].pos = f.pos /\ dfiles'[i].len >= d.len /\ dfiles'[i].len \in Nat
  <2>1. dfiles'[i] = [f EXCEPT !.len = Refreshed(f.len, d.len)]
    BY <1>1, <1>4 DEF FilesTyped
  <2>2. d.len \in Nat
    BY <1>1, <1>2, DiskLenTyped
  <2>3. Refreshed(f.len, d.len) >= d.len /\ Refreshed(f.len, d.len) \in Nat
    BY <1>2, <2>2 DEF Refreshed, Max2
  <2>. HIDE DEF f
  <2>. QED
    BY <1>2, <2>1, <2>3 DEF File
<1>6. f.pos < d.len
  <2>1. f.pos < records * Sect
    BY <1>2, <1>3, InRecords
  <2>2. CASE ~f.text
    <3>1. f.open_lrbc = 0 \/ ~HasLrbc
      BY <1>1, <1>2, <2>2 DEF AllText
    <3>2. d.len = records * Sect
      <4>. HIDE DEF last
      <4>. QED
        BY <1>2, <1>3, <2>2, <3>1 DEF DiskLen, last
    <3>. QED
      BY <2>1, <3>2
  <2>3. CASE f.text /\ last.code # "ok"
    <3>1. d.len = records * Sect
      <4>. HIDE DEF last
      <4>. QED
        BY <1>2, <1>3, <2>3 DEF DiskLen, last
    <3>. QED
      BY <2>1, <3>1
  <2>4. CASE f.text /\ last.code = "ok"
    <3>1. PICK k \in 0 .. Sect : TextEnd(last.dma, k) /\ d.len = (records - 1) * Sect + k
      <4>. HIDE DEF last
      <4>1. d \in {[len |-> (records - 1) * Sect + k, o |-> last] :
                      k \in {e \in 0 .. Sect : TextEnd(last.dma, e)}}
        BY <1>2, <1>3, <2>4 DEF DiskLen, last
      <4>. QED
        BY <4>1
    <3>2. ASSUME f.pos >= d.len
          PROVE  FALSE
      <4>1. rec = records - 1 /\ f.pos % Sect >= k /\ f.pos % Sect < Sect
        BY <1>2, <1>3, <3>1, <3>2, InRecords
      <4>2. last.dma = disk[n][rec]
        <5>1. f.live /\ rec \in f.alloc => Load(f, i, rec).dma = disk[n][rec]
          BY <1>1, <1>2, LoadSound DEF SameFcb
        <5>. QED
          BY <1>3, <4>1, <5>1
      <4>3. f.pos % Sect \in k .. Sect - 1
        BY <1>2, <4>1, PositionSplit, BdosAssumption DEF Offs
      <4>4. disk[n][rec][f.pos % Sect] = CtrlZ
        BY <3>1, <4>2, <4>3 DEF TextEnd
      <4>5. Known(n)
        BY <1>1, <1>2 DEF Known, HandlesOk, HandleSound, Live, ByteAhead
      <4>6. f.pos \in Positions /\ content[n][f.pos] # Hole /\ content[n][f.pos] # CtrlZ
        BY <2>4 DEF ByteAhead
      <4>. QED
        BY <1>1, <1>2, <4>4, <4>5, <4>6 DEF ContentOnDisk, Known
    <3>3. d.len \in Nat
      BY <1>1, <1>2, DiskLenTyped
    <3>. QED
      BY <1>2, <3>2, <3>3
  <2>. QED
    BY <2>2, <2>3, <2>4
<1>. QED
  <2>1. d.len \in Nat
    BY <1>1, <1>2, DiskLenTyped
  <2>. QED
    BY <1>2, <1>5, <1>6, <2>1

\* A read that gives up has no byte ahead of it in reach.
Blocked ==
    call.op = "read" =>
        LET f == dfiles[call.slot]
        IN  call.eof \/ (call.fresh /\ f.pos >= f.len) => ~(ByteAhead(f) /\ InReach(f))

LEMMA BlockedNext == ContentInv /\ LiveInv /\ Blocked /\ [Next]_vars => Blocked'
<1>. SUFFICES ASSUME ContentInv, LiveInv, Blocked, [Next]_vars PROVE Blocked'
  OBVIOUS
<1>1. TypeOK /\ TableConsistent /\ FilesTyped /\ AllLive /\ AllText
  BY DEF LiveInv, HandleInv, TypeOK
<1>2. ASSUME NEW h \in Handles, NEW want \in ReadLens, QreadBegin(h, want)
      PROVE  Blocked'
  BY <1>2 DEF QreadBegin, Blocked
<1>3. ASSUME NEW i \in Slots, QreadRefresh(i)
      PROVE  Blocked'
  <2>. DEFINE f == dfiles[i]
              e == dfiles'[i]
  <2>1. f \in File /\ OnDisk(i) /\ call \in ReadCalls /\ call.slot = i /\ ~call.eof
    BY <1>1, <1>3, ReadingTyped DEF QreadRefresh, Reading
  <2>2. call'.slot = i /\ call'.eof = call.eof
    BY <1>3, <2>1 DEF QreadRefresh, ReadCalls
  <2>3. e.pos = f.pos /\ e.name = f.name /\ e.text = f.text /\ e.alloc = f.alloc
    <3>1. PICK d \in DiskLen(f, i) : dfiles' = [dfiles EXCEPT ![i].len = Refreshed(@, d.len)]
      BY <1>3 DEF QreadRefresh
    <3>2. e = [f EXCEPT !.len = Refreshed(f.len, d.len)]
      BY <1>1, <3>1 DEF FilesTyped
    <3>. HIDE DEF f, e
    <3>. QED
      BY <2>1, <3>2 DEF File
  <2>4. UNCHANGED <<dir, content, kind>>
    BY <1>3 DEF QreadRefresh, ghosts
  <2>5. ByteAhead(f) /\ InReach(f) => e.pos < e.len
    BY <1>1, <1>3, <2>1, RefreshBlocked DEF AllLive
  <2>6. e.pos < e.len => ~(e.pos >= e.len)
    <3>1. e \in File
      BY NextTyped, <1>1 DEF TypeOK, FilesTyped
    <3>. QED
      BY <3>1 DEF File
  <2>. HIDE DEF f, e
  <2>7. ByteAhead(dfiles[i])' /\ InReach(dfiles[i])' => ByteAhead(f) /\ InReach(f)
    BY <2>3, <2>4 DEF ByteAhead, InReach, e
  <2>. QED
    BY <2>1, <2>2, <2>5, <2>6, <2>7 DEF Blocked, e
<1>4. ASSUME NEW i \in Slots, QreadRecord(i)
      PROVE  Blocked'
  <2>. DEFINE f == dfiles[i]
              e == dfiles'[i]
  <2>1. f \in File /\ OnDisk(i) /\ call \in ReadCalls /\ call.slot = i
    BY <1>1, <1>4, ReadingTyped DEF QreadRecord, Reading
  <2>2. call'.slot = i /\ call'.fresh = FALSE
    BY <1>4, <2>1 DEF QreadRecord, ReadCalls
  <2>3. e.name = f.name /\ e.text = f.text
    <3>1. PICK k \in 0 .. Sect : dfiles' = [dfiles EXCEPT ![i].pos = @ + k]
      BY <1>4 DEF QreadRecord
    <3>2. e = [f EXCEPT !.pos = f.pos + k]
      BY <1>1, <3>1 DEF FilesTyped
    <3>. HIDE DEF f, e
    <3>. QED
      BY <2>1, <3>2 DEF File
  <2>4. UNCHANGED <<content, kind>>
    BY <1>4 DEF QreadRecord, ghosts
  <2>5. call'.eof /\ kind[f.name] # "lost" =>
           f.text /\ content[f.name][e.pos] \in {Hole, CtrlZ}
    BY <1>1, <1>4, <2>1, StoppedRecord DEF AllLive
  <2>. HIDE DEF f, e
  <2>6. call'.eof => ~ByteAhead(dfiles[i])'
    BY <2>3, <2>4, <2>5 DEF ByteAhead, e
  <2>. QED
    BY <2>2, <2>6 DEF Blocked
<1>5. ASSUME NEW i \in Slots, QreadMissing(i)
      PROVE  Blocked'
  <2>. DEFINE f == dfiles[i]
              rec == f.pos \div Sect
  <2>1. /\ f \in File /\ f.name \in Names /\ OnDisk(i) /\ i # NULL /\ rec \in Nat
        /\ call \in ReadCalls /\ call.slot = i
    BY <1>1, <1>5, ReadingTyped, DiskIOAssumption DEF QreadMissing, Reading, Slots, NULL
  <2>2. call'.slot = i /\ UNCHANGED <<dir, dfiles, content, kind>>
    BY <1>5, <2>1 DEF QreadMissing, ReadCalls, ghosts
  <2>3. rec \notin f.alloc
    <3>1. f.live /\ rec \in f.alloc => Load(f, i, rec).code = "ok"
      BY <2>1, <1>1, LoadSound DEF SameFcb, ContentInv
    <3>. QED
      BY <1>1, <1>5, <2>1, <3>1 DEF QreadMissing, AllLive
  <2>. QED
    BY <2>2, <2>3 DEF Blocked, InReach
<1>6. CASE UNCHANGED vars
  BY <1>6 DEF vars, library, control, ghosts, Blocked, ByteAhead, InReach
<1>7. ASSUME NEW i \in Slots, QwriteRecord(i)
      PROVE  call'.op = "write"
  <2>1. call \in WriteCalls /\ call.op = "write"
    BY <1>1, <1>7, WritingTyped DEF QwriteRecord, Writing
  <2>. QED
    BY <1>7, <2>1 DEF QwriteRecord, WriteCalls
<1>8. ASSUME NEW h \in Handles, NEW buf \in Buffers, QwriteBegin(h, buf)
      PROVE  call'.op = "write"
  BY <1>8 DEF QwriteBegin
<1>9. CASE call'.op # "read"
  BY <1>9 DEF Blocked
<1>. QED
  BY <1>1, <1>2, <1>3, <1>4, <1>5, <1>6, <1>7, <1>8, <1>9, CallSteps

-----------------------------------------------------------------------------
(* Good handles.                                                           *)

\* That stays so while no call deletes or renames an open file or changes its
\* attributes: F_CLOSE reaches no other handle, and __close sends no F_ATTRIB.
LEMMA LiveNext ==
    ASSUME Usage \cap {"purge_open", "chmod_open"} = {}, HasLrbc => \A m \in OpenModes : m.text
    PROVE  LiveInv /\ [Next]_vars => LiveInv'
<1>. SUFFICES ASSUME LiveInv, [Next]_vars PROVE LiveInv'
  OBVIOUS
<1>1. /\ HandleInv /\ AllLive /\ AllText
      /\ TypeOK /\ TableConsistent /\ FilesTyped /\ SlotsNamed /\ HandlesOk /\ Exclusive
  BY DEF LiveInv, HandleInv, TypeOK, TableConsistent
<1>2. HandleInv'
  BY <1>1, HandlesNext
<1>. SUFFICES AllLive' /\ AllText'
  BY <1>2 DEF LiveInv
<1>3. ASSUME \A j \in Slots : OnDisk(j)' =>
                /\ OnDisk(j) /\ (dfiles[j].live => dfiles'[j].live)
                /\ (dfiles[j].text => dfiles'[j].text)
      PROVE  AllLive' /\ AllText'
  BY <1>1, <1>3 DEF AllLive, AllText
<1>4. CASE Quiet
  BY <1>3, <1>4 DEF Quiet, KeepsFile
<1>5. ASSUME NEW h \in Handles, NEW buf \in Buffers, QwriteBegin(h, buf)
      PROVE  AllLive' /\ AllText'
  <2>1. PICK i \in Slots :
           LET f == dfiles[i]
               e == dfiles'[i]
           IN  /\ OnDisk(i) /\ e.writable = f.writable /\ e.text = f.text /\ e.live = f.live
               /\ \A j \in Slots \ {i} : dfiles'[j] = dfiles[j]
    BY <1>1, <1>5, QwriteBeginEffect
  <2>. QED
    BY <1>3, <2>1 DEF OnDisk
<1>6. ASSUME NEW i \in Slots, QwriteRecord(i)
      PROVE  AllLive' /\ AllText'
  <2>1. /\ Live(i) /\ Live(i)' /\ dfiles'[i].writable = dfiles[i].writable
        /\ dfiles'[i].text = dfiles[i].text
        /\ \A j \in Slots \ {i} : dfiles'[j] = dfiles[j]
    BY <1>1, <1>6, QwriteRecordEffect
  <2>. QED
    BY <1>3, <2>1 DEF OnDisk, Live
<1>7. ASSUME NEW i \in Slots, CloseFile(i)
      PROVE  AllLive' /\ AllText'
  <2>. DEFINE f == dfiles[i]
  <2>1. /\ Live(i) /\ ~OnDisk(i)'
        /\ \A j \in Slots \ {i} :
              /\ OnDisk(j)' <=> OnDisk(j)
              /\ Live(j)' => dfiles'[j] = dfiles[j]
              /\ Live(j) /\ ~Live(j)' => SetsCount(f) /\ dfiles[j].name = f.name
    BY <1>1, <1>7, CloseFileEffect
  <2>2. ASSUME NEW j \in Slots \ {i}, OnDisk(j), ~Live(j)'
        PROVE  FALSE
    <3>1. Live(j)
      BY <1>1, <2>2 DEF AllLive, Live
    <3>2. ~f.text /\ HasLrbc
      BY <2>1, <2>2, <3>1 DEF SetsCount
    <3>. QED
      BY <1>1, <2>1, <3>2 DEF AllText, Live
  <2>. QED
    BY <1>3, <2>1, <2>2
<1>8. ASSUME NEW n \in Names, OpenOn(n) = {}
      PROVE  Purged(n) = dfiles
  BY <1>1, <1>8 DEF Purged, FilesTyped
<1>9. \A n \in Names : MayPurge(n) => OpenOn(n) = {}
  BY DEF MayPurge
<1>10. ASSUME NEW i \in Slots, NEW n \in Names, NEW m \in Mode,
              Sopen(i, n, m), m \in OpenModes \/ m.text
       PROVE  AllLive' /\ AllText'
  <2>1. ~dfiles[i].used
    BY <1>10 DEF Sopen, FirstFree
  <2>2. /\ \A j \in Slots \ {i} : dfiles'[j] = dfiles[j]
        /\ Live(i)' /\ (dfiles'[i].writable <=> m.writable) /\ (dfiles'[i].text <=> m.text)
    <3>1. CASE SopenExisting(i, n, m)
      <4>1. \A j \in Slots \ {i} : dfiles'[j] = dfiles[j]
        BY <1>1, <2>1, <3>1, SopenExistingEffect
      <4>2. Live(i)'
        BY <1>1, <2>1, <3>1, SopenExistingEffect
      <4>3. dfiles'[i].writable <=> m.writable
        BY <1>1, <2>1, <3>1, SopenExistingEffect
      <4>4. dfiles'[i].text = m.text
        BY <1>1, <2>1, <3>1, SopenExistingEffect, ZenonT(30)
      <4>. QED
        BY <4>1, <4>2, <4>3, <4>4
    <3>2. CASE MakeFile(i, n, m) /\ OpenOn(n) = {}
      <4>1. dfiles' = [dfiles EXCEPT ![i] = Opening(n, m)]
        BY <1>8, <3>2 DEF MakeFile
      <4>2. \A j \in Slots \ {i} : dfiles'[j] = dfiles[j]
        BY <1>1, <4>1 DEF FilesTyped
      <4>3. dfiles'[i] = Opening(n, m) /\ Live(i)'
        BY <1>1, <2>1, <3>2, MakeFileEffect
      <4>4. (Opening(n, m).writable <=> m.writable) /\ (Opening(n, m).text <=> m.text)
        BY DEF Opening, FreeSlot
      <4>. QED
        BY <4>2, <4>3, <4>4
    <3>3. SopenTrunc(i, n, m) => MakeFile(i, n, m) /\ OpenOn(n) = {}
      BY <1>9 DEF SopenTrunc
    <3>4. SopenCreate(i, n, m) => MakeFile(i, n, m) /\ OpenOn(n) = {}
      BY <1>1 DEF SopenCreate, OpenOn, AllLive, HandlesOk, HandleSound, Live
    <3>. QED
      BY <1>10, <3>1, <3>2, <3>3, <3>4 DEF Sopen
  <2>3. AllLive'
    BY <1>1, <2>2 DEF AllLive, OnDisk, Live
  <2>4. HasLrbc => m.text
    BY <1>10
  <2>5. AllText'
    BY <1>1, <2>2, <2>4 DEF AllText, OnDisk
  <2>. QED
    BY <2>3, <2>5
<1>11. ASSUME NEW n \in Names, Remove(n) \/ (\E ro \in BOOLEAN : Chmod(n, ro))
                               \/ \E new \in Names : Rename(n, new)
       PROVE  AllLive' /\ AllText'
  <2>1. OpenOn(n) = {}
    BY <1>9, <1>11 DEF Remove, Chmod, Rename
  <2>2. dfiles' = dfiles
    BY <1>8, <1>11, <2>1 DEF Remove, Chmod, Rename
  <2>. QED
    BY <1>3, <2>2 DEF OnDisk
<1>12. CASE NextProgram
  <2>1. \A j \in Slots : ~OnDisk(j)'
    BY <1>12, FreeTyped DEF NextProgram, OnDisk
  <2>. QED
    BY <1>3, <2>1
<1>. QED
  BY <1>1, <1>4, <1>5, <1>6, <1>7, <1>10, <1>11, <1>12, StepKinds

-----------------------------------------------------------------------------
(* The theorems.                                                           *)

LEMMA ContentInit == Init => ContentInv
<1>. SUFFICES ASSUME Init PROVE ContentInv
  OBVIOUS
<1>1. HandleInv
  BY HandlesInit
<1>2. cache_fp = NULL /\ call.op = "idle" /\ content = [n \in Names |-> NoBytes]
  BY DEF Init, Idle
<1>. QED
  BY <1>1, <1>2 DEF ContentInv, BufferOk, ContentOnDisk, ReadsMatch, NoBytes

LEMMA ContentNext ==
    ASSUME "probe_cached" \notin Usage
    PROVE  ContentInv /\ [Next]_vars => ContentInv'
<1>. SUFFICES ASSUME ContentInv, [Next]_vars PROVE ContentInv'
  OBVIOUS
<1>1. HandleInv /\ BufferOk /\ ContentOnDisk /\ ReadsMatch /\ TypeOK /\ TableConsistent
  BY DEF ContentInv, HandleInv
<1>2. HandleInv' /\ BufferOk' /\ ReadsMatch'
  BY <1>1, HandlesNext, BufferNext, ReadsNext
<1>3. ContentOnDisk'
  <2>1. CASE \E i \in Slots : QwriteRecord(i)
    BY <1>1, <2>1, ContentWrite
  <2>2. CASE ~\E i \in Slots : QwriteRecord(i)
    <3>1. \/ Quiet
          \/ \E h \in Handles, buf \in Buffers : QwriteBegin(h, buf)
          \/ \E i \in Slots : CloseFile(i)
          \/ \E i \in Slots, n \in Names, m \in Mode : Sopen(i, n, m)
          \/ \E n \in Names : Remove(n)
          \/ \E n \in Names, ro \in BOOLEAN : Chmod(n, ro)
          \/ \E old, new \in Names : Rename(old, new)
          \/ NextProgram
      BY <1>1, <2>2, StepKinds
    <3>. QED
      BY <1>1, <3>1, ContentUnwritten
  <2>. QED
    BY <2>1, <2>2
<1>. QED
  BY <1>2, <1>3 DEF ContentInv

\* As long as no access, stat or utime lands in the buffer while it caches a record,
\* the read-modify-write of whole records in __qwrite loses no byte: what the
\* program put in a file is on the disk, in a record that the directory or an open
\* FCB knows.
THEOREM ContentPreserved ==
    ASSUME "probe_cached" \notin Usage
    PROVE  Spec => []ContentOnDisk
<1>1. Spec => []ContentInv
  BY ContentInit, ContentNext, PTL DEF Spec
<1>2. ContentInv => ContentOnDisk
  BY DEF ContentInv
<1>. QED
  BY <1>1, <1>2, PTL

\* Under the same condition __qread hands out the bytes that were written at those
\* positions, through whatever handle, whoever used the buffer in between.
THEOREM ReadsTrue ==
    ASSUME "probe_cached" \notin Usage
    PROVE  Spec => []ReadsMatch
<1>1. Spec => []ContentInv
  BY ContentInit, ContentNext, PTL DEF Spec
<1>2. ContentInv => ReadsMatch
  BY DEF ContentInv
<1>. QED
  BY <1>1, <1>2, PTL

\* A program that makes no status probe over a cached record, leaves the names and
\* attributes of its open files alone and, on a system with byte counts, opens text
\* files only: a read by a handle that has not written never stops before a byte
\* that another handle has put into a record it can reach, because __qread looks at
\* the disk again before it gives up.
THEOREM ReadersCatchUp ==
    ASSUME Usage \cap {"probe_cached", "purge_open", "chmod_open"} = {},
           HasLrbc => \A m \in OpenModes : m.text
    PROVE  Spec => ReadersFollow
<1>1. Init => ContentInv /\ LiveInv /\ Blocked
  <2>1. Init => \A j \in Slots : ~OnDisk(j)
    BY FreeTyped DEF Init, OnDisk
  <2>2. Init => Blocked
    BY DEF Init, Idle, Blocked
  <2>. QED
    BY <2>1, <2>2, ContentInit, HandlesInit DEF LiveInv, AllLive, AllText
<1>2. ContentInv /\ LiveInv /\ Blocked /\ [Next]_vars => ContentInv' /\ LiveInv' /\ Blocked'
  BY ContentNext, LiveNext, BlockedNext
<1>3. ASSUME ContentInv, LiveInv, Blocked, [Next]_vars
      PROVE  ReaderFollows
  <2>. SUFFICES ASSUME ReaderStops
                PROVE  ~(ByteAhead(dfiles[call.slot]) /\ InReach(dfiles[call.slot]))
    BY DEF ReaderFollows
  <2>1. TypeOK /\ TableConsistent
    BY <1>3 DEF LiveInv, HandleInv
  <2>2. PICK i \in Slots : QreadReturn(i)
    BY <1>3, <2>1, ReadEnds DEF ReaderStops
  <2>3. ~call.eof => call.fresh /\ dfiles[call.slot].pos >= dfiles[call.slot].len
    BY <2>2 DEF QreadReturn, Reading, ReaderStops
  <2>. QED
    BY <1>3, <2>3 DEF Blocked, ReaderStops
<1>4. ContentInv /\ LiveInv /\ Blocked /\ [Next]_vars => [ReaderFollows]_vars
  BY <1>3
<1>. QED
  BY <1>1, <1>2, <1>4, PTL DEF Spec, ReadersFollow

=============================================================================
