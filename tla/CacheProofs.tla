---------------------------- MODULE CacheProofs -----------------------------
(***************************************************************************)
(* The record cache of the disk seam is coherent in every program that     *)
(* leaves the names of its open files alone: CacheCoherent, for every      *)
(* number of slots, record size and set of files.                          *)
(***************************************************************************)
EXTENDS DiskIOProofs

\* The uses of the library the theorem excludes: a status probe while a record
\* is cached, and calls that purge the FCB of an open file.
Disciplined == Usage \cap {"probe_cached", "purge_open", "chmod_open"} = {}

\* The inductive invariant.
CacheInv == /\ TypeOK /\ TableConsistent
            /\ CacheCoherent /\ HandlesSound /\ WriterWritable

-----------------------------------------------------------------------------
(* The loads.                                                              *)

\* load_record claims a record only for its file, and only with its data.
LEMMA LoadCoherent ==
    ASSUME FilesTyped, CacheCoherent, NEW f \in File, f.name \in Names, dir[f.name].exists,
           NEW i \in Slots, cache_fp = i => dfiles[i].name = f.name, NEW rec \in Nat
    PROVE  LET o == Load(f, i, rec)
           IN  o.fp # NULL => /\ o.fp = i /\ o.rec = rec /\ rec \in Recs
                              /\ o.dma = disk[f.name][rec]
<1>1. i # NULL
  BY DiskIOAssumption DEF Slots, NULL
<1>2. CASE cache_fp = i /\ cache_rec = rec
  BY <1>1, <1>2 DEF Load, CacheCoherent
<1>3. CASE ~(cache_fp = i /\ cache_rec = rec)
  <2>1. ReadCode(f, rec) = "ok" => rec \in Recs
    BY DEF ReadCode, File
  <2>. QED
    BY <1>3, <2>1 DEF Load
<1>. QED
  BY <1>2, <1>3

\* disk_len leaves the cache as it was, or as such a load does.
LEMMA DiskLenCoherent ==
    ASSUME FilesTyped, CacheCoherent, NEW f \in File, f.name \in Names, dir[f.name].exists,
           NEW i \in Slots, cache_fp = i => dfiles[i].name = f.name,
           NEW d \in DiskLen(f, i)
    PROVE  \/ d.o = Untouched
           \/ d.o.fp # NULL => /\ d.o.fp = i /\ d.o.rec \in Recs
                               /\ d.o.dma = disk[f.name][d.o.rec]
<1>. DEFINE records == F_SIZE(dir[f.name])
            last == Load(f, i, records - 1)
<1>1. records \in Nat
  BY DEF FilesTyped, Entry, F_SIZE
<1>2. d.o = Untouched \/ (records # 0 /\ d.o = last)
  <2>. HIDE DEF records, last
  <2>1. CASE records = 0
    BY <2>1 DEF DiskLen, records
  <2>2. CASE records # 0 /\ ~f.text
    BY <2>2 DEF DiskLen, records, last
  <2>3. CASE records # 0 /\ f.text /\ last.code # "ok"
    BY <2>3 DEF DiskLen, records, last
  <2>4. CASE records # 0 /\ f.text /\ last.code = "ok"
    <3>1. PICK k \in 0 .. Sect : d = [len |-> (records - 1) * Sect + k, o |-> last]
      BY <2>4 DEF DiskLen, records, last
    <3>. QED
      BY <2>4, <3>1
  <2>. QED
    BY <2>1, <2>2, <2>3, <2>4
<1>3. records # 0 => (last.fp # NULL => /\ last.fp = i /\ last.rec \in Recs
                                        /\ last.dma = disk[f.name][last.rec])
  <2>1. records # 0 => records - 1 \in Nat
    BY <1>1
  <2>. QED
    BY <2>1, LoadCoherent
<1>. QED
  BY <1>2, <1>3

-----------------------------------------------------------------------------
(* Steps that leave a slot's file alone.                                   *)

\* The slot j keeps its file, and what may be written through it.
Same(j) == /\ OnDisk(j)' <=> OnDisk(j)
           /\ dfiles'[j].name = dfiles[j].name
           /\ dfiles'[j].writable <=> dfiles[j].writable
           /\ dfiles'[j].wrote <=> dfiles[j].wrote
           /\ dfiles[j].writable => (dfiles'[j].live <=> dfiles[j].live)

\* A step that leaves the buffer alone, and the file cached in it.
LEMMA CacheKept ==
    ASSUME FilesTyped, SlotsNamed, CacheCoherent, UNCHANGED <<dma, cache_fp, cache_rec>>,
           \A j \in Slots : OnDisk(j) /\ j = cache_fp =>
              /\ Same(j)
              /\ dir'[dfiles[j].name].exists => dir[dfiles[j].name].exists
              /\ disk'[dfiles[j].name] = disk[dfiles[j].name]
    PROVE  CacheCoherent'
<1>. SUFFICES ASSUME cache_fp # NULL
              PROVE  CacheCoherent'
  BY DEF CacheCoherent
<1>1. cache_fp \in Slots /\ OnDisk(cache_fp) /\ cache_rec \in Recs
  BY DEF FilesTyped, CacheCoherent
<1>2. OnDisk(cache_fp)' /\ dfiles'[cache_fp].name = dfiles[cache_fp].name
  BY <1>1 DEF Same, OnDisk
<1>. QED
  BY <1>1, <1>2 DEF CacheCoherent

\* A step that loads a record of the file in slot i, or drops the cache.
LEMMA CacheLoaded ==
    ASSUME FilesTyped, NEW i \in Slots, NEW o, SetCache(o), OnDisk(i)',
           o.fp # NULL => /\ o.fp = i /\ o.rec \in Recs
                          /\ o.dma = disk'[dfiles'[i].name][o.rec]
    PROVE  CacheCoherent'
BY DEF CacheCoherent, SetCache, OnDisk

\* A step that fills no slot and purges no writer.
LEMMA HandlesKept ==
    ASSUME HandlesSound, SlotsNamed,
           \A j \in Slots : OnDisk(j)' => /\ Same(j)
                                          /\ dir'[dfiles[j].name].exists
    PROVE  HandlesSound'
BY DEF HandlesSound, Same

\* Nothing is purged when no slot has the file open.
LEMMA NothingPurged ==
    ASSUME FilesTyped, NEW n \in Names, OpenOn(n) = {}
    PROVE  Purged(n) = dfiles
BY DEF Purged, FilesTyped

\* Slots that are not touched keep their file.
LEMMA SameSlot ==
    ASSUME NEW j \in Slots, dfiles'[j] = dfiles[j]
    PROVE  Same(j)
BY DEF Same, OnDisk

-----------------------------------------------------------------------------
(* The steps that open and close files.                                    *)

LEMMA SopenSound ==
    ASSUME Disciplined, FilesTyped, SlotsNamed, CacheCoherent, HandlesSound,
           NEW n \in Names, NEW m \in Mode, NEW i \in Slots, Sopen(i, n, m)
    PROVE  CacheCoherent' /\ HandlesSound'
<1>1. ~dfiles[i].used /\ ~OnDisk(i) /\ cache_fp # i
  BY DiskIOAssumption DEF Sopen, FirstFree, OnDisk, CacheCoherent, Slots, NULL
<1>2. ASSUME MakeFile(i, n, m), OpenOn(n) = {}
      PROVE  CacheCoherent' /\ HandlesSound'
  <2>1. dfiles' = [dfiles EXCEPT ![i] = Opening(n, m)]
    BY <1>2, NothingPurged DEF MakeFile
  <2>2. \A j \in Slots \ {i} : Same(j)
    BY <2>1, SameSlot DEF FilesTyped
  <2>3. \A j \in Slots : OnDisk(j) => dfiles[j].name # n
    BY <1>2 DEF OpenOn
  <2>4. dir' = [dir EXCEPT ![n] = Made] /\ Made.exists
    BY <1>2, MadeTyped DEF MakeFile
  <2>5. CacheCoherent'
    <3>1. \A j \in Slots : OnDisk(j) /\ j = cache_fp =>
             /\ Same(j)
             /\ dir'[dfiles[j].name].exists => dir[dfiles[j].name].exists
             /\ disk'[dfiles[j].name] = disk[dfiles[j].name]
      BY <1>1, <1>2, <2>2, <2>3, <2>4 DEF MakeFile, FilesTyped, SlotsNamed
    <3>. QED
      BY <1>2, <3>1, CacheKept DEF MakeFile
  <2>6. /\ dfiles'[i].name = n /\ dfiles'[i].live /\ ~dfiles'[i].wrote
    BY <2>1, OpenedTyped DEF FilesTyped, Opening, FreeSlot
  <2>7. \A j \in Slots \ {i} : OnDisk(j)' =>
           /\ OnDisk(j)
           /\ dir'[dfiles'[j].name].exists
           /\ dfiles'[j].name # n
    BY <2>2, <2>3, <2>4 DEF Same, HandlesSound, FilesTyped, SlotsNamed
  <2>8. dir'[n].exists
    BY <2>4 DEF FilesTyped
  <2>. QED
    BY <2>2, <2>5, <2>6, <2>7, <2>8 DEF HandlesSound, Same
<1>3. CASE SopenTrunc(i, n, m)
  BY <1>2, <1>3 DEF SopenTrunc, MayPurge, Disciplined
<1>4. CASE SopenCreate(i, n, m)
  <2>1. OpenOn(n) = {}
    BY <1>4 DEF SopenCreate, OpenOn, HandlesSound
  <2>. QED
    BY <1>2, <1>4, <2>1 DEF SopenCreate
<1>5. CASE SopenExisting(i, n, m)
  <2>. DEFINE f == Activated(n, m)
  <2>1. f \in File /\ f.name = n
    BY OpenedTyped
  <2>2. f.used /\ ~f.is_con /\ f.live /\ ~f.wrote /\ f.writable = m.writable
    BY DEF Activated, Opening, FreeSlot
  <2>3. dir[n].exists /\ MayOpen(n, m) /\ UNCHANGED <<dir, disk>>
    BY <1>5 DEF SopenExisting
  <2>4. PICK d \in DiskLen(f, i) :
           /\ dfiles' = [dfiles EXCEPT ![i] =
                 [f EXCEPT !.len = d.len, !.pos = IF m.append THEN d.len ELSE 0]]
           /\ SetCache(d.o)
    BY <1>5 DEF SopenExisting
  <2>. DEFINE g == [f EXCEPT !.len = d.len, !.pos = IF m.append THEN d.len ELSE 0]
  <2>5. g.name = n /\ g.used /\ ~g.is_con /\ g.live /\ ~g.wrote /\ g.writable = m.writable
    <3>. HIDE DEF f
    <3>. QED
      BY <2>1, <2>2 DEF File
  <2>6. dfiles' = [dfiles EXCEPT ![i] = g]
    BY <2>4
  <2>. HIDE DEF g
  <2>7. dfiles'[i] = g /\ \A j \in Slots \ {i} : Same(j)
    BY <2>6, SameSlot DEF FilesTyped
  <2>8. \/ d.o = Untouched
        \/ d.o.fp # NULL => /\ d.o.fp = i /\ d.o.rec \in Recs
                            /\ d.o.dma = disk[f.name][d.o.rec]
    <3>. HIDE DEF f
    <3>. QED
      BY <1>1, <2>1, <2>3, DiskLenCoherent
  <2>9. CacheCoherent'
    <3>1. CASE d.o = Untouched
      <4>1. UNCHANGED <<dma, cache_fp, cache_rec>>
        BY <2>4, <3>1 DEF SetCache, Untouched
      <4>. QED
        BY <1>1, <2>3, <2>7, <4>1, CacheKept
    <3>2. CASE d.o.fp # NULL => /\ d.o.fp = i /\ d.o.rec \in Recs
                                /\ d.o.dma = disk[f.name][d.o.rec]
      <4>1. OnDisk(i)' /\ dfiles'[i].name = f.name
        BY <2>1, <2>5, <2>7 DEF OnDisk
      <4>. HIDE DEF f
      <4>. QED
        BY <2>3, <2>4, <3>2, <4>1, CacheLoaded
    <3>. QED
      BY <2>8, <3>1, <3>2
  <2>10. \A j \in Slots \ {i} : OnDisk(j)' =>
            /\ OnDisk(j)
            /\ dir'[dfiles'[j].name].exists
            /\ dfiles'[j].name = n => ~(m.writable /\ dfiles'[j].writable)
    BY <2>3, <2>7 DEF Same, HandlesSound, MayOpen, OpenOn
  <2>. QED
    BY <2>3, <2>5, <2>7, <2>9, <2>10 DEF HandlesSound, Same
<1>. QED
  BY <1>3, <1>4, <1>5 DEF Sopen

LEMMA CloseFileSound ==
    ASSUME FilesTyped, SlotsNamed, CacheCoherent, HandlesSound, NEW i \in Slots, CloseFile(i)
    PROVE  CacheCoherent' /\ HandlesSound'
<1>. DEFINE f == dfiles[i]
            n == f.name
<1>1. f \in File /\ n \in Names /\ OnDisk(i)
  BY DEF CloseFile, FilesTyped, SlotsNamed
<1>2. dfiles' = [IF SetsCount(f) THEN Purged(n) ELSE dfiles EXCEPT ![i] = Free]
  BY DEF CloseFile
<1>3. ~OnDisk(i)'
  BY CloseFileTyped DEF OnDisk
<1>4. \A j \in Slots \ {i} : Same(j)
  <2>1. CASE SetsCount(f)
    <3>1. f.writable
      BY <1>1, <2>1 DEF SetsCount, HandlesSound
    <3>2. TAKE j \in Slots \ {i}
    <3>3. dfiles[j] \in File
      BY DEF FilesTyped
    <3>4. dfiles'[j] = Purged(n)[j]
      BY <1>1, <1>2, <2>1, PurgedTyped
    <3>5. CASE j \in OpenOn(n)
      <4>1. ~dfiles[j].writable
        BY <1>1, <3>1, <3>5 DEF OpenOn, HandlesSound
      <4>2. dfiles'[j] = [dfiles[j] EXCEPT !.live = FALSE]
        BY <3>4, <3>5 DEF Purged
      <4>. QED
        BY <3>3, <4>1, <4>2 DEF Same, OnDisk, File
    <3>6. CASE j \notin OpenOn(n)
      BY <3>4, <3>6, SameSlot DEF Purged
    <3>. QED
      BY <3>5, <3>6
  <2>2. CASE ~SetsCount(f)
    BY <1>2, <2>2, SameSlot DEF FilesTyped
  <2>. QED
    BY <2>1, <2>2
<1>5. \A k \in Names : dir'[k].exists = dir[k].exists
  <2>1. dir' = [dir EXCEPT ![n] = ClosedEntry(dir[n], f)]
    BY DEF CloseFile
  <2>2. dir[n] \in Entry
    BY <1>1 DEF FilesTyped
  <2>3. ClosedEntry(dir[n], f).exists = dir[n].exists
    BY <2>2 DEF ClosedEntry, Committed, Entry
  <2>. HIDE DEF f, n
  <2>. QED
    BY <1>1, <2>1, <2>3 DEF FilesTyped
<1>6. HandlesSound'
  BY <1>3, <1>4, <1>5 DEF HandlesSound, Same, SlotsNamed
<1>7. CacheCoherent'
  <2>1. CASE cache_fp = i
    BY <2>1 DEF CloseFile, ForgetSlot, CacheCoherent
  <2>2. CASE cache_fp # i
    <3>1. UNCHANGED <<dma, cache_fp, cache_rec, disk>>
      BY <2>2 DEF CloseFile, ForgetSlot
    <3>. QED
      BY <1>4, <1>5, <2>2, <3>1, CacheKept DEF SlotsNamed
  <2>. QED
    BY <2>1, <2>2
<1>. QED
  BY <1>6, <1>7

\* Steps that change neither the slots nor the buffer nor the disk.
LEMMA QuietSound ==
    ASSUME FilesTyped, SlotsNamed, CacheCoherent, HandlesSound,
           UNCHANGED <<dir, disk, library>>
    PROVE  CacheCoherent' /\ HandlesSound'
<1>1. \A j \in Slots : Same(j)
  BY SameSlot DEF library
<1>2. CacheCoherent'
  BY <1>1, CacheKept DEF library
<1>3. HandlesSound'
  BY <1>1, HandlesKept DEF Same, HandlesSound
<1>. QED
  BY <1>2, <1>3

\* A console is opened or closed in a slot that holds no file before or after.
LEMMA ConsoleSound ==
    ASSUME FilesTyped, SlotsNamed, CacheCoherent, HandlesSound, NEW i \in Slots,
           NEW r \in BOOLEAN, NEW w \in BOOLEAN, SopenConsole(i, r, w) \/ CloseConsole(i)
    PROVE  CacheCoherent' /\ HandlesSound'
<1>1. ~OnDisk(i) /\ ~OnDisk(i)'
  <2>1. CASE SopenConsole(i, r, w)
    <3>. DEFINE con == [Free EXCEPT !.used = TRUE, !.is_con = TRUE, !.text = TRUE,
                                    !.readable = r, !.writable = w]
    <3>1. con.is_con
      BY FreeTyped DEF File
    <3>. HIDE DEF con
    <3>2. dfiles' = [dfiles EXCEPT ![i] = con]
      BY <2>1 DEF SopenConsole, con
    <3>. QED
      BY <2>1, <3>1, <3>2 DEF SopenConsole, FirstFree, OnDisk, FilesTyped
  <2>2. CASE CloseConsole(i)
    BY <2>2, FreeTyped DEF CloseConsole, OnDisk, FilesTyped
  <2>. QED
    BY <2>1, <2>2
<1>2. \A j \in Slots \ {i} : dfiles'[j] = dfiles[j]
  BY DEF SopenConsole, CloseConsole, FilesTyped
<1>3. \A j \in Slots : OnDisk(j) \/ OnDisk(j)' => Same(j)
  BY <1>1, <1>2, SameSlot
<1>4. UNCHANGED <<dir, disk, dma, cache_fp, cache_rec>>
  BY DEF SopenConsole, CloseConsole
<1>5. CacheCoherent'
  BY <1>3, <1>4, CacheKept
<1>6. HandlesSound'
  BY <1>3, <1>4, HandlesKept DEF Same, HandlesSound
<1>. QED
  BY <1>5, <1>6

\* __close of a slot, a file or a console.
LEMMA CloseSlotSound ==
    ASSUME FilesTyped, SlotsNamed, CacheCoherent, HandlesSound, NEW i \in Slots, CloseSlot(i)
    PROVE  CacheCoherent' /\ HandlesSound'
<1>1. CASE CloseFile(i)
  BY <1>1, CloseFileSound
<1>2. CASE CloseConsole(i)
  BY <1>2, ConsoleSound
<1>. QED
  BY <1>1, <1>2 DEF CloseSlot

-----------------------------------------------------------------------------
(* The calls that take one step.                                           *)

LEMMA OneStepSound ==
    ASSUME Disciplined, CacheInv,
           \/ \E n \in Names, m \in OpenModes : Open(n, m)
           \/ OpenConsole
           \/ \E i \in Slots, origin \in {"SEEK_SET", "SEEK_CUR", "SEEK_END"},
                 offset \in Offsets : Lseek(i, origin, offset)
           \/ \E i \in Slots : Close(i)
           \/ \E n \in Names : Remove(n) \/ StatProbe(n)
           \/ \E n \in Names, ro \in BOOLEAN : Chmod(n, ro)
           \/ \E old, new \in Names : Rename(old, new)
    PROVE  CacheCoherent' /\ HandlesSound' /\ WriterWritable'
<1>1. FilesTyped /\ SlotsNamed /\ CacheCoherent /\ HandlesSound
  BY DEF CacheInv, TypeOK, TableConsistent
<1>2. call' = Idle /\ Idle.op = "idle"
  BY CallKinds DEF Open, OpenConsole, Lseek, Close, Remove, StatProbe, Chmod, Rename,
     Running, control, CacheInv, TypeOK
<1>3. WriterWritable'
  BY <1>2 DEF WriterWritable
<1>4. CASE \E n \in Names, m \in OpenModes : Open(n, m)
  <2>1. PICK n \in Names, m \in OpenModes, i \in Slots : Sopen(i, n, m)
    BY <1>4 DEF Open
  <2>. QED
    BY <1>1, <1>3, <2>1, SopenSound, DiskIOAssumption
<1>5. CASE OpenConsole
  <2>1. PICK i \in Slots, r \in BOOLEAN, w \in BOOLEAN : SopenConsole(i, r, w)
    BY <1>5 DEF OpenConsole
  <2>. QED
    BY <1>1, <1>3, <2>1, ConsoleSound
<1>6. CASE \E i \in Slots, origin \in {"SEEK_SET", "SEEK_CUR", "SEEK_END"},
              offset \in Offsets : Lseek(i, origin, offset)
  <2>1. PICK i \in Slots, origin \in {"SEEK_SET", "SEEK_CUR", "SEEK_END"},
             offset \in Offsets : Lseek(i, origin, offset)
    BY <1>6
  <2>. DEFINE to == SeekBase(dfiles[i], origin) + offset
  <2>2. dfiles' = [dfiles EXCEPT ![i] = [dfiles[i] EXCEPT !.pos = to]]
    BY <1>1, <2>1 DEF Lseek, FilesTyped
  <2>. HIDE DEF to
  <2>3. Same(i)
    BY <1>1, <2>2 DEF FilesTyped, Same, OnDisk, File
  <2>4. \A j \in Slots : Same(j)
    BY <1>1, <2>2, <2>3, SameSlot DEF FilesTyped
  <2>5. CacheCoherent'
    BY <1>1, <2>1, <2>4, CacheKept DEF Lseek
  <2>6. HandlesSound'
    BY <1>1, <2>1, <2>4, HandlesKept DEF Lseek, Same, HandlesSound
  <2>. QED
    BY <1>3, <2>5, <2>6
<1>7. CASE \E i \in Slots : Close(i)
  <2>1. PICK i \in Slots : CloseSlot(i)
    BY <1>7 DEF Close
  <2>. QED
    BY <1>1, <1>3, <2>1, CloseSlotSound
<1>8. CASE \E n \in Names : Remove(n)
  <2>1. PICK n \in Names : Remove(n)
    BY <1>8
  <2>2. OpenOn(n) = {}
    BY <2>1 DEF Remove, MayPurge, Disciplined
  <2>3. dfiles' = dfiles
    BY <1>1, <2>1, <2>2, NothingPurged DEF Remove
  <2>4. \A j \in Slots : Same(j) /\ (OnDisk(j) => dfiles[j].name # n)
    BY <2>2, <2>3, SameSlot DEF OpenOn
  <2>5. \A k \in Names \ {n} : dir'[k] = dir[k]
    BY <1>1, <2>1 DEF Remove, FilesTyped
  <2>6. CacheCoherent'
    BY <1>1, <2>1, <2>4, <2>5, CacheKept DEF Remove, SlotsNamed
  <2>7. HandlesSound'
    BY <1>1, <2>1, <2>4, <2>5, HandlesKept DEF Remove, Same, HandlesSound, SlotsNamed
  <2>. QED
    BY <1>3, <2>6, <2>7
<1>9. CASE \E n \in Names : StatProbe(n)
  <2>1. PICK n \in Names : StatProbe(n)
    BY <1>9
  <2>2. \A j \in Slots : Same(j)
    BY <2>1, SameSlot DEF StatProbe
  <2>3. cache_fp' = NULL
    BY <2>1 DEF StatProbe, Disciplined
  <2>4. HandlesSound'
    BY <1>1, <2>1, <2>2, HandlesKept DEF StatProbe, Same, HandlesSound
  <2>. QED
    BY <1>3, <2>3, <2>4 DEF CacheCoherent
<1>10. CASE \E n \in Names, ro \in BOOLEAN : Chmod(n, ro)
  <2>1. PICK n \in Names, ro \in BOOLEAN : Chmod(n, ro)
    BY <1>10
  <2>2. OpenOn(n) = {}
    BY <2>1 DEF Chmod, Disciplined
  <2>3. dfiles' = dfiles
    BY <1>1, <2>1, <2>2, NothingPurged DEF Chmod
  <2>4. \A j \in Slots : Same(j) /\ (OnDisk(j) => dfiles[j].name # n)
    BY <2>2, <2>3, SameSlot DEF OpenOn
  <2>5. \A k \in Names \ {n} : dir'[k] = dir[k]
    BY <1>1, <2>1 DEF Chmod, FilesTyped
  <2>6. CacheCoherent'
    BY <1>1, <2>1, <2>4, <2>5, CacheKept DEF Chmod, SlotsNamed
  <2>7. HandlesSound'
    BY <1>1, <2>1, <2>4, <2>5, HandlesKept DEF Chmod, Same, HandlesSound, SlotsNamed
  <2>. QED
    BY <1>3, <2>6, <2>7
<1>11. CASE \E old, new \in Names : Rename(old, new)
  <2>1. PICK old \in Names, new \in Names : Rename(old, new)
    BY <1>11
  <2>2. OpenOn(old) = {} /\ OpenOn(new) = {}
    BY <1>1, <2>1 DEF Rename, MayPurge, Disciplined, HandlesSound, OpenOn
  <2>3. dfiles' = dfiles
    BY <1>1, <2>1, <2>2, NothingPurged DEF Rename
  <2>4. \A j \in Slots : Same(j) /\ (OnDisk(j) => dfiles[j].name \notin {old, new})
    BY <2>2, <2>3, SameSlot DEF OpenOn
  <2>5. \A k \in Names \ {old, new} : dir'[k] = dir[k] /\ disk'[k] = disk[k]
    BY <1>1, <2>1 DEF Rename, Moved, FilesTyped
  <2>6. CacheCoherent'
    BY <1>1, <2>1, <2>4, <2>5, CacheKept DEF Rename, SlotsNamed
  <2>7. HandlesSound'
    BY <1>1, <2>1, <2>4, <2>5, HandlesKept DEF Rename, Same, HandlesSound, SlotsNamed
  <2>. QED
    BY <1>3, <2>6, <2>7
<1>. QED
  BY <1>4, <1>5, <1>6, <1>7, <1>8, <1>9, <1>10, <1>11

-----------------------------------------------------------------------------
(* The steps of a write and of a read.                                     *)

LEMMA QwriteRecordSound ==
    ASSUME CacheInv, NEW i \in Slots, QwriteRecord(i)
    PROVE  CacheCoherent' /\ HandlesSound' /\ WriterWritable'
<1>. DEFINE f == dfiles[i]
            rec == f.pos \div Sect
            n == Span(f.pos, Len(call.buf) - call.total)
            o == Load(f, i, rec)
            cells == Merged(o.dma, f.pos % Sect, n, call.buf, call.total)
<1>1. /\ FilesTyped /\ SlotsNamed /\ TypeOK /\ TableConsistent /\ HandlesSound
      /\ WriterWritable
  BY DEF CacheInv, TypeOK, TableConsistent
<1>2. f \in File /\ f.name \in Names /\ OnDisk(i) /\ call \in WriteCalls
  BY <1>1, WritingTyped DEF QwriteRecord
<1>3. rec \in Recs
  BY DEF QwriteRecord, WriteCode
<1>4. PICK g \in Gaps(f, rec) :
         /\ disk' = [disk EXCEPT ![f.name] = Stored(@, rec, cells, g)]
         /\ dfiles' = [dfiles EXCEPT ![i] =
               [Extended(f, rec, g) EXCEPT !.pos = f.pos + n, !.len = LenAfter(f, n)]]
  BY DEF QwriteRecord
<1>. DEFINE e == [Extended(f, rec, g) EXCEPT !.pos = f.pos + n, !.len = LenAfter(f, n)]
<1>5. /\ e.used = f.used /\ e.is_con = f.is_con /\ e.name = f.name
      /\ e.writable = f.writable /\ e.wrote = f.wrote /\ e.live = f.live
  <2>. HIDE DEF f, n, rec
  <2>. QED
    BY <1>2 DEF Extended, File
<1>6. dfiles' = [dfiles EXCEPT ![i] = e]
  BY <1>4
<1>. HIDE DEF e
<1>7. Same(i) /\ dfiles'[i].name = f.name
  BY <1>1, <1>5, <1>6 DEF FilesTyped, Same, OnDisk
<1>8. \A j \in Slots : Same(j)
  BY <1>1, <1>6, <1>7, SameSlot DEF FilesTyped
<1>9. disk'[f.name][rec] = cells
  <2>1. Stored(disk[f.name], rec, cells, g)[rec] = cells
    <3>. HIDE DEF cells, rec
    <3>. QED
      BY <1>3 DEF Stored
  <2>. HIDE DEF cells, rec, f
  <2>. QED
    BY <1>1, <1>2, <1>4, <2>1 DEF FilesTyped
<1>10. dma' = cells /\ cache_fp' = i /\ cache_rec' = rec /\ dir' = dir
  BY DEF QwriteRecord
<1>11. CacheCoherent'
  <2>. HIDE DEF cells, rec
  <2>. QED
    BY <1>2, <1>3, <1>7, <1>9, <1>10 DEF CacheCoherent, Same, OnDisk
<1>12. HandlesSound'
  BY <1>1, <1>8, <1>10, HandlesKept DEF Same, HandlesSound
<1>13. WriterWritable'
  <2>1. call'.op = "write" /\ call'.slot = i /\ call.slot = i /\ call.op = "write"
    BY <1>2 DEF QwriteRecord, Writing, WriteCalls
  <2>. QED
    BY <1>1, <1>7, <2>1 DEF WriterWritable, Same
<1>. QED
  BY <1>11, <1>12, <1>13

\* A rewrite fails only for want of room: the handle is live, so the record is
\* not on the disk and the cache does not claim it.
LEMMA QwriteFailsSound ==
    ASSUME CacheInv, NEW i \in Slots, QwriteFails(i)
    PROVE  CacheCoherent' /\ HandlesSound' /\ WriterWritable'
<1>. DEFINE f == dfiles[i]
            rec == f.pos \div Sect
            n == Span(f.pos, Len(call.buf) - call.total)
            o == Load(f, i, rec)
            cells == Merged(o.dma, f.pos % Sect, n, call.buf, call.total)
            left == IF o.code = "error" THEN o ELSE [o EXCEPT !.dma = cells]
<1>1. /\ FilesTyped /\ SlotsNamed /\ TypeOK /\ TableConsistent /\ HandlesSound
      /\ WriterWritable /\ CacheCoherent
  BY DEF CacheInv, TypeOK, TableConsistent
<1>2. f \in File /\ f.name \in Names /\ OnDisk(i) /\ rec \in Nat
  BY <1>1, WritingTyped DEF QwriteFails
<1>3. f.live /\ dir[f.name].exists
  BY <1>1, <1>2 DEF QwriteFails, Writing, WriterWritable, HandlesSound
<1>4. ReadCode(f, rec) # "error" /\ o.code # "error"
  <2>1. ReadCode(f, rec) # "error"
    BY <1>3 DEF ReadCode
  <2>. QED
    BY <2>1 DEF Load
<1>5. rec \notin Recs
  BY <1>3, <1>4 DEF QwriteFails, WriteCode
<1>6. o.fp = NULL
  BY <1>1, <1>2, <1>3, <1>5, LoadCoherent
<1>7. cache_fp' = NULL
  <2>1. SetCache([o EXCEPT !.dma = cells])
    BY <1>4 DEF QwriteFails
  <2>2. [o EXCEPT !.dma = cells].fp = o.fp
    <3>. HIDE DEF cells
    <3>. QED
      BY DEF Load
  <2>. HIDE DEF o, cells
  <2>. QED
    BY <1>6, <2>1, <2>2 DEF SetCache
<1>8. \A j \in Slots : Same(j)
  BY SameSlot DEF QwriteFails
<1>9. HandlesSound'
  BY <1>1, <1>8, HandlesKept DEF QwriteFails, Same, HandlesSound
<1>10. WriterWritable'
  BY <1>1, CallKinds DEF QwriteFails, WriterWritable, TypeOK
<1>. QED
  BY <1>7, <1>9, <1>10 DEF CacheCoherent

LEMMA ReadSound ==
    ASSUME CacheInv, NEW i \in Slots, QreadRefresh(i) \/ QreadRecord(i) \/ QreadMissing(i)
    PROVE  CacheCoherent' /\ HandlesSound' /\ WriterWritable'
<1>. DEFINE f == dfiles[i]
<1>1. /\ FilesTyped /\ SlotsNamed /\ TypeOK /\ TableConsistent /\ HandlesSound
      /\ CacheCoherent
  BY DEF CacheInv, TypeOK, TableConsistent
<1>2. /\ f \in File /\ f.name \in Names /\ OnDisk(i) /\ call \in ReadCalls
      /\ f.pos \div Sect \in Nat
  BY <1>1, ReadingTyped DEF QreadRefresh, QreadRecord, QreadMissing, Reading
<1>3. dir[f.name].exists /\ UNCHANGED <<dir, disk>>
  BY <1>1, <1>2 DEF HandlesSound, QreadRefresh, QreadRecord, QreadMissing
<1>4. \A j \in Slots \ {i} : dfiles'[j] = dfiles[j]
  BY <1>1 DEF QreadRefresh, QreadRecord, QreadMissing, FilesTyped
<1>5. Same(i) /\ dfiles'[i].name = f.name
  <2>1. CASE QreadRefresh(i)
    <3>1. PICK d \in DiskLen(f, i) : dfiles' = [dfiles EXCEPT ![i].len = Refreshed(@, d.len)]
      BY <2>1 DEF QreadRefresh
    <3>2. dfiles'[i] = [f EXCEPT !.len = Refreshed(f.len, d.len)]
      BY <1>1, <3>1 DEF FilesTyped
    <3>. QED
      BY <1>2, <3>2 DEF Same, OnDisk, File
  <2>2. CASE QreadRecord(i)
    <3>1. PICK k \in 0 .. Sect : dfiles' = [dfiles EXCEPT ![i].pos = @ + k]
      BY <2>2 DEF QreadRecord
    <3>2. dfiles'[i] = [f EXCEPT !.pos = f.pos + k]
      BY <1>1, <3>1 DEF FilesTyped
    <3>. QED
      BY <1>2, <3>2 DEF Same, OnDisk, File
  <2>3. CASE QreadMissing(i)
    BY <2>3, SameSlot DEF QreadMissing
  <2>. QED
    BY <2>1, <2>2, <2>3
<1>6. \A j \in Slots : Same(j)
  BY <1>4, <1>5, SameSlot
<1>7. CacheCoherent'
  <2>1. CASE QreadRefresh(i)
    <3>1. PICK d \in DiskLen(f, i) : SetCache(d.o)
      BY <2>1 DEF QreadRefresh
    <3>2. \/ d.o = Untouched
          \/ d.o.fp # NULL => /\ d.o.fp = i /\ d.o.rec \in Recs
                              /\ d.o.dma = disk[f.name][d.o.rec]
      BY <1>1, <1>2, <1>3, DiskLenCoherent
    <3>3. CASE d.o = Untouched
      <4>1. UNCHANGED <<dma, cache_fp, cache_rec>>
        BY <3>1, <3>3 DEF SetCache, Untouched
      <4>. QED
        BY <1>1, <1>3, <1>6, <4>1, CacheKept
    <3>4. CASE d.o.fp # NULL => /\ d.o.fp = i /\ d.o.rec \in Recs
                                /\ d.o.dma = disk[f.name][d.o.rec]
      <4>1. OnDisk(i)'
        BY <1>2, <1>5 DEF Same
      <4>. QED
        BY <1>1, <1>3, <1>5, <3>1, <3>4, <4>1, CacheLoaded
    <3>. QED
      BY <3>2, <3>3, <3>4
  <2>2. CASE QreadRecord(i) \/ QreadMissing(i)
    <3>. DEFINE o == Load(f, i, f.pos \div Sect)
    <3>1. SetCache(o)
      BY <2>2 DEF QreadRecord, QreadMissing
    <3>2. o.fp # NULL => /\ o.fp = i /\ o.rec \in Recs
                         /\ o.dma = disk[f.name][o.rec]
      BY <1>1, <1>2, <1>3, LoadCoherent
    <3>3. OnDisk(i)'
      BY <1>2, <1>5 DEF Same
    <3>. HIDE DEF o
    <3>. QED
      BY <1>1, <1>3, <1>5, <3>1, <3>2, <3>3, CacheLoaded
  <2>. QED
    BY <2>1, <2>2
<1>8. HandlesSound'
  BY <1>1, <1>3, <1>6, HandlesKept DEF Same, HandlesSound
<1>9. WriterWritable'
  BY <1>2 DEF QreadRefresh, QreadRecord, QreadMissing, WriterWritable, ReadCalls
<1>. QED
  BY <1>7, <1>8, <1>9

\* The steps that enter and leave a read or a write.
LEMMA TransferSound ==
    ASSUME CacheInv,
           \/ \E h \in Handles, buf \in Buffers : QwriteBegin(h, buf)
           \/ \E h \in Handles, want \in ReadLens : QreadBegin(h, want)
           \/ \E i \in Slots : QwriteReturn(i) \/ QreadReturn(i)
    PROVE  CacheCoherent' /\ HandlesSound' /\ WriterWritable'
<1>1. /\ FilesTyped /\ SlotsNamed /\ TypeOK /\ TableConsistent /\ HandlesSound
      /\ CacheCoherent
      /\ redir_out \in Slots \cup {NULL}
  BY DEF CacheInv, TypeOK, TableConsistent, ControlTyped
<1>2. CASE \E h \in Handles, buf \in Buffers : QwriteBegin(h, buf)
  <2>1. PICK h \in Handles, buf \in Buffers : QwriteBegin(h, buf)
    BY <1>2
  <2>2. PICK i \in Slots : i = WriteSlot(h) /\ OnDisk(i) /\ dfiles[i].writable
    <3>1. h < 3 \/ h - 3 \in Slots
      BY DiskIOAssumption DEF Handles, Slots, DISK_FIRST_FD
    <3>2. WriteSlot(h) \in Slots \cup {NULL}
      BY <1>1, <3>1 DEF WriteSlot, DISK_FIRST_FD
    <3>. QED
      BY <2>1, <3>2 DEF QwriteBegin
  <2>. DEFINE f == dfiles[i]
              e == [f EXCEPT !.wrote = TRUE, !.pos = StartPos(f)]
  <2>3. f \in File
    BY <1>1, <2>2 DEF FilesTyped
  <2>4. /\ e.used = f.used /\ e.is_con = f.is_con /\ e.name = f.name
        /\ e.writable = f.writable /\ e.live = f.live
    <3>. HIDE DEF f
    <3>. QED
      BY <2>3 DEF File
  <2>5. dfiles' = [dfiles EXCEPT ![i] = e]
    <3>1. dfiles' = [dfiles EXCEPT ![i].wrote = TRUE, ![i].pos = StartPos(dfiles[i])]
      BY <2>1, <2>2 DEF QwriteBegin
    <3>. QED
      BY <1>1, <2>2, <3>1 DEF FilesTyped
  <2>6. call'.op = "write" /\ call'.slot = i
    BY <2>1, <2>2 DEF QwriteBegin
  <2>7. UNCHANGED <<dir, disk, dma, cache_fp, cache_rec>>
    BY <2>1 DEF QwriteBegin
  <2>. HIDE DEF e
  <2>8. dfiles'[i] = e /\ \A j \in Slots \ {i} : Same(j)
    BY <1>1, <2>2, <2>5, SameSlot DEF FilesTyped
  <2>9. /\ OnDisk(i)' /\ dfiles'[i].name = f.name
        /\ dfiles'[i].writable /\ (dfiles'[i].live <=> f.live)
    BY <2>2, <2>4, <2>8 DEF OnDisk
  <2>. HIDE DEF f
  <2>10. CacheCoherent'
    BY <1>1, <2>2, <2>7, <2>8, <2>9 DEF CacheCoherent, Same, OnDisk, FilesTyped, f
  <2>11. HandlesSound'
    BY <1>1, <2>2, <2>7, <2>8, <2>9 DEF HandlesSound, Same, f
  <2>12. WriterWritable'
    BY <2>6, <2>9 DEF WriterWritable
  <2>. QED
    BY <2>10, <2>11, <2>12
<1>3. CASE \/ \E h \in Handles, want \in ReadLens : QreadBegin(h, want)
           \/ \E i \in Slots : QwriteReturn(i) \/ QreadReturn(i)
  <2>1. UNCHANGED <<dir, disk, library>> /\ call'.op # "write"
    BY <1>1, <1>3, CallKinds DEF QreadBegin, QwriteReturn, QreadReturn, TypeOK
  <2>. QED
    BY <1>1, <2>1, QuietSound DEF WriterWritable
<1>. QED
  BY <1>2, <1>3

-----------------------------------------------------------------------------
(* The life of a program.                                                  *)

LEMMA ProgramSound ==
    ASSUME Disciplined, CacheInv, ProgramStep
    PROVE  CacheCoherent' /\ HandlesSound' /\ WriterWritable'
<1>1. /\ FilesTyped /\ SlotsNamed /\ TypeOK /\ TableConsistent /\ HandlesSound
      /\ CacheCoherent
      /\ redir_in \in Slots \cup {NULL} /\ redir_out \in Slots \cup {NULL}
  BY DEF CacheInv, TypeOK, TableConsistent, ControlTyped
<1>2. Idle.op = "idle"
  BY <1>1, CallKinds DEF TypeOK
<1>3. CASE \E op \in Operators : RedirectOpen(op)
  <2>1. PICK op \in Operators, i \in Slots :
           /\ \/ \E n \in Names : Sopen(i, n, RedirectMode(op))
              \/ SopenConsole(i, op = "<", op # "<")
           /\ call' = [op |-> "redirect", is_in |-> op = "<", slot |-> i]
    BY <1>3 DEF RedirectOpen
  <2>2. RedirectMode(op) \in Mode
    BY DEF RedirectMode, Mode
  <2>3. CacheCoherent' /\ HandlesSound'
    BY <1>1, <2>1, <2>2, SopenSound, ConsoleSound
  <2>. QED
    BY <2>1, <2>3 DEF WriterWritable
<1>4. CASE RedirectLatch
  <2>. DEFINE old == Latched(call.is_in)
  <2>1. WriterWritable'
    BY <1>2, <1>4 DEF RedirectLatch, Latch, WriterWritable
  <2>2. CASE old = NULL
    <3>1. UNCHANGED <<dir, disk, library>>
      BY <1>4, <2>2 DEF RedirectLatch
    <3>. QED
      BY <1>1, <2>1, <3>1, QuietSound
  <2>3. CASE old # NULL
    <3>1. CloseSlot(old) /\ old \in Slots
      BY <1>1, <1>4, <2>3 DEF RedirectLatch, Latched
    <3>. QED
      BY <1>1, <2>1, <3>1, CloseSlotSound
  <2>. QED
    BY <2>2, <2>3
<1>5. CASE StartMain \/ MainReturns \/ Terminate \/ Exit \/ Aborts
  <2>1. UNCHANGED <<dir, disk, library>> /\ call' = Idle
    BY <1>5 DEF StartMain, MainReturns, Terminate, Exit, Aborts, Running
  <2>. QED
    BY <1>1, <1>2, <2>1, QuietSound DEF WriterWritable
<1>6. CASE CloseRedirOut
  <2>1. CloseSlot(redir_out) /\ redir_out \in Slots /\ call' = Idle
    BY <1>1, <1>6 DEF CloseRedirOut
  <2>. QED
    BY <1>1, <1>2, <2>1, CloseSlotSound DEF WriterWritable
<1>7. CASE CloseRedirIn
  <2>1. CloseSlot(redir_in) /\ redir_in \in Slots /\ call' = Idle
    BY <1>1, <1>7 DEF CloseRedirIn
  <2>. QED
    BY <1>1, <1>2, <2>1, CloseSlotSound DEF WriterWritable
<1>8. CASE NextProgram
  <2>1. dfiles' = [i \in Slots |-> Free] /\ cache_fp' = NULL /\ call' = Idle
    BY <1>8 DEF NextProgram
  <2>2. \A i \in Slots : ~OnDisk(i)'
    BY <2>1, FreeTyped DEF OnDisk
  <2>. QED
    BY <1>2, <2>1, <2>2 DEF CacheCoherent, HandlesSound, WriterWritable
<1>. QED
  BY <1>3, <1>4, <1>5, <1>6, <1>7, <1>8 DEF ProgramStep

-----------------------------------------------------------------------------
(* The theorem.                                                            *)

LEMMA CacheInit == Init => CacheInv
<1>. SUFFICES ASSUME Init PROVE CacheInv
  OBVIOUS
<1>1. \A i \in Slots : ~OnDisk(i)
  BY FreeTyped DEF Init, OnDisk
<1>2. cache_fp = NULL /\ call.op = "idle"
  BY DEF Init, Idle
<1>. QED
  BY <1>1, <1>2, InitTyped DEF CacheInv, CacheCoherent, HandlesSound, WriterWritable

LEMMA CacheNext == Disciplined /\ CacheInv /\ [Next]_vars => CacheInv'
<1>. SUFFICES ASSUME Disciplined, CacheInv, [Next]_vars
              PROVE  CacheCoherent' /\ HandlesSound' /\ WriterWritable'
  BY NextTyped DEF CacheInv
<1>1. CASE UserCall
  BY <1>1, OneStepSound, TransferSound DEF UserCall
<1>2. CASE LibraryStep
  BY <1>2, QwriteRecordSound, QwriteFailsSound, ReadSound, TransferSound DEF LibraryStep
<1>3. CASE ProgramStep
  BY <1>3, ProgramSound
<1>4. CASE UNCHANGED vars
  <2>1. UNCHANGED <<dir, disk, library, call, dfiles>>
    BY <1>4 DEF vars, control, library
  <2>2. FilesTyped /\ SlotsNamed /\ CacheCoherent /\ HandlesSound /\ WriterWritable
    BY DEF CacheInv, TypeOK, TableConsistent
  <2>3. WriterWritable'
    BY <2>1, <2>2 DEF WriterWritable
  <2>. QED
    BY <2>1, <2>2, <2>3, QuietSound
<1>. QED
  BY <1>1, <1>2, <1>3, <1>4 DEF Next

\* While cache_fp is set, dma holds the record cache_rec of that file as it is
\* on the disk, in every program that makes no status probe over a cached record
\* and does not delete, rename or chmod a file it has open.
THEOREM CacheCorrect == ASSUME Disciplined PROVE Spec => []CacheCoherent
<1>1. CacheInv /\ [Next]_vars => CacheInv'
  BY CacheNext
<1>2. CacheInv => CacheCoherent
  BY DEF CacheInv
<1>. QED
  BY <1>1, <1>2, CacheInit, PTL DEF Spec

=============================================================================
