---------------------------- MODULE DiskIOProofs ----------------------------
(***************************************************************************)
(* Theorems about the disk seam, for every number of slots, record size,   *)
(* set of files and program.                                               *)
(***************************************************************************)
EXTENDS DiskIOProps, SequenceTheorems, TLAPS

-----------------------------------------------------------------------------
(* Lemmas about the operators.                                             *)

\* A position splits into a record number and an offset in the record.
LEMMA PositionSplit ==
    ASSUME NEW p \in Nat
    PROVE  p \div Sect \in Nat /\ p % Sect \in Offs
BY BdosAssumption DEF Offs

\* The number of bytes in some records is a natural number.
LEMMA BytesInRecords ==
    ASSUME NEW n \in Nat
    PROVE  n * Sect \in Nat
BY BdosAssumption

\* What load_record leaves in the buffer is a record, whatever it reports.
LEMMA LoadTyped ==
    ASSUME FilesTyped, NEW f \in File, f.name \in Names, NEW i \in Slots, NEW rec \in Nat
    PROVE  LET o == Load(f, i, rec)
           IN  /\ o.dma \in Record
               /\ o.fp \in Slots \cup {NULL}
               /\ o.rec \in Nat
               /\ o.code \in {"ok", "unwritten", "error"}
<1>1. ReadCode(f, rec) \in {"ok", "unwritten", "error"}
  BY DEF ReadCode
<1>2. ReadCode(f, rec) = "ok" => disk[f.name][rec] \in Record
  BY DEF ReadCode, File, FilesTyped
<1>3. AllCtrlZ \in Record
  BY BdosAssumption DEF AllCtrlZ, Record, Cell
<1>. QED
  BY <1>1, <1>2, <1>3 DEF Load, FilesTyped

\* The same of the load disk_len does, and the length it returns is one.
LEMMA DiskLenTyped ==
    ASSUME FilesTyped, NEW f \in File, f.name \in Names, NEW i \in Slots,
           NEW d \in DiskLen(f, i)
    PROVE  /\ d.len \in Nat
           /\ d.o.dma \in Record
           /\ d.o.fp \in Slots \cup {NULL}
           /\ d.o.rec \in Nat
<1>. DEFINE records == F_SIZE(dir[f.name])
            last == Load(f, i, records - 1)
<1>1. records \in Nat
  BY DEF FilesTyped, Entry, F_SIZE
<1>2. /\ Untouched.dma \in Record
      /\ Untouched.fp \in Slots \cup {NULL}
      /\ Untouched.rec \in Nat
  BY DEF Untouched, FilesTyped
<1>3. CASE records = 0
  BY <1>2, <1>3 DEF DiskLen
<1>4. CASE records # 0
  <2>1. records - 1 \in Nat
    BY <1>1, <1>4
  <2>2. /\ last.dma \in Record
        /\ last.fp \in Slots \cup {NULL}
        /\ last.rec \in Nat
    BY <2>1, LoadTyped
  <2>3. records * Sect \in Nat /\ (records - 1) * Sect \in Nat /\ Sect \in Nat
    BY <1>1, <2>1, BytesInRecords, BdosAssumption
  <2>4. f.open_lrbc \in Nat
    BY BdosAssumption DEF File, Offs
  <2>. HIDE DEF records, last
  <2>5. CASE ~f.text
    BY <1>2, <1>4, <2>3, <2>4, <2>5 DEF DiskLen, records, last
  <2>6. CASE f.text /\ last.code # "ok"
    BY <1>4, <2>2, <2>3, <2>6 DEF DiskLen, records, last
  <2>7. CASE f.text /\ last.code = "ok"
    <3>1. PICK k \in 0 .. Sect : d = [len |-> (records - 1) * Sect + k, o |-> last]
      BY <1>4, <2>7 DEF DiskLen, records, last
    <3>. QED
      BY <2>2, <2>3, <3>1
  <2>. QED
    BY <2>5, <2>6, <2>7
<1>. QED
  BY <1>3, <1>4

\* A slot as _sopen fills it is an entry of the table.
LEMMA OpenedTyped ==
    ASSUME FilesTyped, NEW n \in Names, NEW m \in Mode
    PROVE  /\ Opening(n, m) \in File /\ Opening(n, m).name = n
           /\ Activated(n, m) \in File /\ Activated(n, m).name = n
<1>1. 0 \in Offs
  BY BdosAssumption DEF Offs
<1>2. Opening(n, m) \in File /\ Opening(n, m).name = n
  BY <1>1, ZenonT(30) DEF Opening, FreeSlot, File, Mode
<1>3. dir[n] \in Entry
  BY DEF FilesTyped
<1>. QED
  BY <1>1, <1>2, <1>3 DEF Activated, Entry, File

\* A purge changes nothing of a slot but live.
LEMMA PurgedTyped ==
    ASSUME FilesTyped, NEW n \in Names
    PROVE  /\ Purged(n) \in [Slots -> File]
           /\ \A j \in Slots : /\ Purged(n)[j].used = dfiles[j].used
                               /\ Purged(n)[j].is_con = dfiles[j].is_con
                               /\ Purged(n)[j].name = dfiles[j].name
<1>1. ASSUME NEW f \in File
      PROVE  /\ [f EXCEPT !.live = FALSE] \in File
             /\ [f EXCEPT !.live = FALSE].used = f.used
             /\ [f EXCEPT !.live = FALSE].is_con = f.is_con
             /\ [f EXCEPT !.live = FALSE].name = f.name
  BY DEF File
<1>. QED
  BY <1>1 DEF Purged, FilesTyped

\* A slot that is not used is an entry of the table.
LEMMA FreeTyped == Free \in File /\ Free.used = FALSE
BY BdosAssumption DEF Free, FreeSlot, File, Offs

\* The entry and the bytes of a file that F_MAKE has created.
LEMMA MadeTyped ==
    /\ NoEntry \in Entry /\ Made \in Entry /\ Made.exists
    /\ NoBytes \in [Positions -> Cell \cup {Hole}]
    /\ "none" \in Kinds
<1>1. 0 \in Offs
  BY BdosAssumption DEF Offs
<1>2. NoEntry \in Entry
  BY <1>1 DEF NoEntry, Entry
<1>3. Made \in Entry /\ Made.exists
  BY <1>2 DEF Made, Entry
<1>4. NoBytes \in [Positions -> Cell \cup {Hole}]
  BY DEF NoBytes
<1>. QED
  BY <1>2, <1>3, <1>4 DEF Kinds

-----------------------------------------------------------------------------
(* What the steps that several actions share do to the types.              *)

\* Slot j stays free, a file or a console; the slots other than i do.
Kept(j) == /\ dfiles'[j].used <=> dfiles[j].used
           /\ dfiles'[j].is_con <=> dfiles[j].is_con
KeepsOthers(i) == \A j \in Slots \ {i} : Kept(j)

\* _sopen fills a free slot and no other.
LEMMA SopenTyped ==
    ASSUME FilesTyped, SlotsNamed, NEW n \in Names, NEW m \in Mode, NEW i \in Slots,
           Sopen(i, n, m)
    PROVE  FilesTyped' /\ SlotsNamed' /\ ~dfiles[i].used /\ OnDisk(i)' /\ KeepsOthers(i)
<1>1. ~dfiles[i].used
  BY DEF Sopen, FirstFree
<1>2. ASSUME MakeFile(i, n, m)
      PROVE  FilesTyped' /\ SlotsNamed' /\ OnDisk(i)' /\ KeepsOthers(i)
  <2>1. Opening(n, m) \in File /\ Opening(n, m).name = n
    BY OpenedTyped
  <2>2. Opening(n, m).used /\ ~Opening(n, m).is_con
    BY DEF Opening, FreeSlot
  <2>3. dfiles' = [Purged(n) EXCEPT ![i] = Opening(n, m)]
    BY <1>2 DEF MakeFile
  <2>4. dfiles' \in [Slots -> File]
    BY <2>1, <2>3, PurgedTyped
  <2>5. FilesTyped'
    BY <1>2, <2>4, MadeTyped DEF MakeFile, FilesTyped
  <2>6. OnDisk(i)' /\ KeepsOthers(i)
    BY <2>2, <2>3, PurgedTyped DEF OnDisk, Kept, KeepsOthers
  <2>7. SlotsNamed'
    BY <2>1, <2>3, PurgedTyped DEF OnDisk, SlotsNamed
  <2>. QED
    BY <2>5, <2>6, <2>7
<1>3. ASSUME SopenExisting(i, n, m)
      PROVE  FilesTyped' /\ SlotsNamed' /\ OnDisk(i)' /\ KeepsOthers(i)
  <2>. DEFINE f == Activated(n, m)
  <2>1. f \in File /\ f.name = n
    BY OpenedTyped
  <2>2. f.used /\ ~f.is_con
    BY DEF Activated, Opening, FreeSlot
  <2>3. PICK d \in DiskLen(f, i) :
           /\ dfiles' = [dfiles EXCEPT ![i] =
                 [f EXCEPT !.len = d.len, !.pos = IF m.append THEN d.len ELSE 0]]
           /\ SetCache(d.o)
    BY <1>3 DEF SopenExisting
  <2>4. /\ d.len \in Nat
        /\ d.o.dma \in Record
        /\ d.o.fp \in Slots \cup {NULL}
        /\ d.o.rec \in Nat
    BY <2>1, DiskLenTyped
  <2>. DEFINE g == [f EXCEPT !.len = d.len, !.pos = IF m.append THEN d.len ELSE 0]
  <2>5. g \in File /\ g.name = n /\ g.used /\ ~g.is_con
    <3>. HIDE DEF f
    <3>. QED
      BY <2>1, <2>2, <2>4 DEF File
  <2>6. dfiles' = [dfiles EXCEPT ![i] = g]
    BY <2>3
  <2>. HIDE DEF g, f
  <2>7. FilesTyped'
    BY <1>3, <2>3, <2>4, <2>5, <2>6 DEF SopenExisting, SetCache, FilesTyped, ghosts
  <2>. QED
    BY <2>5, <2>6, <2>7 DEF FilesTyped, OnDisk, Kept, KeepsOthers, SlotsNamed
<1>. QED
  BY <1>1, <1>2, <1>3 DEF Sopen, SopenTrunc, SopenCreate

\* __close frees the slot of a file and no other.
LEMMA CloseFileTyped ==
    ASSUME FilesTyped, SlotsNamed, NEW i \in Slots, CloseFile(i)
    PROVE  FilesTyped' /\ SlotsNamed' /\ ~dfiles'[i].used /\ KeepsOthers(i)
<1>. DEFINE f == dfiles[i]
            n == f.name
<1>1. f \in File /\ n \in Names
  BY DEF CloseFile, FilesTyped, SlotsNamed
<1>2. dir[n] \in Entry
  BY <1>1 DEF FilesTyped
<1>3. Committed(dir[n], f) \in Entry
  BY <1>1, <1>2 DEF Committed, Max2, Entry, File
<1>4. ClosedEntry(dir[n], f) \in Entry
  <2>1. f.len % Sect \in Offs /\ f.ro \in BOOLEAN
    BY <1>1, PositionSplit DEF File
  <2>. QED
    BY <1>3, <2>1 DEF ClosedEntry, Entry
<1>5. dir' \in [Names -> Entry]
  BY <1>1, <1>4 DEF CloseFile, FilesTyped
<1>6. kind' \in [Names -> Kinds]
  BY <1>1 DEF CloseFile, FilesTyped, Kinds
<1>7. cache_fp' \in Slots \cup {NULL} /\ cache_rec' \in Nat
  BY DEF CloseFile, ForgetSlot, FilesTyped
<1>8. /\ dfiles' \in [Slots -> File]
      /\ dfiles'[i] = Free
      /\ \A j \in Slots \ {i} : /\ dfiles'[j].used = dfiles[j].used
                                /\ dfiles'[j].is_con = dfiles[j].is_con
                                /\ dfiles'[j].name = dfiles[j].name
  <2>1. dfiles' = [IF SetsCount(f) THEN Purged(n) ELSE dfiles EXCEPT ![i] = Free]
    BY DEF CloseFile
  <2>2. dfiles \in [Slots -> File]
    BY DEF FilesTyped
  <2>. HIDE DEF f, n
  <2>3. CASE SetsCount(f)
    BY <1>1, <2>1, <2>3, PurgedTyped, FreeTyped
  <2>4. CASE ~SetsCount(f)
    BY <2>1, <2>2, <2>4, FreeTyped
  <2>. QED
    BY <2>3, <2>4
<1>9. FilesTyped'
  BY <1>5, <1>6, <1>7, <1>8 DEF CloseFile, FilesTyped
<1>. QED
  BY <1>8, <1>9, FreeTyped DEF OnDisk, Kept, SlotsNamed, KeepsOthers

\* The console path of _sopen fills a free slot and no other.
LEMMA SopenConsoleTyped ==
    ASSUME FilesTyped, SlotsNamed, NEW i \in Slots, NEW r \in BOOLEAN, NEW w \in BOOLEAN,
           SopenConsole(i, r, w)
    PROVE  /\ FilesTyped' /\ SlotsNamed' /\ KeepsOthers(i)
           /\ ~dfiles[i].used /\ dfiles'[i].used
<1>. DEFINE con == [Free EXCEPT !.used = TRUE, !.is_con = TRUE, !.text = TRUE,
                                !.readable = r, !.writable = w]
<1>1. con \in File /\ con.used /\ con.is_con
  BY FreeTyped DEF File
<1>. HIDE DEF con
<1>2. dfiles' = [dfiles EXCEPT ![i] = con]
  BY DEF SopenConsole, con
<1>3. FilesTyped'
  BY <1>1, <1>2 DEF SopenConsole, FilesTyped, ghosts
<1>4. SlotsNamed'
  BY <1>1, <1>2 DEF FilesTyped, SlotsNamed, OnDisk
<1>5. KeepsOthers(i)
  BY <1>2 DEF FilesTyped, KeepsOthers, Kept
<1>6. ~dfiles[i].used /\ dfiles'[i].used
  BY <1>1, <1>2 DEF SopenConsole, FirstFree, FilesTyped
<1>. QED
  BY <1>3, <1>4, <1>5, <1>6

\* __close frees its slot, a file or a console, and no other.
LEMMA CloseSlotTyped ==
    ASSUME FilesTyped, SlotsNamed, NEW i \in Slots, CloseSlot(i)
    PROVE  FilesTyped' /\ SlotsNamed' /\ KeepsOthers(i)
<1>1. CASE CloseFile(i)
  BY <1>1, CloseFileTyped
<1>2. CASE CloseConsole(i)
  <2>1. dfiles' = [dfiles EXCEPT ![i] = Free]
    BY <1>2 DEF CloseConsole
  <2>2. FilesTyped'
    BY <1>2, <2>1, FreeTyped DEF CloseConsole, FilesTyped, ghosts
  <2>3. SlotsNamed' /\ KeepsOthers(i)
    BY <2>1, FreeTyped DEF FilesTyped, SlotsNamed, OnDisk, KeepsOthers, Kept
  <2>. QED
    BY <2>2, <2>3
<1>. QED
  BY <1>1, <1>2 DEF CloseSlot

\* A rename moves a value of the right type.
LEMMA MovedTyped ==
    ASSUME NEW S, NEW f \in [Names -> S], NEW empty \in S, NEW old \in Names, NEW new \in Names
    PROVE  Moved(f, old, new, empty) \in [Names -> S]
BY DEF Moved

\* Calls on names purge slots and change nothing else of them.
LEMMA PurgeTyped ==
    ASSUME FilesTyped, SlotsNamed, NEW n \in Names, dfiles' = Purged(n)
    PROVE  /\ dfiles' \in [Slots -> File]
           /\ SlotsNamed'
           /\ \A j \in Slots : Kept(j)
BY PurgedTyped DEF SlotsNamed, OnDisk, Kept

\* The call in progress is one of four kinds, told apart by op.
LEMMA CallKinds ==
    ASSUME ControlTyped
    PROVE  /\ call.op \in {"idle", "write", "read", "redirect"}
           /\ call.op = "idle" => call = Idle
           /\ call.op = "write" => call \in WriteCalls
           /\ call.op = "read" => call \in ReadCalls
           /\ call.op = "redirect" => call \in RedirectCalls
           /\ Idle \in Calls /\ Idle.op = "idle"
BY DEF ControlTyped, Calls, Idle, WriteCalls, ReadCalls, RedirectCalls

\* A step that leaves the streams and the call alone, and their slots as they
\* are, keeps the types and the table.
LEMMA ControlKept ==
    ASSUME TypeOK, TableConsistent, FilesTyped', SlotsNamed', UNCHANGED control,
           \A j \in Slots : j \in Streams \/ (call.op # "idle" /\ j = call.slot) => Kept(j)
    PROVE  TypeOK' /\ TableConsistent'
<1>1. call.op # "idle" => call.slot \in Slots
  BY CallKinds DEF TypeOK, WriteCalls, ReadCalls, RedirectCalls
<1>2. Streams \subseteq Slots /\ Streams' = Streams
  BY DEF TypeOK, ControlTyped, Streams, control
<1>3. TypeOK'
  BY DEF TypeOK, ControlTyped, control
<1>4. \A j \in Streams' : dfiles'[j].used
  BY <1>2 DEF TableConsistent, Kept
<1>5. call' = call
  BY DEF control
<1>6. /\ call.op # "idle" => dfiles'[call.slot].used
      /\ call.op \in {"read", "write"} => ~dfiles'[call.slot].is_con
  BY <1>1 DEF TableConsistent, Kept
<1>. QED
  BY <1>2, <1>3, <1>4, <1>5, <1>6 DEF TableConsistent, control

\* A step that ends the call in progress, leaving the streams alone.
LEMMA CallEnds ==
    ASSUME TypeOK, TableConsistent, FilesTyped', SlotsNamed',
           UNCHANGED <<redir_in, redir_out>>, call' = Idle,
           phase' \in {"startup", "main", "closing", "exited", "aborted"},
           \A j \in Streams : Kept(j)
    PROVE  TypeOK' /\ TableConsistent'
<1>1. Idle \in Calls /\ Idle.op = "idle"
  BY CallKinds DEF TypeOK
<1>2. Streams' = Streams
  BY DEF Streams
<1>3. TypeOK'
  BY <1>1 DEF TypeOK, ControlTyped
<1>4. \A j \in Streams' : dfiles'[j].used
  BY <1>2 DEF TableConsistent, Kept
<1>. QED
  BY <1>1, <1>2, <1>3, <1>4 DEF TableConsistent

\* A step of a read or write that goes on with the same slot.
LEMMA CallGoesOn ==
    ASSUME TypeOK, TableConsistent, FilesTyped', SlotsNamed',
           UNCHANGED <<redir_in, redir_out, phase>>,
           call' \in WriteCalls \cup ReadCalls, OnDisk(call.slot)',
           \A j \in Streams : Kept(j)
    PROVE  TypeOK' /\ TableConsistent'
<1>1. Streams' = Streams
  BY DEF Streams
<1>2. TypeOK'
  BY DEF TypeOK, ControlTyped, Calls
<1>3. call'.op # "redirect"
  BY DEF WriteCalls, ReadCalls
<1>4. \A j \in Streams' : dfiles'[j].used
  BY <1>1 DEF TableConsistent, Kept
<1>. QED
  BY <1>1, <1>2, <1>3, <1>4 DEF TableConsistent, OnDisk

-----------------------------------------------------------------------------
(* The calls that take one step.                                           *)

LEMMA OneStepTyped ==
    ASSUME TypeOK, TableConsistent,
           \/ \E n \in Names, m \in OpenModes : Open(n, m)
           \/ OpenConsole
           \/ \E i \in Slots, origin \in {"SEEK_SET", "SEEK_CUR", "SEEK_END"},
                 offset \in Offsets : Lseek(i, origin, offset)
           \/ \E i \in Slots : Close(i)
           \/ \E n \in Names : Remove(n) \/ StatProbe(n)
           \/ \E n \in Names, ro \in BOOLEAN : Chmod(n, ro)
           \/ \E old, new \in Names : Rename(old, new)
    PROVE  TypeOK' /\ TableConsistent'
<1>1. /\ FilesTyped /\ SlotsNamed
      /\ \A j \in Streams : dfiles[j].used
      /\ Streams \subseteq Slots
  BY DEF TypeOK, TableConsistent, Streams, ControlTyped
<1>2. CASE \E n \in Names, m \in OpenModes : Open(n, m)
  <2>1. PICK n \in Names, m \in OpenModes : Open(n, m)
    BY <1>2
  <2>2. PICK i \in Slots : Sopen(i, n, m)
    BY <2>1 DEF Open
  <2>3. m \in Mode
    BY DiskIOAssumption
  <2>4. FilesTyped' /\ SlotsNamed' /\ ~dfiles[i].used /\ KeepsOthers(i)
    BY <1>1, <2>2, <2>3, SopenTyped
  <2>. QED
    BY <1>1, <2>1, <2>4, ControlKept DEF Open, Running, KeepsOthers, Idle
<1>3. CASE OpenConsole
  <2>1. PICK i \in Slots, r \in BOOLEAN, w \in BOOLEAN : SopenConsole(i, r, w)
    BY <1>3 DEF OpenConsole
  <2>2. FilesTyped' /\ SlotsNamed' /\ KeepsOthers(i) /\ ~dfiles[i].used
    BY <1>1, <2>1, SopenConsoleTyped
  <2>3. UNCHANGED control /\ call.op = "idle"
    BY <1>3 DEF OpenConsole, Running, Idle
  <2>. QED
    BY <1>1, <2>2, <2>3, ControlKept DEF KeepsOthers
<1>4. CASE \E i \in Slots, origin \in {"SEEK_SET", "SEEK_CUR", "SEEK_END"},
              offset \in Offsets : Lseek(i, origin, offset)
  <2>1. PICK i \in Slots, origin \in {"SEEK_SET", "SEEK_CUR", "SEEK_END"},
             offset \in Offsets : Lseek(i, origin, offset)
    BY <1>4
  <2>. DEFINE to == SeekBase(dfiles[i], origin) + offset
  <2>2. dfiles[i] \in File /\ offset \in Int
    BY <1>1, DiskIOAssumption DEF FilesTyped
  <2>3. to \in Nat
    BY <2>1, <2>2 DEF Lseek, Seekable, SeekBase, File
  <2>4. dfiles' = [dfiles EXCEPT ![i].pos = to]
    BY <2>1 DEF Lseek
  <2>. HIDE DEF to
  <2>5. [dfiles[i] EXCEPT !.pos = to] \in File
    BY <2>2, <2>3 DEF File
  <2>6. FilesTyped'
    BY <1>1, <2>1, <2>4, <2>5 DEF Lseek, FilesTyped, ghosts
  <2>7. SlotsNamed' /\ \A j \in Slots : Kept(j)
    BY <1>1, <2>2, <2>4 DEF FilesTyped, SlotsNamed, OnDisk, Kept, File
  <2>. QED
    BY <1>1, <2>1, <2>6, <2>7, ControlKept DEF Lseek, Running, Idle
<1>5. CASE \E i \in Slots : Close(i)
  <2>1. PICK i \in Slots : Close(i)
    BY <1>5
  <2>2. i \notin Streams /\ call.op = "idle" /\ UNCHANGED control
    BY <2>1 DEF Close, Owned, Streams, Running, Idle
  <2>3. FilesTyped' /\ SlotsNamed' /\ KeepsOthers(i)
    BY <1>1, <2>1, CloseSlotTyped DEF Close
  <2>. QED
    BY <1>1, <2>2, <2>3, ControlKept DEF KeepsOthers
<1>6. CASE \E n \in Names : Remove(n)
  <2>1. PICK n \in Names : Remove(n)
    BY <1>6
  <2>2. /\ dfiles' \in [Slots -> File] /\ SlotsNamed'
        /\ \A j \in Slots : Kept(j)
    BY <1>1, <2>1, PurgeTyped DEF Remove
  <2>3. FilesTyped'
    BY <1>1, <2>1, <2>2, MadeTyped DEF Remove, FilesTyped
  <2>. QED
    BY <1>1, <2>1, <2>2, <2>3, ControlKept DEF Remove, Running, Idle
<1>7. CASE \E n \in Names : StatProbe(n)
  <2>1. PICK n \in Names : StatProbe(n)
    BY <1>7
  <2>2. AllJunk \in Record
    BY BdosAssumption DEF AllJunk, Record, Cell
  <2>3. FilesTyped'
    BY <1>1, <2>1, <2>2 DEF StatProbe, FilesTyped, ghosts
  <2>4. SlotsNamed' /\ \A j \in Slots : Kept(j)
    BY <1>1, <2>1 DEF StatProbe, SlotsNamed, OnDisk, Kept
  <2>. QED
    BY <1>1, <2>1, <2>3, <2>4, ControlKept DEF StatProbe, Running, Idle
<1>8. CASE \E n \in Names, ro \in BOOLEAN : Chmod(n, ro)
  <2>1. PICK n \in Names, ro \in BOOLEAN : Chmod(n, ro)
    BY <1>8
  <2>2. /\ dfiles' \in [Slots -> File] /\ SlotsNamed'
        /\ \A j \in Slots : Kept(j)
    BY <1>1, <2>1, PurgeTyped DEF Chmod
  <2>3. [dir[n] EXCEPT !.ro = ro] \in Entry
    <3>1. dir[n] \in Entry
      BY <1>1 DEF FilesTyped
    <3>. QED
      BY <3>1 DEF Entry
  <2>4. FilesTyped'
    BY <1>1, <2>1, <2>2, <2>3 DEF Chmod, FilesTyped, Kinds
  <2>. QED
    BY <1>1, <2>1, <2>2, <2>4, ControlKept DEF Chmod, Running, Idle
<1>9. CASE \E old, new \in Names : Rename(old, new)
  <2>1. PICK old \in Names, new \in Names : Rename(old, new)
    BY <1>9
  <2>2. /\ dfiles' \in [Slots -> File] /\ SlotsNamed'
        /\ \A j \in Slots : Kept(j)
    BY <1>1, <2>1, PurgeTyped DEF Rename
  <2>3. /\ dir' \in [Names -> Entry]
        /\ disk' \in [Names -> [Recs -> Record]]
        /\ content' \in [Names -> [Positions -> Cell \cup {Hole}]]
        /\ flen' \in [Names -> Nat]
        /\ kind' \in [Names -> Kinds]
    <3>1. \A k \in {"none", "lost"} : k \in Kinds
      BY DEF Kinds
    <3>2. /\ dir' = Moved(dir, old, new, NoEntry)
          /\ disk' = Moved(disk, old, new, disk[new])
          /\ content' = Moved(content, old, new, NoBytes)
          /\ flen' = Moved(flen, old, new, 0)
          /\ kind' = [Moved(kind, old, new, "none") EXCEPT
                          ![new] = IF old \in Unclosed THEN "lost" ELSE @]
      BY <2>1 DEF Rename
    <3>3. Moved(kind, old, new, "none") \in [Names -> Kinds]
      BY <1>1, <3>1, MovedTyped DEF FilesTyped
    <3>. QED
      BY <1>1, <3>1, <3>2, <3>3, MadeTyped, MovedTyped DEF FilesTyped
  <2>4. FilesTyped'
    BY <1>1, <2>1, <2>2, <2>3 DEF Rename, FilesTyped
  <2>. QED
    BY <1>1, <2>1, <2>2, <2>4, ControlKept DEF Rename, Running, Idle
<1>. QED
  BY <1>2, <1>3, <1>4, <1>5, <1>6, <1>7, <1>8, <1>9

-----------------------------------------------------------------------------
(* The steps of a write and of a read.                                     *)

\* A transfer of some bytes moves at least one and stays in its record.
LEMMA SpanFits ==
    ASSUME NEW pos \in Nat, NEW want \in Nat \ {0}
    PROVE  Span(pos, want) \in 1 .. want /\ (pos % Sect) + Span(pos, want) <= Sect
<1>1. pos % Sect \in 0 .. Sect - 1 /\ Sect \in Nat
  BY PositionSplit, BdosAssumption DEF Offs
<1>. QED
  BY <1>1 DEF Span, Min2

\* Bytes of a buffer laid over a record, or over the byte file, are in bounds.
LEMMA LaidOver ==
    ASSUME NEW cells \in Record, NEW bytes \in [Positions -> Cell \cup {Hole}],
           NEW buf \in Seq(Bytes \cup {CtrlZ}), NEW total \in Nat, NEW n \in Nat,
           total + n <= Len(buf), NEW off \in Nat, NEW pos \in Nat
    PROVE  /\ Merged(cells, off, n, buf, total) \in Record
           /\ Spliced(bytes, pos, n, buf, total) \in [Positions -> Cell \cup {Hole}]
<1>1. \A k \in 1 .. Len(buf) : buf[k] \in Cell
  BY DEF Cell
<1>2. \A k \in Offs : off <= k /\ k < off + n => buf[total + k - off + 1] \in Cell
  <2>. TAKE k \in Offs
  <2>. HAVE off <= k /\ k < off + n
  <2>1. k \in Nat /\ Len(buf) \in Nat
    BY BdosAssumption DEF Offs
  <2>2. total + k - off + 1 \in 1 .. Len(buf)
    BY <2>1
  <2>. QED
    BY <1>1, <2>2
<1>3. \A p \in Positions : pos <= p /\ p < pos + n => buf[total + p - pos + 1] \in Cell
  <2>. TAKE p \in Positions
  <2>. HAVE pos <= p /\ p < pos + n
  <2>1. p \in Nat /\ Len(buf) \in Nat
    BY BdosAssumption, BytesInRecords DEF Positions
  <2>2. total + p - pos + 1 \in 1 .. Len(buf)
    BY <2>1
  <2>. QED
    BY <1>1, <2>2
<1>4. Merged(cells, off, n, buf, total) \in Record
  BY <1>2 DEF Merged, Record
<1>5. Spliced(bytes, pos, n, buf, total) \in [Positions -> Cell \cup {Hole}]
  BY <1>3 DEF Spliced
<1>. QED
  BY <1>4, <1>5

\* What F_WRITERAND leaves of the file's data and of its FCB.
LEMMA StoredTyped ==
    ASSUME NEW data \in [Recs -> Record], NEW f \in File, NEW rec \in Recs,
           NEW cells \in Record, NEW g \in Gaps(f, rec)
    PROVE  /\ Stored(data, rec, cells, g) \in [Recs -> Record]
           /\ Extended(f, rec, g) \in File
           /\ Extended(f, rec, g).used = f.used
           /\ Extended(f, rec, g).is_con = f.is_con
           /\ Extended(f, rec, g).name = f.name
<1>1. AllJunk \in Record
  BY BdosAssumption DEF AllJunk, Record, Cell
<1>2. rec \in Nat
  BY BdosAssumption DEF Recs
<1>3. g \subseteq Recs
  BY DEF Gaps
<1>4. Stored(data, rec, cells, g) \in [Recs -> Record]
  BY <1>1 DEF Stored
<1>5. Max2(f.rc, rec + 1) \in Nat /\ f.alloc \cup {rec} \cup g \in SUBSET Recs
  <2>1. f.rc \in Nat /\ f.alloc \subseteq Recs
    BY DEF File
  <2>2. Max2(f.rc, rec + 1) \in Nat
    BY <1>2, <2>1 DEF Max2
  <2>3. f.alloc \cup {rec} \cup g \in SUBSET Recs
    BY <1>3, <2>1
  <2>. QED
    BY <2>2, <2>3
<1>. QED
  BY <1>4, <1>5 DEF Extended, File

\* The slot of a call in progress, and where its file stands.
LEMMA WritingTyped ==
    ASSUME TypeOK, TableConsistent, NEW i \in Slots, Writing(i), call.total < Len(call.buf)
    PROVE  LET f == dfiles[i]
               n == Span(f.pos, Len(call.buf) - call.total)
           IN  /\ f \in File /\ f.name \in Names /\ OnDisk(i)
               /\ call \in WriteCalls
               /\ call.buf \in Seq(Bytes \cup {CtrlZ})
               /\ call.total \in Nat
               /\ n \in Nat \ {0} /\ call.total + n <= Len(call.buf)
               /\ f.pos \in Nat /\ f.pos % Sect \in Offs /\ f.pos \div Sect \in Nat
<1>1. call \in WriteCalls
  BY CallKinds DEF TypeOK, Writing
<1>2. call.buf \in Seq(Bytes \cup {CtrlZ}) /\ call.total \in Nat
  BY <1>1, DiskIOAssumption DEF WriteCalls
<1>3. OnDisk(i) /\ dfiles[i] \in File /\ dfiles[i].name \in Names
  BY DEF Writing, OnDisk, TableConsistent, SlotsNamed, TypeOK, FilesTyped
<1>4. dfiles[i].pos \in Nat
  BY <1>3 DEF File
<1>5. Len(call.buf) - call.total \in Nat \ {0}
  BY <1>2
<1>6. /\ Span(dfiles[i].pos, Len(call.buf) - call.total) \in Nat \ {0}
      /\ call.total + Span(dfiles[i].pos, Len(call.buf) - call.total) <= Len(call.buf)
  <2>1. Span(dfiles[i].pos, Len(call.buf) - call.total)
           \in 1 .. Len(call.buf) - call.total
    BY <1>4, <1>5, SpanFits
  <2>. QED
    BY <1>2, <2>1
<1>7. dfiles[i].pos % Sect \in Offs /\ dfiles[i].pos \div Sect \in Nat
  BY <1>4, PositionSplit
<1>. QED
  BY <1>1, <1>2, <1>3, <1>4, <1>6, <1>7

\* One turn of the loop of __qwrite that writes.
LEMMA QwriteRecordTyped ==
    ASSUME TypeOK, TableConsistent, NEW i \in Slots, QwriteRecord(i)
    PROVE  TypeOK' /\ TableConsistent'
<1>. DEFINE f == dfiles[i]
            rec == f.pos \div Sect
            n == Span(f.pos, Len(call.buf) - call.total)
            o == Load(f, i, rec)
            cells == Merged(o.dma, f.pos % Sect, n, call.buf, call.total)
<1>1. /\ f \in File /\ f.name \in Names /\ OnDisk(i)
      /\ call \in WriteCalls
      /\ call.buf \in Seq(Bytes \cup {CtrlZ})
      /\ call.total \in Nat
      /\ n \in Nat \ {0} /\ call.total + n <= Len(call.buf)
      /\ f.pos \in Nat /\ f.pos % Sect \in Offs /\ rec \in Nat
  BY WritingTyped DEF QwriteRecord
<1>2. FilesTyped /\ SlotsNamed
  BY DEF TypeOK, TableConsistent
<1>3. rec \in Recs
  BY DEF QwriteRecord, WriteCode
<1>4. o.dma \in Record
  BY <1>1, <1>2, LoadTyped
<1>5. f.pos % Sect \in Nat
  BY <1>1, BdosAssumption DEF Offs
<1>6. content[f.name] \in [Positions -> Cell \cup {Hole}] /\ disk[f.name] \in [Recs -> Record]
  BY <1>1, <1>2 DEF FilesTyped
<1>7. /\ cells \in Record
      /\ Spliced(content[f.name], f.pos, n, call.buf, call.total)
            \in [Positions -> Cell \cup {Hole}]
  <2>. HIDE DEF f, n, o
  <2>. QED
    BY <1>1, <1>4, <1>5, <1>6, LaidOver
<1>8. PICK g \in Gaps(f, rec) :
         /\ disk' = [disk EXCEPT ![f.name] = Stored(@, rec, cells, g)]
         /\ dfiles' = [dfiles EXCEPT ![i] =
               [Extended(f, rec, g) EXCEPT !.pos = f.pos + n, !.len = LenAfter(f, n)]]
  BY DEF QwriteRecord
<1>. DEFINE e == [Extended(f, rec, g) EXCEPT !.pos = f.pos + n, !.len = LenAfter(f, n)]
<1>9. e \in File /\ e.used = f.used /\ e.is_con = f.is_con /\ e.name = f.name
  <2>1. LenAfter(f, n) \in Nat /\ f.pos + n \in Nat
    BY <1>1 DEF LenAfter, Max2, File
  <2>2. /\ Extended(f, rec, g) \in File
        /\ Extended(f, rec, g).used = f.used
        /\ Extended(f, rec, g).is_con = f.is_con
        /\ Extended(f, rec, g).name = f.name
    BY <1>1, <1>3, <1>6, <1>7, <1>8, StoredTyped, SMTT(30)
  <2>. HIDE DEF f, n, rec
  <2>. QED
    BY <2>1, <2>2 DEF File
<1>10. disk' \in [Names -> [Recs -> Record]]
  <2>1. Stored(disk[f.name], rec, cells, g) \in [Recs -> Record]
    BY <1>1, <1>3, <1>6, <1>7, <1>8, StoredTyped
  <2>. HIDE DEF f, rec, cells
  <2>. QED
    BY <1>2, <1>8, <2>1 DEF FilesTyped
<1>11. dfiles' \in [Slots -> File] /\ SlotsNamed' /\ \A j \in Slots : Kept(j)
  <2>1. dfiles' = [dfiles EXCEPT ![i] = e]
    BY <1>8
  <2>. HIDE DEF e
  <2>. QED
    BY <1>2, <1>9, <2>1 DEF FilesTyped, SlotsNamed, OnDisk, Kept
<1>12. dma' \in Record /\ cache_fp' \in Slots \cup {NULL} /\ cache_rec' \in Nat
  BY <1>1, <1>7 DEF QwriteRecord
<1>13. content' \in [Names -> [Positions -> Cell \cup {Hole}]]
  <2>1. content' = [content EXCEPT ![f.name] =
                       Spliced(@, f.pos, n, call.buf, call.total)]
    BY DEF QwriteRecord
  <2>. HIDE DEF f, n
  <2>. QED
    BY <1>2, <1>7, <2>1 DEF FilesTyped
<1>14. flen' \in [Names -> Nat] /\ kind' \in [Names -> Kinds] /\ dir' \in [Names -> Entry]
  <2>1. /\ flen' = [flen EXCEPT ![f.name] = Max2(@, f.pos + n)]
        /\ kind' = [kind EXCEPT ![f.name] = KindAfter(@, f)]
        /\ dir' = dir
    BY DEF QwriteRecord
  <2>2. \A k \in Kinds : KindAfter(k, f) \in Kinds
    BY DEF KindAfter, Kinds
  <2>3. \A l \in Nat : Max2(l, f.pos + n) \in Nat
    BY <1>1 DEF Max2
  <2>. HIDE DEF f, n
  <2>. QED
    BY <1>2, <2>1, <2>2, <2>3 DEF FilesTyped
<1>15. FilesTyped'
  BY <1>10, <1>11, <1>12, <1>13, <1>14 DEF FilesTyped
<1>16. call' \in WriteCalls /\ OnDisk(call.slot)'
  <2>1. call' = [call EXCEPT !.total = @ + n]
    BY DEF QwriteRecord
  <2>2. call.slot = i
    BY DEF QwriteRecord, Writing
  <2>. HIDE DEF n
  <2>3. call' \in WriteCalls /\ call'.slot = i
    BY <1>1, <2>1, <2>2 DEF WriteCalls
  <2>. QED
    BY <1>1, <1>11, <2>3 DEF OnDisk, Kept
<1>17. Streams \subseteq Slots /\ \A j \in Streams : Kept(j)
  BY <1>11 DEF TypeOK, TableConsistent, ControlTyped, Streams
<1>. QED
  BY <1>11, <1>15, <1>16, <1>17, CallGoesOn DEF QwriteRecord

\* The turn of __qwrite that fails.
LEMMA QwriteFailsTyped ==
    ASSUME TypeOK, TableConsistent, NEW i \in Slots, QwriteFails(i)
    PROVE  TypeOK' /\ TableConsistent'
<1>. DEFINE f == dfiles[i]
            rec == f.pos \div Sect
            n == Span(f.pos, Len(call.buf) - call.total)
            o == Load(f, i, rec)
            cells == Merged(o.dma, f.pos % Sect, n, call.buf, call.total)
            left == IF o.code = "error" THEN o ELSE [o EXCEPT !.dma = cells]
<1>1. /\ f \in File /\ f.name \in Names
      /\ call.buf \in Seq(Bytes \cup {CtrlZ})
      /\ call.total \in Nat
      /\ n \in Nat \ {0} /\ call.total + n <= Len(call.buf)
      /\ f.pos \in Nat /\ f.pos % Sect \in Offs /\ rec \in Nat
  BY WritingTyped DEF QwriteFails
<1>2. FilesTyped /\ SlotsNamed
  BY DEF TypeOK, TableConsistent
<1>3. /\ o.dma \in Record
      /\ o.fp \in Slots \cup {NULL}
      /\ o.rec \in Nat
  BY <1>1, <1>2, LoadTyped
<1>4. cells \in Record
  <2>1. content[f.name] \in [Positions -> Cell \cup {Hole}] /\ f.pos % Sect \in Nat
    BY <1>1, <1>2, BdosAssumption DEF FilesTyped, Offs
  <2>. HIDE DEF f, n, o
  <2>. QED
    BY <1>1, <1>3, <2>1, LaidOver
<1>5. left.dma \in Record /\ left.fp \in Slots \cup {NULL} /\ left.rec \in Nat
  <2>1. [o EXCEPT !.dma = cells].dma = cells /\ [o EXCEPT !.dma = cells].fp = o.fp
        /\ [o EXCEPT !.dma = cells].rec = o.rec
    <3>. HIDE DEF cells
    <3>. QED
      BY DEF Load
  <2>. HIDE DEF o, cells
  <2>. QED
    BY <1>3, <1>4, <2>1
<1>6. FilesTyped'
  <2>1. SetCache(left)
    BY DEF QwriteFails
  <2>. HIDE DEF left
  <2>. QED
    BY <1>2, <1>5, <2>1 DEF QwriteFails, SetCache, FilesTyped, ghosts
<1>7. SlotsNamed' /\ \A j \in Streams : Kept(j)
  BY DEF QwriteFails, TableConsistent, SlotsNamed, OnDisk, Kept
<1>. QED
  BY <1>6, <1>7, CallEnds DEF QwriteFails, TypeOK, ControlTyped

\* A file that is being read, and where it stands.
LEMMA ReadingTyped ==
    ASSUME TypeOK, TableConsistent, NEW i \in Slots, call.op = "read", call.slot = i
    PROVE  LET f == dfiles[i]
           IN  /\ f \in File /\ f.name \in Names /\ OnDisk(i)
               /\ call \in ReadCalls /\ call.out \in Seq(Cell) /\ call.want \in Nat
               /\ f.pos \in Nat /\ f.len \in Nat
               /\ f.pos % Sect \in Offs /\ f.pos \div Sect \in Nat
<1>1. call \in ReadCalls
  BY CallKinds DEF TypeOK
<1>2. call.out \in Seq(Cell) /\ call.want \in Nat
  BY <1>1, DiskIOAssumption DEF ReadCalls
<1>3. OnDisk(i) /\ dfiles[i] \in File /\ dfiles[i].name \in Names
  BY DEF TableConsistent, OnDisk, SlotsNamed, TypeOK, FilesTyped
<1>4. dfiles[i].pos \in Nat /\ dfiles[i].len \in Nat
  BY <1>3 DEF File
<1>. QED
  BY <1>1, <1>2, <1>3, <1>4, PositionSplit

\* The turn of __qread that copies from a record.
LEMMA QreadRecordTyped ==
    ASSUME TypeOK, TableConsistent, NEW i \in Slots, QreadRecord(i)
    PROVE  TypeOK' /\ TableConsistent'
<1>. DEFINE f == dfiles[i]
            off == f.pos % Sect
            n == Min2(Span(f.pos, f.len - f.pos), call.want - Len(call.out))
            o == Load(f, i, f.pos \div Sect)
<1>1. /\ f \in File /\ f.name \in Names /\ OnDisk(i)
      /\ call \in ReadCalls /\ call.out \in Seq(Cell) /\ call.want \in Nat
      /\ f.pos \in Nat /\ f.len \in Nat
      /\ off \in Offs /\ f.pos \div Sect \in Nat
  BY ReadingTyped DEF QreadRecord, Reading
<1>2. FilesTyped /\ SlotsNamed
  BY DEF TypeOK, TableConsistent
<1>3. /\ o.dma \in Record
      /\ o.fp \in Slots \cup {NULL}
      /\ o.rec \in Nat
  BY <1>1, <1>2, LoadTyped
<1>4. n \in Nat /\ off + n <= Sect
  <2>1. f.len - f.pos \in Nat \ {0}
    BY <1>1 DEF QreadRecord
  <2>2. call.want - Len(call.out) \in Nat \ {0}
    BY <1>1 DEF QreadRecord, Reading
  <2>3. Span(f.pos, f.len - f.pos) \in 1 .. f.len - f.pos
        /\ off + Span(f.pos, f.len - f.pos) <= Sect
    BY <1>1, <2>1, SpanFits
  <2>4. Span(f.pos, f.len - f.pos) \in Nat /\ off \in Nat /\ Sect \in Nat
    BY <1>1, <2>1, <2>3, BdosAssumption DEF Offs
  <2>. HIDE DEF f, off
  <2>. QED
    BY <2>2, <2>3, <2>4 DEF Min2
<1>5. PICK k \in 0 .. Sect :
         /\ Delivers(f, o.dma, off, n, k)
         /\ dfiles' = [dfiles EXCEPT ![i].pos = @ + k]
         /\ call' = [call EXCEPT !.out = @ \o [j \in 1 .. k |-> o.dma[off + j - 1]],
                                !.fresh = FALSE, !.eof = k < n]
  BY DEF QreadRecord
<1>. DEFINE copied == [j \in 1 .. k |-> o.dma[off + j - 1]]
<1>6. k \in Nat /\ k <= n
  BY <1>5, BdosAssumption DEF Delivers
<1>7. copied \in Seq(Cell)
  <2>1. \A j \in 1 .. k : off + j - 1 \in Offs
    BY <1>1, <1>4, <1>6, BdosAssumption DEF Offs
  <2>. HIDE DEF f, off, n, o
  <2>2. \A j \in 1 .. k : o.dma[off + j - 1] \in Cell
    BY <1>3, <2>1 DEF Record
  <2>3. copied \in [1 .. k -> Cell]
    BY <2>2
  <2>. HIDE DEF copied
  <2>. QED
    BY <1>6, <2>3, SeqDef
<1>8. call.out \o copied \in Seq(Cell)
  <2>. HIDE DEF copied
  <2>. QED
    BY <1>1, <1>7, ConcatProperties
<1>9. call' \in ReadCalls /\ call'.slot = i
  <2>1. call' = [call EXCEPT !.out = @ \o copied, !.fresh = FALSE, !.eof = k < n]
    BY <1>5
  <2>2. call.slot = i
    BY DEF QreadRecord, Reading
  <2>3. (k < n) \in BOOLEAN
    OBVIOUS
  <2>. HIDE DEF copied, n
  <2>. QED
    BY <1>1, <1>8, <2>1, <2>2, <2>3 DEF ReadCalls
<1>10. dfiles' \in [Slots -> File] /\ SlotsNamed' /\ \A j \in Slots : Kept(j)
  <2>1. dfiles' = [dfiles EXCEPT ![i] = [f EXCEPT !.pos = f.pos + k]]
    BY <1>5
  <2>2. [f EXCEPT !.pos = f.pos + k] \in File
    <3>1. f.pos + k \in Nat
      BY <1>1, <1>6
    <3>. HIDE DEF f
    <3>. QED
      BY <1>1, <3>1 DEF File
  <2>3. /\ [f EXCEPT !.pos = f.pos + k].used = f.used
        /\ [f EXCEPT !.pos = f.pos + k].is_con = f.is_con
        /\ [f EXCEPT !.pos = f.pos + k].name = f.name
    BY <1>1 DEF File
  <2>. DEFINE e == [f EXCEPT !.pos = f.pos + k]
  <2>. HIDE DEF e
  <2>. QED
    BY <1>2, <2>1, <2>2, <2>3 DEF FilesTyped, SlotsNamed, OnDisk, Kept, e
<1>11. FilesTyped'
  <2>1. SetCache(o)
    BY DEF QreadRecord
  <2>. HIDE DEF o
  <2>. QED
    BY <1>2, <1>3, <1>10, <2>1 DEF QreadRecord, SetCache, FilesTyped, ghosts
<1>12. Streams \subseteq Slots /\ \A j \in Streams : Kept(j)
  BY <1>10 DEF TypeOK, TableConsistent, ControlTyped, Streams
<1>13. OnDisk(call.slot)'
  BY <1>1, <1>9, <1>10 DEF OnDisk, Kept
<1>. QED
  BY <1>9, <1>10, <1>11, <1>12, <1>13, CallGoesOn DEF QreadRecord

\* The steps of a write and of a read that transfer nothing.
LEMMA TransferTyped ==
    ASSUME TypeOK, TableConsistent,
           \/ \E h \in Handles, buf \in Buffers : QwriteBegin(h, buf)
           \/ \E h \in Handles, want \in ReadLens : QreadBegin(h, want)
           \/ \E i \in Slots : QreadRefresh(i) \/ QreadMissing(i)
           \/ \E i \in Slots : QwriteReturn(i) \/ QreadReturn(i)
    PROVE  TypeOK' /\ TableConsistent'
<1>1. /\ FilesTyped /\ SlotsNamed
      /\ \A j \in Streams : dfiles[j].used
      /\ Streams \subseteq Slots
      /\ redir_in \in Slots \cup {NULL} /\ redir_out \in Slots \cup {NULL}
      /\ phase \in {"startup", "main", "closing", "exited", "aborted"}
  BY DEF TypeOK, TableConsistent, Streams, ControlTyped
<1>2. ASSUME NEW h \in Handles
      PROVE  /\ ReadSlot(h) \in Slots \cup {NULL}
             /\ WriteSlot(h) \in Slots \cup {NULL}
  <2>1. h < 3 \/ h - 3 \in Slots
    BY <1>2, DiskIOAssumption DEF Handles, Slots, DISK_FIRST_FD
  <2>. QED
    BY <1>1, <2>1 DEF ReadSlot, WriteSlot, DISK_FIRST_FD
<1>3. CASE \E h \in Handles, buf \in Buffers : QwriteBegin(h, buf)
  <2>1. PICK h \in Handles, buf \in Buffers : QwriteBegin(h, buf)
    BY <1>3
  <2>. DEFINE i == WriteSlot(h)
              f == dfiles[i]
              e == [f EXCEPT !.wrote = TRUE, !.pos = StartPos(f)]
  <2>2. i \in Slots /\ OnDisk(i)
    BY <1>2, <2>1 DEF QwriteBegin
  <2>3. f \in File
    BY <1>1, <2>2 DEF FilesTyped
  <2>4. e \in File /\ e.used = f.used /\ e.is_con = f.is_con /\ e.name = f.name
    <3>1. StartPos(f) \in Nat
      BY <2>3 DEF StartPos, File
    <3>. HIDE DEF f
    <3>. QED
      BY <2>3, <3>1 DEF File
  <2>5. dfiles' = [dfiles EXCEPT ![i] = e]
    <3>1. dfiles' = [dfiles EXCEPT ![i].wrote = TRUE, ![i].pos = StartPos(dfiles[i])]
      BY <2>1 DEF QwriteBegin
    <3>. HIDE DEF i
    <3>. QED
      BY <1>1, <2>2, <3>1 DEF FilesTyped
  <2>6. call' \in WriteCalls /\ call'.slot = i
    BY <2>1, <2>2 DEF QwriteBegin, WriteCalls
  <2>. HIDE DEF e, f
  <2>7. dfiles' \in [Slots -> File] /\ SlotsNamed' /\ \A j \in Slots : Kept(j)
    <3>. HIDE DEF i
    <3>. QED
      BY <1>1, <2>2, <2>4, <2>5 DEF FilesTyped, SlotsNamed, OnDisk, Kept, f
  <2>8. FilesTyped'
    BY <1>1, <2>1, <2>7 DEF QwriteBegin, FilesTyped, ghosts
  <2>9. OnDisk(call.slot)'
    BY <2>2, <2>6, <2>7 DEF OnDisk, Kept
  <2>. QED
    BY <1>1, <2>1, <2>6, <2>7, <2>8, <2>9, CallGoesOn DEF QwriteBegin
<1>4. CASE \E h \in Handles, want \in ReadLens : QreadBegin(h, want)
  <2>1. PICK h \in Handles, want \in ReadLens : QreadBegin(h, want)
    BY <1>4
  <2>. DEFINE i == ReadSlot(h)
  <2>2. i \in Slots /\ OnDisk(i)
    BY <1>2, <2>1 DEF QreadBegin
  <2>3. call' \in ReadCalls /\ call'.slot = i
    <3>1. <<>> \in Seq(Cell)
      OBVIOUS
    <3>2. call' = [op |-> "read", slot |-> i, want |-> want, out |-> <<>>,
                   fresh |-> FALSE, eof |-> FALSE]
      BY <2>1 DEF QreadBegin
    <3>. HIDE DEF i
    <3>. QED
      BY <2>2, <3>1, <3>2 DEF ReadCalls
  <2>4. FilesTyped' /\ SlotsNamed' /\ \A j \in Slots : Kept(j)
    BY <1>1, <2>1 DEF QreadBegin, FilesTyped, SlotsNamed, OnDisk, Kept, library, ghosts
  <2>5. OnDisk(call.slot)'
    BY <2>2, <2>3, <2>4 DEF OnDisk, Kept
  <2>. QED
    BY <1>1, <2>1, <2>3, <2>4, <2>5, CallGoesOn DEF QreadBegin
<1>5. CASE \E i \in Slots : QreadRefresh(i)
  <2>1. PICK i \in Slots : QreadRefresh(i)
    BY <1>5
  <2>. DEFINE f == dfiles[i]
  <2>2. f \in File /\ f.name \in Names /\ OnDisk(i) /\ call \in ReadCalls /\ f.len \in Nat
    BY <2>1, ReadingTyped DEF QreadRefresh, Reading
  <2>3. PICK d \in DiskLen(f, i) :
           /\ dfiles' = [dfiles EXCEPT ![i].len = Refreshed(@, d.len)]
           /\ SetCache(d.o)
    BY <2>1 DEF QreadRefresh
  <2>4. /\ d.len \in Nat
        /\ d.o.dma \in Record
        /\ d.o.fp \in Slots \cup {NULL}
        /\ d.o.rec \in Nat
    BY <1>1, <2>2, DiskLenTyped
  <2>. DEFINE e == [f EXCEPT !.len = Refreshed(f.len, d.len)]
  <2>5. e \in File /\ e.used = f.used /\ e.is_con = f.is_con /\ e.name = f.name
    <3>1. Refreshed(f.len, d.len) \in Nat
      BY <2>2, <2>4 DEF Refreshed, Max2
    <3>. HIDE DEF f
    <3>. QED
      BY <2>2, <3>1 DEF File
  <2>6. dfiles' = [dfiles EXCEPT ![i] = e]
    BY <1>1, <2>3 DEF FilesTyped
  <2>. HIDE DEF e
  <2>7. dfiles' \in [Slots -> File] /\ SlotsNamed' /\ \A j \in Slots : Kept(j)
    BY <1>1, <2>5, <2>6 DEF FilesTyped, SlotsNamed, OnDisk, Kept
  <2>8. FilesTyped'
    BY <1>1, <2>1, <2>3, <2>4, <2>7 DEF QreadRefresh, SetCache, FilesTyped, ghosts
  <2>9. call' \in ReadCalls /\ call'.slot = i
    <3>1. call' = [call EXCEPT !.fresh = TRUE] /\ call.slot = i
      BY <2>1 DEF QreadRefresh, Reading
    <3>. QED
      BY <2>2, <3>1 DEF ReadCalls
  <2>10. OnDisk(call.slot)'
    BY <2>2, <2>7, <2>9 DEF OnDisk, Kept
  <2>. QED
    BY <1>1, <2>1, <2>7, <2>8, <2>9, <2>10, CallGoesOn DEF QreadRefresh
<1>6. CASE \E i \in Slots : QreadMissing(i)
  <2>1. PICK i \in Slots : QreadMissing(i)
    BY <1>6
  <2>. DEFINE f == dfiles[i]
              o == Load(f, i, f.pos \div Sect)
  <2>2. /\ f \in File /\ f.name \in Names /\ OnDisk(i) /\ call \in ReadCalls
        /\ f.pos \div Sect \in Nat
    BY <2>1, ReadingTyped DEF QreadMissing, Reading
  <2>3. /\ o.dma \in Record
        /\ o.fp \in Slots \cup {NULL}
        /\ o.rec \in Nat
    BY <1>1, <2>2, LoadTyped
  <2>4. SetCache(o)
    BY <2>1 DEF QreadMissing
  <2>5. FilesTyped'
    <3>. HIDE DEF o
    <3>. QED
      BY <1>1, <2>1, <2>3, <2>4 DEF QreadMissing, SetCache, FilesTyped, ghosts
  <2>6. SlotsNamed' /\ \A j \in Slots : Kept(j)
    BY <1>1, <2>1 DEF QreadMissing, SlotsNamed, OnDisk, Kept
  <2>7. call' \in ReadCalls /\ call'.slot = i
    <3>1. call' = [call EXCEPT !.eof = TRUE] /\ call.slot = i
      BY <2>1 DEF QreadMissing, Reading
    <3>. QED
      BY <2>2, <3>1 DEF ReadCalls
  <2>8. OnDisk(call.slot)'
    BY <2>2, <2>6, <2>7 DEF OnDisk, Kept
  <2>. QED
    BY <1>1, <2>1, <2>5, <2>6, <2>7, <2>8, CallGoesOn DEF QreadMissing
<1>7. CASE \E i \in Slots : QwriteReturn(i) \/ QreadReturn(i)
  <2>1. /\ call' = Idle
        /\ UNCHANGED <<dir, disk, library, redir_in, redir_out, phase, ghosts>>
    BY <1>7 DEF QwriteReturn, QreadReturn
  <2>2. FilesTyped' /\ SlotsNamed' /\ \A j \in Slots : Kept(j)
    BY <1>1, <2>1 DEF FilesTyped, SlotsNamed, OnDisk, Kept, library, ghosts
  <2>. QED
    BY <1>1, <2>1, <2>2, CallEnds
<1>. QED
  BY <1>3, <1>4, <1>5, <1>6, <1>7

-----------------------------------------------------------------------------
(* The life of a program.                                                  *)

LEMMA ProgramTyped ==
    ASSUME TypeOK, TableConsistent, ProgramStep
    PROVE  TypeOK' /\ TableConsistent'
<1>1. /\ FilesTyped /\ SlotsNamed
      /\ \A j \in Streams : dfiles[j].used
      /\ Streams \subseteq Slots
      /\ redir_in \in Slots \cup {NULL} /\ redir_out \in Slots \cup {NULL}
      /\ phase \in {"startup", "main", "closing", "exited", "aborted"}
      /\ redir_in # NULL => redir_in # redir_out
  BY DEF TypeOK, TableConsistent, Streams, ControlTyped
<1>2. CASE \E op \in Operators : RedirectOpen(op)
  <2>1. PICK op \in Operators : RedirectOpen(op)
    BY <1>2
  <2>2. PICK i \in Slots :
           /\ \/ \E n \in Names : Sopen(i, n, RedirectMode(op))
              \/ SopenConsole(i, op = "<", op # "<")
           /\ call' = [op |-> "redirect", is_in |-> op = "<", slot |-> i]
    BY <2>1 DEF RedirectOpen
  <2>3. RedirectMode(op) \in Mode
    BY DEF RedirectMode, Mode
  <2>4. /\ FilesTyped' /\ SlotsNamed' /\ KeepsOthers(i)
        /\ ~dfiles[i].used /\ dfiles'[i].used
    <3>1. ASSUME NEW n \in Names, Sopen(i, n, RedirectMode(op))
          PROVE  /\ FilesTyped' /\ SlotsNamed' /\ KeepsOthers(i)
                 /\ ~dfiles[i].used /\ dfiles'[i].used
      BY <1>1, <2>3, <3>1, SopenTyped DEF OnDisk
    <3>2. ASSUME SopenConsole(i, op = "<", op # "<")
          PROVE  /\ FilesTyped' /\ SlotsNamed' /\ KeepsOthers(i)
                 /\ ~dfiles[i].used /\ dfiles'[i].used
      BY <1>1, <3>2, SopenConsoleTyped
    <3>. QED
      BY <2>2, <3>1, <3>2
  <2>5. i \notin Streams
    BY <1>1, <2>4
  <2>6. Streams' = Streams
    BY <2>1 DEF RedirectOpen, Streams
  <2>7. \A j \in Streams' : dfiles'[j].used
    BY <1>1, <2>4, <2>5, <2>6 DEF KeepsOthers, Kept
  <2>8. call' \in RedirectCalls /\ call'.slot = i /\ call'.op = "redirect"
    BY <2>2 DEF RedirectCalls
  <2>9. TypeOK'
    BY <1>1, <2>1, <2>4, <2>8 DEF RedirectOpen, TypeOK, ControlTyped, Calls
  <2>. QED
    BY <1>1, <2>1, <2>4, <2>5, <2>6, <2>7, <2>8, <2>9 DEF RedirectOpen, TableConsistent
<1>3. CASE RedirectLatch
  <2>1. call \in RedirectCalls /\ dfiles[call.slot].used /\ call.slot \notin Streams
    BY <1>3, CallKinds DEF RedirectLatch, TypeOK, TableConsistent
  <2>2. call.slot \in Slots /\ call.is_in \in BOOLEAN
    BY <2>1 DEF RedirectCalls
  <2>. DEFINE old == Latched(call.is_in)
  <2>3. old \in Streams \cup {NULL}
    BY DEF Latched, Streams
  <2>4. /\ FilesTyped' /\ SlotsNamed'
        /\ \A j \in Slots : j # old => Kept(j)
    <3>1. CASE old = NULL
      <4>1. UNCHANGED <<dir, disk, library, ghosts>>
        BY <1>3, <3>1 DEF RedirectLatch
      <4>. QED
        BY <1>1, <4>1 DEF FilesTyped, SlotsNamed, OnDisk, Kept, library, ghosts
    <3>2. CASE old # NULL
      <4>1. CloseSlot(old) /\ old \in Slots
        BY <1>1, <1>3, <2>3, <3>2 DEF RedirectLatch
      <4>. QED
        BY <1>1, <4>1, CloseSlotTyped DEF KeepsOthers
    <3>. QED
      BY <3>1, <3>2
  <2>5. /\ redir_in' = IF call.is_in THEN call.slot ELSE redir_in
        /\ redir_out' = IF call.is_in THEN redir_out ELSE call.slot
        /\ call' = Idle
        /\ phase' = phase
    BY <1>3 DEF RedirectLatch, Latch
  <2>6. TypeOK'
    BY <1>1, <2>2, <2>4, <2>5, CallKinds DEF TypeOK, ControlTyped
  <2>7. redir_in' # NULL => redir_in' # redir_out'
    BY <1>1, <2>1, <2>2, <2>5 DEF Streams
  <2>8. ASSUME NEW j \in Streams'
        PROVE  dfiles'[j].used
    <3>1. call.slot # NULL
      BY <2>2, DiskIOAssumption DEF Slots, NULL
    <3>2. j = call.slot \/ (j \in Streams /\ j # old)
      BY <1>1, <2>2, <2>5, <2>8 DEF Streams, Latched
    <3>3. j \in Slots /\ j # old /\ dfiles[j].used
      BY <1>1, <2>1, <2>2, <2>3, <3>1, <3>2
    <3>. QED
      BY <2>4, <3>3 DEF Kept
  <2>9. call'.op = "idle"
    BY <2>5, CallKinds DEF TypeOK
  <2>. QED
    BY <2>4, <2>6, <2>7, <2>8, <2>9 DEF TableConsistent
<1>4. CASE StartMain \/ MainReturns \/ Terminate \/ Exit
  <2>1. /\ UNCHANGED <<dir, disk, library, redir_in, redir_out, call, ghosts>>
        /\ phase' \in {"main", "closing", "exited"}
        /\ call = Idle
    BY <1>4 DEF StartMain, MainReturns, Terminate, Exit, Running
  <2>2. FilesTyped' /\ SlotsNamed' /\ \A j \in Slots : Kept(j)
    BY <1>1, <2>1 DEF FilesTyped, SlotsNamed, OnDisk, Kept, library, ghosts
  <2>. QED
    BY <1>1, <2>1, <2>2, CallEnds
<1>5. CASE CloseRedirOut
  <2>1. redir_out \in Slots /\ CloseSlot(redir_out) /\ redir_out' = NULL
        /\ UNCHANGED <<redir_in, phase, call>> /\ call = Idle
    BY <1>1, <1>5 DEF CloseRedirOut
  <2>2. FilesTyped' /\ SlotsNamed' /\ KeepsOthers(redir_out)
    BY <1>1, <2>1, CloseSlotTyped
  <2>3. redir_in \in Streams => redir_in # redir_out
    BY <1>1 DEF Streams
  <2>4. \A j \in Streams' : dfiles'[j].used
    BY <1>1, <2>1, <2>2, <2>3 DEF KeepsOthers, Kept, Streams
  <2>5. TypeOK'
    BY <2>1, <2>2 DEF TypeOK, ControlTyped
  <2>6. call'.op = "idle"
    BY <2>1, CallKinds DEF TypeOK
  <2>. QED
    BY <2>1, <2>2, <2>4, <2>5, <2>6 DEF TableConsistent
<1>6. CASE CloseRedirIn
  <2>1. /\ redir_in \in Slots /\ CloseSlot(redir_in) /\ redir_in' = NULL
        /\ UNCHANGED <<redir_out, phase, call>> /\ call = Idle /\ redir_out = NULL
    BY <1>1, <1>6 DEF CloseRedirIn
  <2>2. FilesTyped' /\ SlotsNamed'
    BY <1>1, <2>1, CloseSlotTyped
  <2>3. Streams' = {}
    BY <2>1 DEF Streams
  <2>4. TypeOK'
    BY <2>1, <2>2 DEF TypeOK, ControlTyped
  <2>5. call'.op = "idle"
    BY <2>1, CallKinds DEF TypeOK
  <2>. QED
    BY <2>1, <2>2, <2>3, <2>4, <2>5 DEF TableConsistent
<1>7. CASE Aborts
  <2>1. FilesTyped' /\ SlotsNamed' /\ \A j \in Slots : Kept(j)
    BY <1>1, <1>7 DEF Aborts, FilesTyped, SlotsNamed, OnDisk, Kept, library, ghosts
  <2>. QED
    BY <1>1, <1>7, <2>1, CallEnds DEF Aborts
<1>8. CASE NextProgram
  <2>1. dfiles' = [i \in Slots |-> Free]
    BY <1>8 DEF NextProgram
  <2>2. AllJunk \in Record
    BY BdosAssumption DEF AllJunk, Record, Cell
  <2>3. kind' \in [Names -> Kinds]
    BY <1>1, <1>8 DEF NextProgram, FilesTyped, Kinds
  <2>4. FilesTyped'
    BY <1>1, <1>8, <2>1, <2>2, <2>3, FreeTyped DEF NextProgram, FilesTyped
  <2>5. SlotsNamed'
    BY <2>1, FreeTyped DEF SlotsNamed, OnDisk
  <2>6. Streams' = {} /\ redir_in' = NULL
    BY <1>8 DEF NextProgram, Streams
  <2>7. TypeOK'
    BY <1>8, <2>4, CallKinds DEF NextProgram, TypeOK, ControlTyped
  <2>8. call'.op = "idle"
    BY <1>8, CallKinds DEF NextProgram, TypeOK
  <2>. QED
    BY <2>5, <2>6, <2>7, <2>8 DEF TableConsistent
<1>. QED
  BY <1>2, <1>3, <1>4, <1>5, <1>6, <1>7, <1>8 DEF ProgramStep

-----------------------------------------------------------------------------
(* The theorems.                                                           *)

LEMMA InitTyped == Init => TypeOK /\ TableConsistent
<1>. SUFFICES ASSUME Init PROVE TypeOK /\ TableConsistent
  OBVIOUS
<1>1. AllJunk \in Record
  BY BdosAssumption DEF AllJunk, Record, Cell
<1>2. FilesTyped
  BY <1>1, FreeTyped, MadeTyped DEF Init, FilesTyped
<1>3. call.op = "idle" /\ call \in Calls
  BY DEF Init, Calls, Idle
<1>4. ControlTyped
  BY <1>3 DEF Init, ControlTyped
<1>5. SlotsNamed
  BY FreeTyped DEF Init, SlotsNamed, OnDisk
<1>. QED
  BY <1>2, <1>3, <1>4, <1>5 DEF Init, TypeOK, TableConsistent, Streams

LEMMA NextTyped == TypeOK /\ TableConsistent /\ [Next]_vars => TypeOK' /\ TableConsistent'
<1>. SUFFICES ASSUME TypeOK, TableConsistent, [Next]_vars
              PROVE  TypeOK' /\ TableConsistent'
  OBVIOUS
<1>1. CASE UserCall
  BY <1>1, OneStepTyped, TransferTyped DEF UserCall
<1>2. CASE LibraryStep
  BY <1>2, TransferTyped, QwriteRecordTyped, QwriteFailsTyped, QreadRecordTyped
  DEF LibraryStep
<1>3. CASE ProgramStep
  BY <1>3, ProgramTyped
<1>4. CASE UNCHANGED vars
  <2>1. UNCHANGED <<control, dir, disk, library, ghosts, phase>>
    BY <1>4 DEF vars, control
  <2>2. FilesTyped' /\ SlotsNamed' /\ \A j \in Slots : Kept(j)
    BY <2>1 DEF FilesTyped, SlotsNamed, OnDisk, Kept, library, ghosts, TypeOK, TableConsistent
  <2>. QED
    BY <2>1, <2>2, ControlKept
<1>. QED
  BY <1>1, <1>2, <1>3, <1>4 DEF Next

\* Every reachable state is typed: whatever calls a program makes, the cache,
\* the streams and the call in progress stay inside the open-file table.
THEOREM TypeCorrect == Spec => []TypeOK
<1>1. Spec => [](TypeOK /\ TableConsistent)
  BY InitTyped, NextTyped, PTL DEF Spec
<1>. QED
  BY <1>1, PTL

\* The table is never left pointing at nothing: the redirected streams of any
\* program name slots in use, each one of its own, whether a file or the console,
\* and a transfer of records in progress names a file.
THEOREM StreamsOpen == Spec => []TableConsistent
<1>1. Spec => [](TypeOK /\ TableConsistent)
  BY InitTyped, NextTyped, PTL DEF Spec
<1>. QED
  BY <1>1, PTL

=============================================================================
