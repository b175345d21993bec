------------------------------- MODULE DiskIO -------------------------------
(***************************************************************************)
(* The disk seam of the CP/M-86 C library, bld/clib/_cpm/c/diskio.c: byte  *)
(* files on top of 128-byte records.  Every read and write of the library  *)
(* passes through one shared record buffer, dma, which also serves as a    *)
(* one-record cache.                                                       *)
(*                                                                         *)
(* The library is single-threaded.  A call is one action, except that      *)
(* __qread and __qwrite take one step per record and the redirection code  *)
(* one step per file: call holds the call in progress and its locals.      *)
(***************************************************************************)
EXTENDS Bdos, Sequences

CONSTANTS DiskMax,    \* DISK_MAX, slots of the open-file table
          HasLrbc,    \* os_has_lrbc(): the OS keeps a last record byte count
          Usage,      \* what the program is allowed to do, see UsageKinds
          OpenModes,  \* the modes the program passes to open
          Buffers,    \* the buffers the program passes to write
          ReadLens,   \* the lengths the program passes to read
          Offsets,    \* the offsets the program passes to lseek
          MaxPos      \* bound on the positions lseek is sent to

\* Uses of the library that a run may switch on:
\*   probe_cached  access, stat or utime while a record is cached
\*   purge_open    remove, rename or truncate a file that is open
\*   chmod         chmod a file that is not open
\*   chmod_open    chmod any file
\*   shared        open a file for reading while another handle has it open
\*   gap           seek past the end of the file
\*   console       open CON, dup a standard handle
\*   redirect      a command tail with < > >> operands, files or CON
\*   exit          end by exit() with files still open
UsageKinds == {"probe_cached", "purge_open", "chmod", "chmod_open", "shared",
               "gap", "console", "redirect", "exit"}

NULL == -1
Slots == 0 .. DiskMax - 1
DISK_FIRST_FD == 3
Handles == 0 .. DISK_FIRST_FD + DiskMax - 1

Mode == [readable: BOOLEAN, writable: BOOLEAN, append: BOOLEAN, text: BOOLEAN,
         trunc: BOOLEAN, creat: BOOLEAN]

ASSUME DiskIOAssumption == /\ DiskMax \in Nat
                           /\ HasLrbc \in BOOLEAN
                           /\ Usage \subseteq UsageKinds
                           /\ Usage \cap {"purge_open", "chmod_open"} # {} => HasLrbc
                           /\ OpenModes \subseteq Mode
                           /\ Buffers \subseteq Seq(Bytes \cup {CtrlZ})
                           /\ ReadLens \subseteq Nat
                           /\ Offsets \subseteq Int
                           /\ MaxPos \in Nat

VARIABLES dir,        \* the disk directory
          disk,       \* the data of every file, by record
          dfiles,     \* the open-file table, FCBs included
          dma,        \* the 128-byte work buffer
          cache_fp,   \* slot whose record is in dma, or NULL
          cache_rec,  \* number of that record (0 when cache_fp is NULL)
          redir_in,   \* slot feeding stdin, or NULL
          redir_out,  \* slot draining stdout, or NULL
          phase,      \* startup, main, closing, exited, or aborted by the BDOS
          call,       \* the library call in progress
          content,    \* ghost: the bytes the program has put in each file
          flen,       \* ghost: the length of that file in bytes
          kind        \* ghost: the modes it was written in, see Kinds

library == <<dfiles, dma, cache_fp, cache_rec>>
ghosts == <<content, flen, kind>>
control == <<redir_in, redir_out, phase, call>>
vars == <<dir, disk, library, control, ghosts>>

-----------------------------------------------------------------------------
(* State.                                                                  *)

NoName == "noname"

\* An open-file table entry: the fields of dfile_t, then those of its FCB.
File == [used: BOOLEAN, is_con: BOOLEAN, readable: BOOLEAN, writable: BOOLEAN,
         append: BOOLEAN, text: BOOLEAN, wrote: BOOLEAN, pos: Nat, len: Nat,
         open_lrbc: Offs,
         name: Names \cup {NoName}, alloc: SUBSET Recs, rc: Nat, ro: BOOLEAN, live: BOOLEAN]

\* Fields of a slot that is not used are never read before they are set.
FreeSlot(n) == [used |-> FALSE, is_con |-> FALSE, readable |-> FALSE,
                writable |-> FALSE, append |-> FALSE, text |-> FALSE,
                wrote |-> FALSE, pos |-> 0, len |-> 0, open_lrbc |-> 0,
                name |-> n, alloc |-> {}, rc |-> 0, ro |-> FALSE, live |-> FALSE]

Free == FreeSlot(NoName)

\* The call in progress: its locals as far as the rest of the call needs them.
Idle == [op |-> "idle"]
WriteCalls == [op: {"write"}, slot: Slots, buf: Buffers, total: Nat]
ReadCalls == [op: {"read"}, slot: Slots, want: ReadLens, out: Seq(Cell),
              fresh: BOOLEAN, eof: BOOLEAN]
RedirectCalls == [op: {"redirect"}, is_in: BOOLEAN, slot: Slots]
Calls == {Idle} \cup WriteCalls \cup ReadCalls \cup RedirectCalls

\* How a file came to hold its bytes.  "none": nothing written since F_MAKE;
\* "stale": a binary file whose stored byte count no longer matches its length;
\* "lost": its FCB was purged, or its program ended, before it was closed, so
\* nothing is promised.
Kinds == {"none", "text", "bin", "mixed", "stale", "lost"}

Hole == "hole"
Positions == 0 .. Sect * NRecs - 1
NoBytes == [p \in Positions |-> Hole]

Init == /\ dir = [n \in Names |-> NoEntry]
        /\ disk = [n \in Names |-> [r \in Recs |-> AllJunk]]
        /\ dfiles = [i \in Slots |-> Free]
        /\ dma = AllJunk
        /\ cache_fp = NULL /\ cache_rec = 0
        /\ redir_in = NULL /\ redir_out = NULL
        /\ phase = "startup"
        /\ call = Idle
        /\ content = [n \in Names |-> NoBytes]
        /\ flen = [n \in Names |-> 0]
        /\ kind = [n \in Names |-> "none"]

OnDisk(i) == dfiles[i].used /\ ~dfiles[i].is_con
OpenOn(n) == {i \in Slots : OnDisk(i) /\ dfiles[i].name = n}

\* The main program is running and no library call is in progress.
Running == phase = "main" /\ call = Idle

\* The slots the program has file descriptors for.
Owned == {i \in Slots : dfiles[i].used} \ {redir_in, redir_out}

\* The first slot the scan of the table finds free.
FirstFree(i) == ~dfiles[i].used /\ \A j \in 0 .. i - 1 : dfiles[j].used

-----------------------------------------------------------------------------
(* load_record, text_eof and disk_len.                                     *)

\* Mutations of Load: the cache test forgets the record, or the file.
LoadAnyRecord(f, i, rec) ==
    IF cache_fp = i THEN [code |-> "ok", dma |-> dma, fp |-> i, rec |-> rec]
    ELSE IF ReadCode(f, rec) = "ok"
    THEN [code |-> "ok", dma |-> disk[f.name][rec], fp |-> i, rec |-> rec]
    ELSE [code |-> ReadCode(f, rec), dma |-> AllCtrlZ, fp |-> NULL, rec |-> 0]
LoadAnyFile(f, i, rec) ==
    IF cache_fp # NULL /\ cache_rec = rec
    THEN [code |-> "ok", dma |-> dma, fp |-> i, rec |-> rec]
    ELSE IF ReadCode(f, rec) = "ok"
    THEN [code |-> "ok", dma |-> disk[f.name][rec], fp |-> i, rec |-> rec]
    ELSE [code |-> ReadCode(f, rec), dma |-> AllCtrlZ, fp |-> NULL, rec |-> 0]

\* load_record of the file f in slot i: what it returns and what it leaves in
\* the buffer.  A cached record is not read again; a record that is not there
\* leaves Ctrl-Z in the buffer, an error leaves the buffer alone, and both
\* drop the cache.
Load(f, i, rec) ==
    IF cache_fp = i /\ cache_rec = rec
    THEN [code |-> "ok", dma |-> dma, fp |-> i, rec |-> rec]
    ELSE LET code == ReadCode(f, rec)
         IN  [code |-> code,
              dma |-> IF code = "ok" THEN disk[f.name][rec]
                      ELSE IF code = "unwritten" THEN AllCtrlZ ELSE dma,
              fp |-> IF code = "ok" THEN i ELSE NULL,
              rec |-> IF code = "ok" THEN rec ELSE 0]

\* The buffer as an operation that has done no load leaves it.
Untouched == [code |-> "ok", dma |-> dma, fp |-> cache_fp, rec |-> cache_rec]

SetCache(o) == dma' = o.dma /\ cache_fp' = o.fp /\ cache_rec' = o.rec

\* Mutation: the padding is not trimmed.
TextEndUntrimmed(cells, i) == i = Sect

\* The scan of a record back past its Ctrl-Z padding stops at i.
TextEnd(cells, i) == /\ \A k \in i .. Sect - 1 : cells[k] = CtrlZ
                     /\ i > 0 => cells[i - 1] # CtrlZ

\* disk_len (text_eof for a text file): the length seen on the disk and the
\* load that computing it did.
DiskLen(f, i) ==
    LET records == F_SIZE(dir[f.name])
        last == Load(f, i, records - 1)
    IN  IF records = 0 THEN {[len |-> 0, o |-> Untouched]}
        ELSE IF ~f.text
             THEN {[len |-> IF HasLrbc /\ f.open_lrbc # 0
                            THEN (records - 1) * Sect + f.open_lrbc
                            ELSE records * Sect,
                    o |-> Untouched]}
        ELSE IF last.code # "ok" THEN {[len |-> records * Sect, o |-> last]}
        ELSE {[len |-> (records - 1) * Sect + k, o |-> last] :
                   k \in {e \in 0 .. Sect : TextEnd(last.dma, e)}}

-----------------------------------------------------------------------------
(* _sopen and the calls that allocate a slot.                              *)

\* The slot of a file just opened, before its FCB is activated.
Opening(n, m) == [FreeSlot(n) EXCEPT !.used = TRUE, !.readable = m.readable,
                                     !.writable = m.writable, !.append = m.append,
                                     !.text = m.text, !.live = TRUE]

\* The same after F_OPEN of an existing file.
Activated(n, m) == [Opening(n, m) EXCEPT
    !.alloc = dir[n].alloc, !.rc = dir[n].rc, !.ro = dir[n].ro,
    !.open_lrbc = IF HasLrbc /\ ~m.text THEN dir[n].lrbc ELSE 0]

\* F_DELETE, F_RENAME and F_ATTRIB purge the lock of an open file: the next use
\* of its FCBs is an FCB checksum error.
Purged(n) == [i \in Slots |-> IF i \in OpenOn(n)
                              THEN [dfiles[i] EXCEPT !.live = FALSE] ELSE dfiles[i]]

MayPurge(n) == "purge_open" \in Usage \/ OpenOn(n) = {}

\* Which opens the program makes while n is open: none, or under "shared" one
\* writer at most.
MayOpen(n, m) == \A i \in OpenOn(n) :
                    \/ ~dfiles[i].live
                    \/ "shared" \in Usage /\ ~(m.writable /\ dfiles[i].writable)

\* F_MAKE of n into slot i: an empty file.
MakeFile(i, n, m) ==
    /\ dir' = [dir EXCEPT ![n] = Made]
    /\ dfiles' = [Purged(n) EXCEPT ![i] = Opening(n, m)]
    /\ content' = [content EXCEPT ![n] = NoBytes]
    /\ flen' = [flen EXCEPT ![n] = 0]
    /\ kind' = [kind EXCEPT ![n] = "none"]
    /\ UNCHANGED <<disk, dma, cache_fp, cache_rec>>

\* O_TRUNC: F_DELETE whatever is there, then F_MAKE.
SopenTrunc(i, n, m) == /\ m.trunc /\ ~dir[n].ro /\ MayPurge(n)
                       /\ MakeFile(i, n, m)

\* F_OPEN finds no file and O_CREAT is set.
SopenCreate(i, n, m) == /\ ~m.trunc /\ m.creat /\ ~dir[n].exists /\ MayOpen(n, m)
                        /\ MakeFile(i, n, m)

\* F_OPEN of an existing file: the length is seeded from the disk, and O_APPEND
\* starts at the end.
SopenExisting(i, n, m) ==
    LET f == Activated(n, m)
    IN  /\ ~m.trunc /\ dir[n].exists /\ MayOpen(n, m)
        /\ \E d \in DiskLen(f, i) :
              /\ dfiles' = [dfiles EXCEPT ![i] =
                    [f EXCEPT !.len = d.len, !.pos = IF m.append THEN d.len ELSE 0]]
              /\ SetCache(d.o)
        /\ UNCHANGED <<dir, disk, ghosts>>

\* A call of _sopen that returns the handle of slot i.  Calls that fail (table
\* full, no such file) change nothing.
Sopen(i, n, m) == /\ FirstFree(i)
                  /\ \/ SopenTrunc(i, n, m)
                     \/ SopenCreate(i, n, m)
                     \/ SopenExisting(i, n, m)

\* open, creat and fopen.
Open(n, m) == /\ Running
              /\ \E i \in Slots : Sopen(i, n, m)
              /\ UNCHANGED control

\* The console path of _sopen: the name is CON, the slot has no FCB.
SopenConsole(i, r, w) ==
    /\ FirstFree(i)
    /\ dfiles' = [dfiles EXCEPT ![i] =
          [Free EXCEPT !.used = TRUE, !.is_con = TRUE, !.text = TRUE,
                       !.readable = r, !.writable = w]]
    /\ UNCHANGED <<dir, disk, dma, cache_fp, cache_rec, ghosts>>

\* open of CON, or dup of a standard handle.
OpenConsole == /\ Running /\ "console" \in Usage
               /\ \E i \in Slots, r, w \in BOOLEAN : SopenConsole(i, r, w)
               /\ UNCHANGED control

-----------------------------------------------------------------------------
(* __qwrite.                                                               *)

\* The slot a handle of __qread stands for: any standard handle is stdin.
ReadSlot(h) == IF h < DISK_FIRST_FD THEN redir_in ELSE h - DISK_FIRST_FD

\* The slot a handle of __qwrite stands for: only stdout is redirected, and a
\* standard handle that is not goes to the console.
WriteSlot(h) == IF h = 1 THEN redir_out
                ELSE IF h < DISK_FIRST_FD THEN NULL ELSE h - DISK_FIRST_FD

\* The program may use handle h: a standard one, or one it was given.  Between
\* the return of main and the close of the redirected output, fflush(stdout)
\* drains the rest of the stdout buffer.
MayUse(h) == /\ call = Idle
             /\ \/ phase = "main" /\ h < DISK_FIRST_FD
                \/ phase = "main" /\ h - DISK_FIRST_FD \in Owned
                \/ phase = "closing" /\ h = 1

Legal(f, buf) == f.text => \A k \in DOMAIN buf : buf[k] # CtrlZ

\* Mutation: O_APPEND is forgotten after the open.
StartAnywhere(f) == f.pos

\* Where a write starts: an append handle moves to the end first.
StartPos(f) == IF f.append THEN f.len ELSE f.pos

\* __qwrite up to its loop.
QwriteBegin(h, buf) ==
    LET i == WriteSlot(h)
    IN  /\ MayUse(h)
        /\ i # NULL /\ OnDisk(i) /\ dfiles[i].writable /\ Legal(dfiles[i], buf)
        /\ dfiles' = [dfiles EXCEPT ![i].wrote = TRUE,
                         ![i].pos = StartPos(dfiles[i])]
        /\ call' = [op |-> "write", slot |-> i, buf |-> buf, total |-> 0]
        /\ UNCHANGED <<dir, disk, dma, cache_fp, cache_rec, redir_in, redir_out,
                       phase, ghosts>>

\* How far the next record takes a transfer that stands at pos.
Span(pos, want) == Min2(Sect - (pos % Sect), want)

\* Mutation: the rest of the record is not kept.
MergedFresh(cells, off, n, buf, total) ==
    [k \in Offs |-> IF off <= k /\ k < off + n THEN buf[total + k - off + 1] ELSE CtrlZ]

\* The record with the n bytes of buf from total on laid over it at offset off.
Merged(cells, off, n, buf, total) ==
    [k \in Offs |-> IF off <= k /\ k < off + n THEN buf[total + k - off + 1]
                    ELSE cells[k]]

\* Ghost: the same bytes in the byte file, where there is room for them.
Spliced(bytes, pos, n, buf, total) ==
    [p \in Positions |-> IF pos <= p /\ p < pos + n THEN buf[total + p - pos + 1]
                         ELSE bytes[p]]

\* Mutation: the length follows the position back.
LenAtPos(f, n) == f.pos + n

\* The length after n bytes were written at the position.
LenAfter(f, n) == Max2(f.len, f.pos + n)

\* Ghost: the kind of a file after a write by f.
KindAfter(k, f) == LET m == IF f.text THEN "text" ELSE "bin"
                   IN  IF k \in {"none", m} THEN m
                       ELSE IF k = "lost" THEN k ELSE "mixed"

Writing(i) == call.op = "write" /\ call.slot = i

\* One turn of the loop that writes: load the record, lay the bytes over it,
\* write it back, advance.
QwriteRecord(i) ==
    LET f == dfiles[i]
        rec == f.pos \div Sect
        n == Span(f.pos, Len(call.buf) - call.total)
        o == Load(f, i, rec)
        cells == Merged(o.dma, f.pos % Sect, n, call.buf, call.total)
    IN  /\ Writing(i) /\ call.total < Len(call.buf)
        /\ o.code # "error" /\ WriteCode(f, rec) = "ok"
        /\ \E g \in Gaps(f, rec) :
              /\ disk' = [disk EXCEPT ![f.name] = Stored(@, rec, cells, g)]
              /\ dfiles' = [dfiles EXCEPT ![i] =
                    [Extended(f, rec, g) EXCEPT !.pos = f.pos + n,
                                                !.len = LenAfter(f, n)]]
        /\ dma' = cells /\ cache_fp' = i /\ cache_rec' = rec
        /\ call' = [call EXCEPT !.total = @ + n]
        /\ content' = [content EXCEPT ![f.name] =
                          Spliced(@, f.pos, n, call.buf, call.total)]
        /\ flen' = [flen EXCEPT ![f.name] = Max2(@, f.pos + n)]
        /\ kind' = [kind EXCEPT ![f.name] = KindAfter(@, f)]
        /\ UNCHANGED <<dir, redir_in, redir_out, phase>>

\* Mutation: an error does not leave the loop.
QwriteRetries(i) ==
    LET f == dfiles[i]
        rec == f.pos \div Sect
        o == Load(f, i, rec)
    IN  /\ Writing(i) /\ call.total < Len(call.buf)
        /\ o.code = "error" \/ WriteCode(f, rec) = "error"
        /\ SetCache(o)
        /\ UNCHANGED <<dir, disk, dfiles, control, ghosts>>

\* The turn that fails: the load or F_WRITERAND reports an error and the loop is
\* left, the buffer as it stands.
QwriteFails(i) ==
    LET f == dfiles[i]
        rec == f.pos \div Sect
        n == Span(f.pos, Len(call.buf) - call.total)
        o == Load(f, i, rec)
        cells == Merged(o.dma, f.pos % Sect, n, call.buf, call.total)
    IN  /\ Writing(i) /\ call.total < Len(call.buf)
        /\ o.code = "error" \/ WriteCode(f, rec) = "error"
        /\ SetCache(IF o.code = "error" THEN o ELSE [o EXCEPT !.dma = cells])
        /\ call' = Idle
        /\ UNCHANGED <<dir, disk, dfiles, redir_in, redir_out, phase, ghosts>>

\* The loop has written everything.
QwriteReturn(i) == /\ Writing(i) /\ call.total >= Len(call.buf)
                   /\ call' = Idle
                   /\ UNCHANGED <<dir, disk, library, redir_in, redir_out, phase, ghosts>>

-----------------------------------------------------------------------------
(* __qread.                                                                *)

QreadBegin(h, want) ==
    LET i == ReadSlot(h)
    IN  /\ MayUse(h) /\ phase = "main"
        /\ i # NULL /\ OnDisk(i) /\ dfiles[i].readable
        /\ call' = [op |-> "read", slot |-> i, want |-> want, out |-> <<>>,
                    fresh |-> FALSE, eof |-> FALSE]
        /\ UNCHANGED <<dir, disk, library, redir_in, redir_out, phase, ghosts>>

\* The loop of a read is still turning.
Reading(i) == /\ call.op = "read" /\ call.slot = i
              /\ Len(call.out) < call.want /\ ~call.eof

\* Mutation: the length stays that of the open.
LenAtOpen(old, new) == old

\* The length a reader goes on with: it never shrinks.
Refreshed(old, new) == Max2(old, new)

\* At the known end, a handle that has not written looks at the disk again.
QreadRefresh(i) ==
    LET f == dfiles[i]
    IN  /\ Reading(i) /\ f.pos >= f.len /\ ~f.wrote /\ ~call.fresh
        /\ \E d \in DiskLen(f, i) :
              /\ dfiles' = [dfiles EXCEPT ![i].len = Refreshed(@, d.len)]
              /\ SetCache(d.o)
        /\ call' = [call EXCEPT !.fresh = TRUE]
        /\ UNCHANGED <<dir, disk, redir_in, redir_out, phase, ghosts>>

\* Mutation: a Ctrl-Z ends a binary read too.
DeliversText(f, cells, off, n, k) ==
    /\ k <= n
    /\ \A j \in 0 .. k - 1 : cells[off + j] # CtrlZ
    /\ k < n => cells[off + k] = CtrlZ

\* k is the number of bytes that a read of n bytes at off delivers: a text file
\* stops at its first Ctrl-Z.
Delivers(f, cells, off, n, k) ==
    /\ k <= n
    /\ f.text => \A j \in 0 .. k - 1 : cells[off + j] # CtrlZ
    /\ k < n => f.text /\ cells[off + k] = CtrlZ

\* One turn of the loop that reads: load the record and copy from it, not
\* crossing the exact end.
QreadRecord(i) ==
    LET f == dfiles[i]
        off == f.pos % Sect
        n == Min2(Span(f.pos, f.len - f.pos), call.want - Len(call.out))
        o == Load(f, i, f.pos \div Sect)
    IN  /\ Reading(i) /\ f.pos < f.len /\ o.code = "ok"
        /\ SetCache(o)
        /\ \E k \in 0 .. Sect :
              /\ Delivers(f, o.dma, off, n, k)
              /\ dfiles' = [dfiles EXCEPT ![i].pos = @ + k]
              /\ call' = [call EXCEPT !.out = @ \o [j \in 1 .. k |-> o.dma[off + j - 1]],
                                     !.fresh = FALSE, !.eof = k < n]
        /\ UNCHANGED <<dir, disk, redir_in, redir_out, phase, ghosts>>

\* The turn that finds no record where the length says there is one.
QreadMissing(i) ==
    LET f == dfiles[i]
        o == Load(f, i, f.pos \div Sect)
    IN  /\ Reading(i) /\ f.pos < f.len /\ o.code # "ok"
        /\ SetCache(o)
        /\ call' = [call EXCEPT !.eof = TRUE]
        /\ UNCHANGED <<dir, disk, dfiles, redir_in, redir_out, phase, ghosts>>

\* The read returns what it has: enough, stopped, or at the end.
QreadReturn(i) ==
    LET f == dfiles[i]
    IN  /\ call.op = "read" /\ call.slot = i
        /\ Reading(i) => f.pos >= f.len /\ (f.wrote \/ call.fresh)
        /\ call' = Idle
        /\ UNCHANGED <<dir, disk, library, redir_in, redir_out, phase, ghosts>>

-----------------------------------------------------------------------------
(* __lseek and __close.                                                    *)

SeekBase(f, origin) == IF origin = "SEEK_SET" THEN 0
                       ELSE IF origin = "SEEK_CUR" THEN f.pos ELSE f.len

\* Mutation: any position is taken.
SeekableAnywhere(to) == TRUE

\* A position before the start of the file is refused.
Seekable(to) == to >= 0

\* __lseek, lseek.
Lseek(i, origin, offset) ==
    LET to == SeekBase(dfiles[i], origin) + offset
    IN  /\ Running /\ i \in Owned
        /\ Seekable(to) /\ to <= MaxPos
        /\ "gap" \in Usage \/ to <= dfiles[i].len
        /\ dfiles' = [dfiles EXCEPT ![i].pos = to]
        /\ UNCHANGED <<dir, disk, dma, cache_fp, cache_rec, control, ghosts>>

\* __close sends the byte count by F_ATTRIB after F_CLOSE: for a binary file it
\* wrote, when the OS keeps one and the last record is not full.
SetsCount(f) == f.wrote /\ ~f.text /\ HasLrbc /\ f.len % Sect # 0

\* Mutations of the entry __close leaves: F_CLOSE or F_ATTRIB is missing.
NotClosedEntry(e, f) == e
UncountedEntry(e, f) == Committed(e, f)

\* The entry of a file after __close of f.  F_ATTRIB also writes back the
\* attributes the FCB had at open.
ClosedEntry(e, f) == IF SetsCount(f)
                     THEN [Committed(e, f) EXCEPT !.lrbc = f.len % Sect, !.ro = f.ro]
                     ELSE Committed(e, f)

\* Ghost: the byte count on disk is that of an earlier length.
CountIsStale(k, e, f) ==
    k = "bin" /\ e.lrbc # 0 /\ f.wrote /\ ~f.text /\ f.len % Sect = 0

\* The cache gives up the record of a slot that is freed.
ForgetSlot(i) == IF cache_fp = i THEN cache_fp' = NULL /\ cache_rec' = 0
                 ELSE UNCHANGED <<cache_fp, cache_rec>>

\* __close of the file in slot i.  F_CLOSE commits the FCB, F_ATTRIB purges the
\* other handles of the file, the cache forgets the slot, the slot is freed.
CloseFile(i) ==
    LET f == dfiles[i]
        n == f.name
    IN  /\ OnDisk(i) /\ f.live
        /\ dir' = [dir EXCEPT ![n] = ClosedEntry(@, f)]
        /\ dfiles' = [IF SetsCount(f) THEN Purged(n) ELSE dfiles EXCEPT ![i] = Free]
        /\ kind' = [kind EXCEPT ![n] = IF CountIsStale(@, dir[n], f) THEN "stale" ELSE @]
        /\ ForgetSlot(i)
        /\ UNCHANGED <<disk, dma, content, flen>>

\* __close of a console: just free the slot.
CloseConsole(i) == /\ dfiles[i].used /\ dfiles[i].is_con
                   /\ dfiles' = [dfiles EXCEPT ![i] = Free]
                   /\ UNCHANGED <<dir, disk, dma, cache_fp, cache_rec, ghosts>>

\* __close of a slot, whichever it is.
CloseSlot(i) == CloseFile(i) \/ CloseConsole(i)

Close(i) == /\ Running /\ i \in Owned
            /\ CloseSlot(i)
            /\ UNCHANGED control

-----------------------------------------------------------------------------
(* Calls on names.                                                         *)

\* remove, unlink.
Remove(n) == /\ Running /\ MayPurge(n)
             /\ dir[n].exists /\ ~dir[n].ro
             /\ dir' = [dir EXCEPT ![n] = NoEntry]
             /\ dfiles' = Purged(n)
             /\ content' = [content EXCEPT ![n] = NoBytes]
             /\ flen' = [flen EXCEPT ![n] = 0]
             /\ kind' = [kind EXCEPT ![n] = "none"]
             /\ UNCHANGED <<disk, dma, cache_fp, cache_rec, control>>

\* The files a handle has written that is still open.
Unclosed == {n \in Names : \E i \in OpenOn(n) : dfiles[i].live /\ dfiles[i].wrote}

\* chmod: F_ATTRIB with the R/O bit, no byte count.
Chmod(n, ro) == /\ Running /\ dir[n].exists
                /\ \/ "chmod_open" \in Usage
                   \/ "chmod" \in Usage /\ OpenOn(n) = {}
                /\ dir' = [dir EXCEPT ![n].ro = ro]
                /\ dfiles' = Purged(n)
                /\ kind' = [kind EXCEPT ![n] = IF n \in Unclosed THEN "lost" ELSE @]
                /\ UNCHANGED <<disk, dma, cache_fp, cache_rec, control, content, flen>>

\* rename: the entry changes its name and keeps its records.
Moved(f, old, new, empty) == [f EXCEPT ![new] = f[old], ![old] = empty]

Rename(old, new) ==
    /\ Running /\ MayPurge(old)
    /\ dir[old].exists /\ ~dir[old].ro /\ ~dir[new].exists
    /\ dir' = Moved(dir, old, new, NoEntry)
    /\ disk' = Moved(disk, old, new, disk[new])
    /\ dfiles' = Purged(old)
    /\ content' = Moved(content, old, new, NoBytes)
    /\ flen' = Moved(flen, old, new, 0)
    /\ kind' = [Moved(kind, old, new, "none") EXCEPT
                   ![new] = IF old \in Unclosed THEN "lost" ELSE @]
    /\ UNCHANGED <<dma, cache_fp, cache_rec, control>>

\* access, stat and utime: F_SFIRST copies the directory record of the file to
\* the DMA address, which is dma.  What stat does after that reads only.
StatProbe(n) == /\ Running /\ dir[n].exists
                /\ "probe_cached" \in Usage \/ cache_fp = NULL
                /\ dma' = AllJunk
                /\ UNCHANGED <<dir, disk, dfiles, cache_fp, cache_rec, control, ghosts>>

-----------------------------------------------------------------------------
(* The life of a program.                                                  *)

Operators == {"<", ">", ">>"}
RedirectMode(op) == [readable |-> op = "<", writable |-> op # "<",
                     append |-> op = ">>", text |-> TRUE,
                     trunc |-> op = ">", creat |-> op # "<"]

\* redirect_one opens what an operand names, a file or the console; the previous
\* one of the same direction, if any, is closed next.
RedirectOpen(op) ==
    /\ phase = "startup" /\ call = Idle /\ "redirect" \in Usage
    /\ \E i \in Slots :
          /\ \/ \E n \in Names : Sopen(i, n, RedirectMode(op))
             \/ SopenConsole(i, op = "<", op # "<")
          /\ call' = [op |-> "redirect", is_in |-> op = "<", slot |-> i]
    /\ UNCHANGED <<redir_in, redir_out, phase>>

Latched(is_in) == IF is_in THEN redir_in ELSE redir_out

\* Mutation: the first operand of a direction stays.
LatchFirst == /\ redir_in' = IF call.is_in /\ redir_in = NULL THEN call.slot ELSE redir_in
              /\ redir_out' = IF ~call.is_in /\ redir_out = NULL THEN call.slot ELSE redir_out
              /\ call' = Idle
              /\ UNCHANGED phase

Latch == /\ redir_in' = IF call.is_in THEN call.slot ELSE redir_in
         /\ redir_out' = IF call.is_in THEN redir_out ELSE call.slot
         /\ call' = Idle
         /\ UNCHANGED phase

RedirectLatch ==
    /\ call.op = "redirect"
    /\ LET old == Latched(call.is_in)
       IN  IF old = NULL THEN UNCHANGED <<dir, disk, library, ghosts>>
           ELSE CloseSlot(old)
    /\ Latch

\* The startup code has scanned the command tail and calls main.
StartMain == /\ phase = "startup" /\ call = Idle
             /\ phase' = "main"
             /\ UNCHANGED <<dir, disk, library, redir_in, redir_out, call, ghosts>>

\* main returns: __CommonRedirectClose runs next.
MainReturns == /\ Running
               /\ phase' = "closing"
               /\ UNCHANGED <<dir, disk, library, redir_in, redir_out, call, ghosts>>

\* __close_redirection: the output first, then the input.
CloseRedirOut == /\ phase = "closing" /\ call = Idle /\ redir_out # NULL
                 /\ CloseSlot(redir_out)
                 /\ redir_out' = NULL
                 /\ UNCHANGED <<redir_in, phase, call>>

CloseRedirIn == /\ phase = "closing" /\ call = Idle
                /\ redir_out = NULL /\ redir_in # NULL
                /\ CloseSlot(redir_in)
                /\ redir_in' = NULL
                /\ UNCHANGED <<redir_out, phase, call>>

\* BDOS function 0 after that.
Terminate == /\ phase = "closing" /\ call = Idle
             /\ redir_out = NULL /\ redir_in = NULL
             /\ phase' = "exited"
             /\ UNCHANGED <<dir, disk, library, redir_in, redir_out, call, ghosts>>

\* exit(): __full_io_exit is the empty stub of stubs.c in this library, and
\* BDOS function 0 comes straight after it.
Exit == /\ Running /\ "exit" \in Usage
        /\ phase' = "exited"
        /\ UNCHANGED <<dir, disk, library, redir_in, redir_out, call, ghosts>>

\* What the BDOS answers with an error message and the end of the program, in
\* the default error mode: deleting a R/O file, renaming it or onto a file that
\* exists, closing a purged FCB, writing to a R/O file.
Fatal ==
    \/ /\ Running
       /\ \/ \E n \in Names : dir[n].exists /\ dir[n].ro
          \/ HasLrbc /\ \E old, new \in Names : dir[old].exists /\ dir[new].exists
          \/ \E i \in Owned : OnDisk(i) /\ ~dfiles[i].live
    \/ \E i \in Slots : /\ Writing(i) /\ call.total < Len(call.buf)
                       /\ WriteCode(dfiles[i], dfiles[i].pos \div Sect) = "fatal"
    \/ /\ phase = "closing" /\ call = Idle
       /\ \E i \in {redir_in, redir_out} \ {NULL} : OnDisk(i) /\ ~dfiles[i].live
    \/ /\ call.op = "redirect"
       /\ LET old == Latched(call.is_in)
          IN  old # NULL /\ OnDisk(old) /\ ~dfiles[old].live

Aborts == /\ Fatal
          /\ phase' = "aborted" /\ call' = Idle
          /\ UNCHANGED <<dir, disk, library, redir_in, redir_out, ghosts>>

\* The next program is loaded: the disk is as it was left, the library's data
\* is as it is linked, and what was not closed is lost.
NextProgram ==
    /\ phase \in {"exited", "aborted"}
    /\ phase' = "startup" /\ call' = Idle
    /\ dfiles' = [i \in Slots |-> Free]
    /\ dma' = AllJunk /\ cache_fp' = NULL /\ cache_rec' = 0
    /\ redir_in' = NULL /\ redir_out' = NULL
    /\ kind' = [n \in Names |-> IF n \in Unclosed THEN "lost" ELSE kind[n]]
    /\ UNCHANGED <<dir, disk, content, flen>>

-----------------------------------------------------------------------------
(* The specification.                                                      *)

\* Calls the program makes.
UserCall ==
    \/ \E n \in Names, m \in OpenModes : Open(n, m)
    \/ OpenConsole
    \/ \E h \in Handles, buf \in Buffers : QwriteBegin(h, buf)
    \/ \E h \in Handles, want \in ReadLens : QreadBegin(h, want)
    \/ \E i \in Slots, origin \in {"SEEK_SET", "SEEK_CUR", "SEEK_END"},
          offset \in Offsets : Lseek(i, origin, offset)
    \/ \E i \in Slots : Close(i)
    \/ \E n \in Names : Remove(n) \/ StatProbe(n)
    \/ \E n \in Names, ro \in BOOLEAN : Chmod(n, ro)
    \/ \E old, new \in Names : Rename(old, new)

\* Steps of the call in progress.
LibraryStep ==
    \E i \in Slots :
        \/ QwriteRecord(i) \/ QwriteFails(i) \/ QwriteReturn(i)
        \/ QreadRefresh(i) \/ QreadRecord(i) \/ QreadMissing(i) \/ QreadReturn(i)

\* Steps of the startup code.
ProgramStep ==
    \/ \E op \in Operators : RedirectOpen(op)
    \/ RedirectLatch \/ StartMain \/ MainReturns \/ CloseRedirOut
    \/ CloseRedirIn \/ Terminate \/ Exit \/ Aborts \/ NextProgram

Next == UserCall \/ LibraryStep \/ ProgramStep

Spec == Init /\ [][Next]_vars

\* A call that was entered runs: nothing but the processor is needed for it.
FairSpec == Spec /\ WF_vars(LibraryStep \/ Aborts \/ RedirectLatch)
=============================================================================
