# TLA+ models of the CP/M-86 Open Watcom tree

The repository is a fork of Open Watcom V2 that adds a CP/M-86 target: compilers, linker,
debugger, editors and runtime libraries in C, almost all of it sequential code of other
people's long standing. What the fork adds, and what keeps state that several calls share, is
the C library of the new target (`src/bld/clib/_cpm`). What runs as two communicating
processes is the debugger and its remote servers (`src/bld/trap`). Where threads share memory
without a kernel to order them is the POSIX thread layer of the C library for Linux
(`src/bld/clib/posix`, `src/bld/clib/linux`). These three are the subject of the project.

All paths below are relative to `src/`.

## 1. Inventory

| Component | State | Operations | Interacts through | Hard part |
|---|---|---|---|---|
| Disk seam, `bld/clib/_cpm/c/diskio.c` | open-file table with FCBs, one 128-byte record buffer that is also a one-record cache, two redirected streams | `_sopen`, `__qread`, `__qwrite`, `__lseek`, `__close`, `remove`, `rename`, `chmod`, `access`/`stat`/`utime`, `dup`, `exit`, redirection at start and end, `tmpnam`, `tmpfile` | BDOS calls; the buffer is shared by every handle and by the status probes | byte lengths on record files, one cache for all handles, FCBs that go stale, purge rules, the end of a program |
| Directory scan, `bld/clib/_cpm/c/dirent.c` | a DIR per scan, one search cursor in the BDOS | `opendir`, `readdir`, `rewinddir`, `closedir` | the BDOS cursor, also moved by `stat` | two scans at a time |
| Near heap, `bld/clib/heap/c/*`, `bld/clib/_cpm/c/lowlevel.c` | a list of heap segments, a free list with a roving pointer, the break | `malloc`, `free`, `realloc`, `sbrk`, `__brk` | boundary tags in user memory | coalescing, growth, 16-bit sizes |
| Far heap, `bld/clib/_cpm/c/farheap.c` | a list of paragraphs | `_fmalloc`, `_ffree` | BDOS memory calls | release order |
| Streams, `bld/clib/streamio/c/*` | FILE buffers | `fread`, `fwrite`, `ungetc`, `fseek`, `fflush` | the disk seam | buffer position against file position |
| Startup and glue, `bld/clib/_cpm/c/{cominit,stubs,abortcpm,errnoptr,gtctmcpm,portmisc}.c` | none of its own | start of `main`, `abort`, the empty `__full_io_exit` | the disk seam | what runs before BDOS function 0 |
| CP/M-86 load file writer, `bld/wl/c/loadcpm86.c` | none | writes the `.CMD` header and groups | the linker's group list | paragraph arithmetic |
| Serial trap link, `bld/trap/ser/c/serlink.c` | block counters, last response, error count on each side | `RemoteConnect`, `RemotePut`, `RemoteGet`, `RemoteDisco` | bytes on a serial line, both ways | lost and damaged bytes, answers without a number, timeouts, resynchronisation |
| Trap request loops, `bld/trap/common/{remote,servacc,packet}.c`, `bld/trap/ser/c/serv.c` | the request in progress | `DoRequest`, `Session` | the link below | who waits for whom |
| Other trap links, `bld/trap/{tcp,net,nmp,nov,par,vdm,win,dqv,lcl}` | connections | the same interface | sockets, pipes, parallel port | the parallel handshake |
| POSIX semaphores, `bld/clib/linux/c/{sem_init,sem_wait,sem_post,__futex}.c` | two words in user memory, `value` and `futex` | `sem_wait`, `sem_timedwait`, `sem_trywait`, `sem_post`, `sem_destroy` | compare-and-swap, `FUTEX_WAIT`, `FUTEX_WAKE` | lost wake-ups, lost permits |
| POSIX synchronization, `bld/clib/posix/c/{ptmutex,ptcond,ptbar,ptrwlock,ptonce}.c` | mutex: a semaphore and an owner; condition: two semaphores and a count; barrier, read-write lock, once: a mutex and a count or a flag | lock, trylock, unlock, destroy, wait, timedwait, signal, broadcast, barrier wait, the read-write locks, once | the semaphores; each other | permit against owner, wake-ups lost or left over, signallers that spin with a lock held |
| POSIX threads, `bld/clib/posix/c/{_ptint,ptcreate,ptexit,ptjoin,ptdetach,ptcancel,ptclean}.c` | the catalog: a linked list of heap blocks, and the running mutex of each thread | create, register, join, detach, cancel, testcancel, cleaners, exit, remove | the catalog semaphore, the running mutexes, the heap, thread ids | walks of the list without a lock, a head stored without a lock, reused ids, early returns |
| Compilers, linker, assembler, make, debugger, editors, help tools, other libraries | large, sequential | | files | |
| `contrib` | third-party and upstream material | | | |

`contrib/ravn/watcom-cpm86-libc/port/diskio.c` is another copy of the disk seam that differs in
places (among them a search for the handle that writes a file, `find_open_writer`, against the limit that
the configuration `MCFlushes.cfg` shows); the model is of `bld/clib/_cpm/c/diskio.c`.

### What makes each component correct

*Disk seam.* The buffer holds the record the cache says it holds. Bytes written through one
handle are neither lost nor changed by read-modify-write of whole records on behalf of another.
A read delivers the bytes at its position. The length the library tracks in bytes is the length
a later open computes from records, Ctrl-Z padding or the last record byte count. An append
handle never overwrites. A reader sees what another handle has put into the records it can reach. The
table never refers to a free slot. What the program wrote to a redirected stdout is in the
directory when it has ended. Every call returns.

*Directory scan.* A scan yields every name once, whatever else runs.
*Near heap.* Blocks do not overlap, the free list covers exactly what is free, a growth never
enters the stack. *Streams.* The bytes read and written through a FILE are those of a byte file
under it.

*Serial link.* What `RemotePut` reports as sent was handed to the peer's program; blocks arrive
once and in order; a request is answered; the two sides do not wait for each other for ever.

*Semaphores.* They count: a permit is taken once, none is lost, and none lies idle while a thread
waits. *Synchronization.* A mutex has one holder and is not lost when it has none; a writer is
alone; a signal wakes a thread that waited before it, a broadcast all of them; a barrier lets
exactly its limit of threads go on, and opens; the once routine has ended when anybody returns.
*Threads.* A join returns after the thread and its cleaners, and does return; the catalog lists the
threads that live, whatever the order in which they come and go.

## 2. Plan

1. `Bdos`, `DiskIO`, `DiskIOProps` with instances in `MCDiskIO`: the disk seam and the life of a
   program. **Done.**
2. `DiskIOProofs`, `CacheProofs`: types, table, cache coherence for every size. **Done.**
   `ContentProofs`, `LengthProofs`: bytes, handles, lengths, appends, short reads, committed output.
   **Done.**
3. `SerLink`, `SerLinkProps`, `MCSerLink`: the serial link with the request loops. **Done.**
   `SerLinkProofs`: its types, `RepeatsAcks`, in-order delivery and matching replies for every line,
   delivery and the refinement of `ReliableLink` for one fault at a time. **Done.**
4. `Semaphore` over the futex word, `CountingSemaphore` as what it implements, with the proof.
   **Done.** `PtMutex` and `PtSync` over such semaphores, `Barrier` as what the barrier implements,
   with the proofs. **Done.** `PtThread`: threads and their catalog, with the proofs. **Done.**
5. `ByteFile`: the byte file that `__qread`/`__qwrite` promise, and `DiskIO` shown to implement
   it for one handle per file (refinement mapping: the ghosts `content` and `flen`).
6. `Near heap`: `mem.c`, `nmalloc.c`, `nfree.c`, `grownear.c` over `lowlevel.c`, against a set of
   disjoint intervals.
7. `SearchCursor`: `dirent.c` and the status probes over the BDOS cursor.
8. `Streams` over `ByteFile`.
9. `tmpnam`/`tmpfile` as further actions of `DiskIO`; `loadcpm86.c` as operators.
10. Proofs: the refinement of `ByteFile`; the interval invariant of the heap.

Items 5 to 10 are open.

## 3. The disk seam

### Modules

* `Bdos`: what the library needs of CP/M. An entry of the directory has a record count, the set
  of written records, the R/O attribute and the last record byte count. An FCB takes a copy of
  the record map when it is opened, `F_WRITERAND` extends the copy, only `F_CLOSE` puts it in the
  directory. `F_DELETE`, `F_RENAME` and `F_ATTRIB` purge the FCBs other handles have on the file.
  The BDOS is not in this repository; the module follows the Concurrent CP/M-86 reference text
  under `contrib/ravn` and the calls in `diskio.c`, and its definitions are marked external.
* `DiskIO`: the seam. Variables keep the source's names: `dfiles` (a slot holds the fields of
  `dfile_t` and of its FCB), `dma`, `cache_fp`, `cache_rec`, `redir_in`, `redir_out`. `call` holds
  the locals of the call in progress, `phase` the part of a program's life, `dir` and `disk` the
  disk. `content`, `flen` and `kind` are ghosts: the byte file the program believes in.
* `DiskIOProps`: the properties. `MCDiskIO` with its configurations: the instances.

### Correspondence

The library is single-threaded, so a call is one action, with two exceptions. `__qread` and
`__qwrite` take one step per record, so that a disk that fills up and an end of file meet them
half-way; the startup takes one step per redirection operand. One step of `QwriteRecord` is one
turn of the loop in `__qwrite`: `load_record`, merge, set the cache, `F_WRITERAND`, move `pos` and
`len`. `QwriteFails` is the turn that leaves the loop. `QreadRefresh` is the re-derivation of the
length at `pos >= len` (once per call), `QreadRecord` a turn of the loop, `QreadMissing` the turn
that meets no record. `Sopen` has a disjunct per path of `_sopen`; the scan `FirstFree` decides
the slot; `SopenConsole` is its path for `CON`, which takes a slot and asks the BDOS for nothing.
`CloseFile` is `__close` of a file with `F_CLOSE`, `F_ATTRIB`, the purge it causes, the release of the
cache and of the slot; `CloseSlot` is the whole of `__close`, for a file or a console, as the program,
the latch and the end of the program call it. `StatProbe` is `stat_probe`, the common part of
`access`, `stat` and `utime`: a search that lets the BDOS copy a directory record to the DMA
address. `RedirectOpen` and `RedirectLatch` are `redirect_one`, whose operand may name
a file or `CON`; `CloseRedirOut` and `CloseRedirIn`
`__close_redirection`, `Exit` is `exit()` with the empty `__full_io_exit` of `stubs.c`. `Aborts` is
the BDOS ending the program on an error in its default error mode. `NextProgram` loads another
program: the disk stays, the library's data starts afresh.

Calls that fail and change nothing are left out (no such file, table full, wrong mode), since
they are stuttering steps. One failure that does change the disk is left out too: an `F_MAKE` that
finds no room in the directory right after the `F_DELETE` of a truncating open (the old file is then
gone). Consoles are slots without a file. A buffer of `Junk` stands for a
directory record, or for what a record reads as that was never written.

Abstracted: names are model values (`name_to_fcb` is layout), payload bytes are a small set plus
Ctrl-Z. Newline translation is not in this layer: `__qread`/`__qwrite` pass bytes through. A text
write has no Ctrl-Z in it (`Legal`), which is what a text file is.

### Uses of the library

`Usage` says what the program does, and every run names its uses. The split is not a way around
failures: a run that lacks a use says so, and the configurations of the second table switch on the
use that breaks a promise. `purge_open` and `chmod_open` (deleting, renaming, truncating or chmoding an open
file) are only meaningful where the BDOS keeps FCB checksums, which plain CP/M-86 does not, hence
the assumption that they need `HasLrbc`.

### Runs that pass

| Run | Instance | Question |
|---|---|---|
| `binary` | one file, one slot, 2 records of 2 bytes, r/w/a/r+ binary, byte count | does the byte file survive read-modify-write, seeks, close and reopen? |
| `plain` | the same size, text and binary, no byte count, gaps, consoles, chmod | is the length that open computes the length that was written? |
| `names` | two files, two slots, 1 record, remove, rename, truncate and chmod of open files | does a purged handle or a reused slot touch the wrong file? |
| `shared` | two text files, two slots, writer and readers | does the one buffer follow the writer; do appends keep what readers may see; does a reader get every byte it can reach? |
| `program` | two files, two slots, `<`, `>`, `>>` with files and `CON`, programs one after the other that return or call `exit()` | are the streams right, does a return from `main` commit the output, does every call return? |

Bounds and why they are enough. A record of two bytes has an inside and a boundary, so partial,
full and crossing transfers all occur; two records give a first and a last one, and the position
bound 5 (one past the disk) lets a seek and a full disk occur. One slot is enough where the
question is the byte file; two where it is the sharing of the buffer, since the cache holds one
record of one slot. The payloads are two bytes (in `names` and `program` one). `names` and
`shared` use the symmetry of the two file names; neither has a liveness property.

### Where the code breaks a promise

| Configuration | Property | What it shows |
|---|---|---|
| `MCProbeCached.cfg` | `CacheCoherent` | `stat_probe` lets `F_SFIRST` write to `dma` and leaves `cache_fp`; the comment on `cache_rec` says "which record is in dma (valid iff cache_fp)" |
| `MCStaleCount.cfg` | `WholeRecordsNeedNoCount` | `__close` sends no byte count for a length that is a multiple of 128 ("already record-exact, so nothing to record"); the count of an earlier, partial length stays, and the next open takes the file for shorter |
| `MCRounded.cfg` | `BinaryReadsBackRounded` | the comment in `disk_len` says that the write path "does NOT yet transmit an LRBC on close, so a binary file WE wrote reads back record-rounded even here", and that on the redirection says the same; `__close` does send it, and the file has its exact length |
| `MCExit.cfg` | `ExitCommits` | `exit()` "Flush + close every open FILE* first (via `__full_io_exit`)"; that function is an empty stub, so a redirected stdout never reaches the directory |
| `MCFlushes.cfg` | `FlushedBytesSeen` | a pure reader re-derives its length "so it sees data another handle flushed (one "w" + one "r" handle on the same file, reader must see the flushed byte)"; `F_SIZE` and the reader's FCB know of a new record only when the writer has closed |
| `MCSharedCount.cfg` | `ReadersFollow` | in a record the reader does have: `disk_len` adds the byte count that was captured at its open, so a binary reader stops at the old length |
| `MCClosePurges.cfg` | `ReadersFollow` | the `F_ATTRIB` with which the writer of a shared binary file sends its byte count purges the reader's FCB, and the next read ends |

These configurations are run by hand (section 7); each shows one defect, or one comment that is out of
date, in the smallest program that has it. The run list of `PROJECT.json` has the violations that take
several actors (`link_answers`, `join_hangs`). The passing runs leave out the uses concerned and say
so, or state the property so far as it holds: `LengthDurable` bounds what a stale count takes (less than a record), `ReturnCommits` is
about a return from `main` while `exit()` remains switched on, `ReadersFollow` is about the records a
reader can reach.

### Deadlock and fairness

Deadlock is checked in every run: a program can always return from `main`, and another is loaded.
`CallsReturn` is checked under `FairSpec`: weak fairness of the steps of a call that was entered
(its loop turns, its end, the latch of a redirection, the end of the program by the BDOS). The
code waits for nothing but the processor and BDOS calls that return.

### Properties

`CacheCoherent` relates the cache to the disk. `ContentOnDisk` and `ReadsMatch` relate the disk
and what is read to the ghost byte file. `LengthTracked`, `LengthDurable`,
`WholeRecordsNeedNoCount` and `BinaryReadsBackRounded` relate `len`, and the length the next open would
compute, to the ghost length. Of files written in both modes (`mixed`) and of files whose handle was
purged, or never closed, with unwritten data (`lost`) the properties say nothing. A file under a
count that is out of date (`stale`) falls short of its length, by less than a record; that it falls short
at all is what `MCStaleCount.cfg` shows. `AppendNeverOverwrites` and `ShortReadsOnlyAtEnd` are about steps.
`ReadersFollow` relates a read that stops to what another handle has written since: the reader must not
stop before a byte in a record that its own FCB and `F_SIZE` know. Records beyond that are out of
its reach by the BDOS's rules, which is what `MCFlushes.cfg` shows of the comment's promise. `TableConsistent`,
`ReturnCommits`, `ExitCommits` and `CallsReturn` are about streams and programs. A stream is a slot in
use, with a file or, after `>CON`, without.

### What is proved

For every `DiskMax`, `Sect`, `NRecs`, set of names, modes, buffers, lengths and offsets, from the
assumptions `BdosAssumption` and `DiskIOAssumption`:

* `TypeCorrect` and `StreamsOpen` (`DiskIOProofs`): `TypeOK` and `TableConsistent` always hold,
  with operands that name files and operands that name `CON`.
  They are proved together, since the types of the redirection steps need that a stream names a
  slot in use, and that it does needs the types. One lemma per group of actions, one step
  per action.
* `CacheCorrect` (`CacheProofs`): if the program makes no status probe with a record cached and
  does not purge open files (`Disciplined`), `CacheCoherent` always holds. `CacheCoherent` alone is
  not inductive. A write through another handle of the same file would change the disk behind
  the cache; `CacheInv` therefore adds `HandlesSound` (files that are open exist, a writing handle
  has a live FCB, and it is the only writer of its file) and `WriterWritable` (the handle of the
  write in progress may write). The case of a handle that writes while another slot has a record
  of the file cached is the heart of the proof: the write reloads the buffer for its own slot,
  so the claim moves with it. The exclusion of `probe_cached` is necessary:
  `MCProbeCached.cfg` has the counterexample.

* `ContentPreserved`, `ReadsTrue` (`ContentProofs`): without `probe_cached`, `ContentOnDisk` and
  `ReadsMatch` always hold; deleting, renaming and changing open files is allowed here. The inductive
  invariant is `ContentInv`. `HandlesOk` in it says what an open FCB knows of its file: only a write
  makes it know more than the directory, only the close of another handle makes it know less, and
  a handle that may write is never behind. `BufferOk` is `CacheCoherent` for handles that are good,
  with the record of the cache among those the FCB has; it is what a load that fails on a purged
  handle leaves true, and what the earlier `CacheInv` had to exclude.
* `ReadersCatchUp` (`ContentProofs`): `ReadersFollow` holds if the program leaves the names and
  attributes of open files alone and, where there are byte counts, opens text files only. Under these
  conditions no handle goes bad (`LiveInv`); `Blocked` says where a read stands whose loop has ended
  early: at a Ctrl-Z, or at the end that was derived from the disk in this very call, or where
  its FCB has no record. Since the byte before which it would stop is in a record that the directory counts,
  the end it derived lies behind that byte, whichever handle put it there. That the condition on binary
  files is needed is shown by `MCSharedCount.cfg` and `MCClosePurges.cfg`.
* `LengthsLast`, `LengthsTracked`, `AppendsAtEnd` (`LengthProofs`): by `LengthInv`, which adds to
  `ContentInv` what records say of a length in bytes: the record count of the entry, or of the
  FCB of the writer, is the smallest that holds the length, and the last record of a text file is
  Ctrl-Z from there on (`Extent`); the byte count of the entry gives the length of a binary file that
  nobody has written (`CountOk`), a stale count only a place in the last record of a file of whole
  records (`StaleOk`); `len` is exact for a handle that nobody can write behind
  (`LenOk`), and only bounded where there are no byte counts. That a read of a text file finds its
  end in the padded record, whatever else is in it, is the lemma on `TextEnd`. `LengthsLast` says nothing of
  files that are `mixed` or `lost`, and of a `stale` one that it loses less than a record. `AppendsAtEnd` is
  about an append handle that is the only writer of its file; who else reads the file is
  arbitrary (`shared` is not excluded).
* `ReadsEndAtEnd`: by `Stopped`, which says where a read stands whose loop has ended early.
* `OutputCommitted`: a return from `main` commits (`ReturnCommits`), whatever this or an earlier program
  did, calls of `exit()` included. It is a statement about the last step of a program (`ReturnSteps`):
  both streams are closed, and by `Extent` a file without a writer has all its bytes in the directory.

The hypotheses exclude what the code really breaks. `probe_cached`: the counterexample is
`MCProbeCached.cfg`. `shared`, in `LengthsTracked` and `ReadsEndAtEnd` only: a reader's `len` is that of
its open, and stays when the writer of the file appends. `purge_open`, `chmod_open` and shared binary files, in
`ReadersCatchUp` only: see there. `mixed` and `lost` files are excepted in the properties
themselves.

Only model-checked: `CallsReturn`, a liveness property and so out of the prover's reach.

## 4. The serial trap link

### Modules

* `SerLink`: both sides of the link with the loops above it. `pc` says where a side is: in
  BlockSend (`sending`, or `discarding` what it cannot make sense of), in WaitReceive
  (`receiving`), in ReSync (`resync_put`, `resync_get`), with its program (`idle`, `exec`), or out of
  the session (`off`, `listening`, `failed`). `SendBlkNo`, `ReceiveBlkNo`, `LastResponse` and
  `Errors` are the statics of `serlink.c`, one of each per side. `wire` is a queue of tokens each
  way: a block, an answer (ACK, NAK, RLR), a damaged block, noise. `puts`, `acked` and `got` are
  ghosts: blocks handed to BlockSend, those it returned true for, those RemoteGet returned.
* `ReliableLink`: the abstract specification. Each direction takes a block, delivers it once,
  and only then confirms it.
* `SerLinkProps`: the properties and the refinement mapping. `MCSerLink`: the instances.

### Correspondence

`StartSend` is BlockSend up to its wait, `SendAcked`, `SendRefused`, `SendAsked`, `SendConfused`,
`SendWaited` and `GiveUp` are the branches on the reply; `SendAcked` and `GiveUp` include what
RemotePut and its caller do next. `ReceiveBlock`, `ReceiveOther` and `ReceiveBad` are the exits of
BlockReceive, `ReceiveBlock` with the rest of RemoteGet; `ReceiveAsked` and `ReceiveJunk` are the
other turns of WaitReceive. `DoRequest` is the client's request, `Session` what the server does
after the request ran. A block's data is left out, and a damaged token is told apart only as far
as the code does: a block that fails the CRC or its inner timeout (NAK), one whose length became
larger than the buffer (no answer), bytes that are nothing. That noise looks like an ACK is
outside the fault model. RemoteConnect's own exchange and the negotiation of the speed are one
step without faults.

Time. A wait ends without data only when nothing is on its way and the peer is not about to
answer (`Quiet`); the wait of BlockSend (1 s) is longer than the silence a discarding peer looks
for (750 ms), so the peer goes first (`Waited`). A program that is away from the line may stay away
as long as it likes unless `Prompt` holds; `Patience` is the number of waits in the ten seconds of
RemotePut. `Late` says that bytes may still be on their way when ClearCom drops what has arrived.
`Errors` saturates above `MaxErrors`, since the code only compares it with that.

### Runs

| Run | Instance | Question |
|---|---|---|
| `link_single` (pass) | any one fault (a block or an answer lost or damaged) between two rests of the line, programs back within a second, `MAX_ERRORS` = 2 as in the code | does BlockSend repair it: delivered exactly once before it is confirmed, every request completed, no deadlock? |
| `link_noisy` (pass) | two faults at a time, programs away, give-ups, resynchronisation | is a block ever handed up twice or out of order, a reply taken for another request's? |
| `link_answers` (violation) | two answers lost | `AckedDelivered`: RLR is answered by the ACK of an earlier block |
| `MCLinkWrap.cfg` (violation, by hand) | counters wider than the number on the wire, no faults | `AckedDelivered`: "0 thru 65535, wrapping" does not hold of a 32-bit `unsigned` |

Bounds. Sessions have four or five requests, more than the three block numbers, so that numbers
wrap and are reused within a session; sessions follow each other without bound. Faults are counted
between rests (`AtRest`: nothing on the line, the server waiting), so a session has many of them.
`Patience` 0 in `link_single` is the assumption "back within a second" and no other; with
longer requests that want no reply, queued RLRs make duplicates that break the promise even on a
perfect line (see the hazard at `serlink.c:549`).

Deadlock is checked in `link_single`. In `link_noisy` and the violations two sides that wait for
each other, or a client that has given up, stop for good, as the code does.

Fairness. `FairSpec` has weak fairness of the link steps of each side, of the server's work on a
request (`Session`) and of `ReSync`. It asks nothing of the user or of the line. The code justifies
it: both loops poll without an end, and the server program runs a request it has taken.

### Proofs

`SerLinkProofs` proves, for every width of the counters, error limit, patience, fault model and
pair of programs:

* `LinkTypesCorrect`: `Spec => []LinkTypeOK`, from the inductive `LinkTyped` (what may stand on
  the lines, and that a side in BlockSend has a block).
* `AlwaysRepeatsAcks`: `Spec => []RepeatsAcks`. The statement is not inductive, since a side goes
  from its program to BlockSend without another answer; `HasAcked` says it of the program and of
  ReSync too.
* `InOrderUntilReuse`: `Spec => [](NoReuse => InOrderOnce)`. `NoReuse` says that neither the
  counters nor the sixteen bits on the wire have come round in this session; that a number
  returns while an old copy is under way is what the code does not exclude (`MCLinkWrap.cfg` and
  `link_noisy` explore sessions in which they do). The inductive invariant `Ordered` speaks of
  everything a peer can still receive (`Carried`: the blocks on the line and the one that may be
  sent again): a larger number means a later block (`Numbered`), and whatever still has a number
  the peer will take is later than all it has handed up (`HandedUp`). It needs no assumption
  on faults: a stale answer makes BlockSend skip a block, so blocks may be lost, but a block that
  is given up leaves its number to a later one.

* `InOrderInSessions`, `RepliesMatchInSessions`: `ShortSessions => (Spec => []InOrderOnce)` and
  `ShortSessions => (Spec => RepliesMatch)`. `ShortSessions` bounds the requests of a session by the
  number of block numbers: fewer than 65535, and fewer than the counters have values. There the
  condition `NoReuse` is met (`ShortNumbers`), since the server sends at most one block for each
  request (`Counted`). `Conversing` relates the two directions: a reply that the client can still take
  answers its last request (`ReplyAwaited`), the replies to one request have one number (`OneReply`)
  and are to requests that the server has taken (`ReplyLater`), a request that the server can still
  take is one it has not seen (`RequestNew`), and only the last `call` can be that (`CallPending`).
  No assumption on faults, errors or give-ups is made. Longer sessions are only model-checked (`link_noisy`, in
  which numbers come round).
* `SingleFaultDelivers`, `SingleFaultReliable`: `OneFault => (Spec => []AckedDelivered)` and
  `OneFault => (Spec => ImplementsReliableLink)`. `OneFault` says what `link_single` assumes, without
  its bounds: at most one fault between two rests of the line, at least the two errors of the code
  before a ReSync, programs that are back before the first wait ends, more than one block number,
  and counters that fit the wire or short sessions. Kinds of faults, lengths of sessions and requests, and
  whether bytes arrive late, are arbitrary. The promise itself is far from inductive. `Repairing`
  lists the shapes an exchange goes through: `Resting`; `NewBlock` (not taken yet), `DoneBlock` (taken,
  not acknowledged), `BothSend` (the receiver has gone on to send its own block), each with
  what is on the two lines (`NewLine`, `DoneLine`, `BothLine`) in the undisturbed exchange and in
  each state of its repair; `Ended`. `Fault(x, n)` in a shape says that the fault has been spent and that
  the sender has counted no more than n errors since, which bounds the errors by two (`FewErrors`), so
  that a ReSync never begins. `HasAcked` says what `y` repeats when it is asked in `BothSend`: an ACK. A lemma for each shape and side says which
  steps it can make (`Dispatch`) and where they lead. The refinement maps `StartSend` to `Submit`,
  `ReceiveBlock` to `Deliver`, `SendAcked` to `Confirm` and `RemoteConnect` to `Reset`; every other
  step, all of the repair, stutters. The hypotheses are needed: `link_answers` has the counterexample for two
  faults, `MCLinkWrap.cfg` the one for counters that do not fit, and the hazard at `serlink.c:549` is what
  happens to programs that stay away.

Only model-checked: `RequestsComplete`, a liveness property and so out of the prover's reach.

## 5. The POSIX thread layer

### Modules

| Module | Models | Rests on |
|---|---|---|
| `Semaphore` | `sem_t`: every access to `value` and `futex`, every futex call | the processor and the kernel |
| `CountingSemaphore` | what a semaphore promises | |
| `PtMutex` | `pthread_mutex_t`: a count and an owner | the count that `Semaphore` implements |
| `PtSync` | conditions, barriers, read-write locks, once, and the program that calls them | `PtMutex`, which it extends |
| `Barrier` | what a barrier promises | |
| `PtThread` | create, join, detach, cancel, cleaners, exit over the catalog | mutual exclusion of the running mutexes (`Exclusion`) and of the catalog semaphore |

`SemaphoreProps`, `PtSyncProps` and `PtThreadProps` hold the properties and the refinement mappings.

### Correspondence

*Semaphore.* `at` is the place of a thread in the function `fn` it has called. `ReadValue` and
`CompareAndSwap` are `__decrement_if_positive`, `TestValue` the second look at the value, `FutexWait`
the system call, in which the kernel compares and enqueues in one step. `Timer` is the 100 µs limit
of `sem_wait`, `Deadline` that of `sem_timedwait`, asleep or not. `Rearm` and `Arm` are the test and
the swap of the futex word after a decrement, `Post`, `Add`, `FutexWake` and `Disarm` the four steps
of `sem_post`. `sem_trywait` is the two tries its code makes, the second without `Rearm`.
`sem_destroy` is a `sem_trywait`. `raced` is a ghost.

*Mutex.* `Lock`, `LockWait`, `LockOwn` are the tests, the `sem_wait` and the swap of `owner` in
`pthread_mutex_lock`; trylock, unlock and destroy are divided alike. Only the thread `t` makes or
ends `owner = t`, and `DESTROYED` stays, so the several reads of `owner` before the semaphore are one.
`back` is where a mutex function returns to: the objects above call it in the middle of their own.

*Condition, barrier, read-write lock, once.* A step per semaphore call and per access to a word that
other threads use; words that only change with the mutex held change in the step in which they are
tested. `SignalEnter` to `SignalLeave` are both `pthread_cond_signal` and `pthread_cond_broadcast`,
which differ in where `sig_spin` goes on. `Call` is the program: it calls any function at any time,
within the contract (a wait with the mutex held, an unlock of a read-write lock that the thread has).
The behaviours have one object of one kind each. `has`, `phase` and `runs` are ghosts: what the caller
believes to hold.

*Threads.* `node` are the heap blocks, `head` is `__ptcatalog`, `Nth` the list. A section under the
catalog semaphore is one step, guarded by `sem > 0`: all its code is between a `sem_wait` and the
`sem_post`. `__get_thread`, which takes no lock, is a step per block (`Walk`); so are the end of
`__remove_thread`, after its section (`RemoveCut`, `RemoveFree`, `RemoveHead`), and the store of the
head by `__unregister_thread` (`RemoveStore`). The paths that return from inside a section take the
permit with them (`LosesPermit`). `Create` to `CreateEnd` are `pthread_create`, `Register` to
`StartPost` `__thread_start`, `JoinGet` to `JoinEnd` `pthread_join`, `ExitClean` to `End`
`pthread_exit`. `Faults` lets `clone` and `malloc` fail.

Abstracted: the registration of the main thread is the initial state; `waiters` is left out, since
nothing reads it, and so is the return value, since nothing sets it; a freed block keeps its link and
loses its id to the heap; a block that was never used is taken in a fixed order, since they are alike.
The test for `PTHREAD_CANCEL_ENABLE` cannot fail and the asynchronous path of `pthread_cancel` cannot
be taken: `pthread_setcancelstate` and `pthread_setcanceltype` return `EINVAL` for every argument.

### Runs

| Run | Instance | Question |
|---|---|---|
| `sem` | three threads, initial value 0 or 1, posts below 1, any calls without end | does the futex code count; does a permit lie idle while a thread waits? |
| `sync` | three threads; a mutex of each type, a condition, a barrier of 2 or 3, a read-write lock, a once control | exclusion, permits, wake-ups, rounds of the barrier, the end of the once routine |
| `threads` | main and two others at a time, two threads created, four blocks, one cleaner, failures of `clone` and `malloc` | does a join wait for the thread and its cleaners; is the catalog intact; does a join return? |
| `join_hangs` (violation) | the same without failures and cleaners | `JoinsReturn`: a join of a thread that has ended hangs |

Bounds and why they are enough. Three threads: one that takes, one that gives and one that comes
between. A barrier of two with three threads has a thread that starts the next round while the last
one ends; calls are not counted, so rounds go on. A semaphore posted only below 1 takes the values 0
to 3, since three posters may pass the test together. Two creations give two threads side by side,
or one id used twice; four blocks are one more than are ever in use, so that a freed block can stay
free or be used again.

Deadlock is checked in `sem`: somebody can always call or time out. In `sync` a program can block itself
(a relock of a normal mutex, a wait that nobody signals), in `threads` a failed call keeps the
catalog semaphore: these systems do stop.

Fairness. Weak fairness of the steps of each thread inside a function: the kernel schedules runnable
threads, the timers expire, a spin with `sched_yield` goes on. No thread need call anything, and no
semaphore is fair: that a given thread gets a permit others take again and again is not promised, and
no property asks for it.

### Properties

`ImplementsCountingSemaphore` and `ImplementsBarrier` are refinements. `PermitsTaken` is about the lost
wake-up: `sem_post` wakes the sleepers and only then turns `futex` to 0, so a thread that goes to sleep
between the two sleeps although there is a permit; the limit of the sleep repairs it. Without `Timer`
the property fails. `NoStrayWakeup` and `BroadcastWakesAll` speak of the count of waiters at a moment at
which the signaller spins. `BarrierOpens` is the absence of a deadlock between the signaller, which
spins with the barrier's mutex held, and the threads it wakes, which need that mutex.
`CatalogIntact` relates the list to the heap. `JoinAfterExit` relates the place of the main thread to
that of the thread it joined, whose id may be in use again (`ended`).

`JoinReturns` has two exceptions, and both are the code's. A failed call keeps the catalog semaphore.
And a thread that ends may not find itself: its walk of the catalog takes no lock, so it can stand on
the block of a detached thread at the moment at which that block loses its link or is freed. It then
ends without the unlock that, in the words of `ptexit.c`, is to "release any joins", and its join
hangs. The run `join_hangs` states the promise without exceptions (`JoinsReturn`), for a system in which
no call fails, and TLC shows the hang: two threads, the first detached, the second on its block as it is
removed.

### Other things the model shows

* `sem_timedwait` compares what `__futex` returns with `-ETIMEDOUT`, but `__futex` returns -1 and sets
  `errno`. The time limit never ends the wait; `SemTypeOK` has it (no thread is ever in the place
  `timedout`), and `pthread_cond_timedwait` waits for a signal.
* `sem_trywait` may be refused although there is a permit, when it loses both its swaps to others.
* `pthread_mutex_trylock` calls `sem_wait`: between its test and the semaphore it can block.
* A lock that meets a mutex just destroyed keeps the permit (`LockOwn`), and `pthread_mutex_destroy` can
  then return an error for a mutex that it has destroyed.
* `pthread_create` waits for ever when `_beginthread` fails.
* A joined thread stays in the catalog. A later thread with its id finds the old entry first, with its
  cleaners, its request for cancellation and its detached flag.
* A join of the main thread returns at once: its running mutex is never locked.

Outside the models: `pthread_create` frees the semaphore that the new thread's `sem_post` may still be
in (memory after `free` is not modelled); `pthread_barrier_destroy` frees a barrier that a late waiter
may still be leaving; the spin lock of `ptspin.c` waits while the swap succeeds; a `malloc` of the
running mutex that fails while a thread registers.

### Proofs

For every set of threads, initial value and limit, from `SemaphoreAssumption`, `OwnerAssumption` and
`SyncAssumption` (the set of threads is finite, the limits are natural numbers):

* `TypeCorrect` and `SemaphoresCount` (`SemaphoreProofs`): `Semaphore` implements `CountingSemaphore`. The
  types alone do not give the refinement: what a thread has read must be positive while it is about to
  swap, and a thread that is in its last try has met no permit or a change (`SemInv`). Each step of the
  code is one step of the count or none.
* `NoStray`, `AllWoken` (`PtSyncProofs`, as the next three): by `CondInv` (the section between `clear_block`'s wait and post
  has one thread; a permit in `wait_block`, or the one thread that has taken it, belongs to a
  signaller whose `reg` is still the count) and `CountInv`: `waiters` is the cardinality of the
  threads between their increment and their decrement. The second is why a broadcast that
  reads 0 has left nobody.
* `SyncTypes`, `Excludes`, `KeepsPermit`: by `LockInv`, which says for each place in the code
  who has the permit. `Permit` is the heart: a thread between semaphore and owner, the owner, or the
  thread that a destroyed mutex is left with; there is at most one, and `sem` is 0 then.
  `ReadInv` bounds the readers by the count from below: unlocks that go wrong correct it upwards only.
* `BarrierImplemented`: `PtSync` implements `Barrier`, for any limit and any number of
  threads. `BarInv` adds to the two invariants that while nobody opens the barrier `count` is the
  number of threads that wait, and that while somebody does, nobody is waiting for a round to come.
* `RunsOnce`: by `OnceSafe`. The routine runs with the mutex held and before `executed` is
  set, so the thread in it is alone (`OnceAlone`); while nobody is in it, it has run as often as
  `executed` says.

* `ThreadTypes`, `CatalogListed`, `JoinsWait` (`PtThreadProofs`), from `ThreadAssumption` (the heap is
  finite), for any number of threads, blocks, cleaners and creations, with or without failing calls. The
  inductive invariant `ThreadInv` was checked by TLC on the instance of the run `threads` first.
  * The list is a function `s` from 0 .. n - 1 to blocks without a repetition, linked to the end
    (`IsList`); `CatalogInv` says that there is one and that it has the blocks in use but for those
    that a thread has unlinked and not freed. `Nth`, a recursive function, follows it (`NthOfList`):
    the step from k to k + 1 is made with the least element of the set of places where it would
    not (`Least`, `Induction`). A list is never longer than the heap (`ListLength`, by the pigeonhole
    principle), so `Listed` and `Places` see all of it. `RegisterList`, `CutList` and `RemoveList` give
    the function after a step; `Changes` says what a step does to the entry of any thread: nothing,
    unless it registers or is removed.
  * The store of the head without the semaphore is harmless because the first block is that of the main
    thread, which is never removed: the head never changes. `CatalogInv` has this as
    `node[head].tid = Main`.
  * `JoinInv` says that a thread that may be joined has its running mutex locked or is past its unlock
    (`Good`), from before its creator learns its id (`Promised`) to the return of the join (`Joined`).
    `StartInv` gives the first: one thread starts at a time. `MutexInv` keeps the running mutexes apart.
  * `DueInv` follows the cleaners from the entry to the list that `pthread_exit` runs. It is an
    inequality, because a thread with a reused id may find in its entry more than it pushed: the
    entry of the earlier thread, with its cleaners.

Only model-checked: `PermitsTaken`, `BarrierOpens` and `JoinReturns`, which are liveness properties.

## 6. Not modelled

Of the disk seam: `name_to_fcb` and the other string layout; `isatty`, `tell` and the `iomode`
registration, which keep no state of the seam; `tmpnam` and `tmpfile` (planned). Of the thread
layer: what section 5 names. The directory scan, the heaps and the streams (planned); the compilers,
tools, other libraries and test suites, which are sequential programs of a size that no model of
useful depth covers; the other trap links; `contrib`. `PROJECT.json` has a line for each.

## 7. Running

    tlc -config MCBinary.cfg MCDiskIO        MCPlain MCNames MCShared MCProgram
    tlc -config MCLinkSingle.cfg MCSerLink   MCLinkNoisy
    tlc -config MCSemaphore.cfg MCSemaphore
    tlc -config MCPtSync.cfg MCPtSync
    tlc -config MCPtThread.cfg MCPtThread

    tlc -config MCLinkAnswers.cfg MCSerLink                            (violation)
    tlc -config MCJoinHangs.cfg MCPtThread                             (violation)
    tlc -config MCProbeCached.cfg MCDiskIO   MCStaleCount MCRounded MCExit MCFlushes
                                             MCSharedCount MCClosePurges         (violations, not in PROJECT.json)
    tlc -config MCLinkWrap.cfg MCSerLink                               (violation, not in PROJECT.json)

    tlapm DiskIOProofs.tla                   CacheProofs ContentProofs LengthProofs
    tlapm SerLinkProofs.tla
    tlapm SemaphoreProofs.tla                PtSyncProofs PtThreadProofs
