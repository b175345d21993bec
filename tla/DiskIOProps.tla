---------------------------- MODULE DiskIOProps -----------------------------
(***************************************************************************)
(* What DiskIO promises: the properties of the disk seam.                  *)
(***************************************************************************)
EXTENDS DiskIO

\* The types of the disk, of the library's data and of the ghosts.
FilesTyped ==
    /\ dir \in [Names -> Entry]
    /\ disk \in [Names -> [Recs -> Record]]
    /\ dfiles \in [Slots -> File]
    /\ dma \in Record
    /\ cache_fp \in Slots \cup {NULL} /\ cache_rec \in Nat
    /\ content \in [Names -> [Positions -> Cell \cup {Hole}]]
    /\ flen \in [Names -> Nat]
    /\ kind \in [Names -> Kinds]

\* The types of the streams, the phase and the call in progress.
ControlTyped ==
    /\ redir_in \in Slots \cup {NULL} /\ redir_out \in Slots \cup {NULL}
    /\ phase \in {"startup", "main", "closing", "exited", "aborted"}
    /\ call \in Calls

\* Every variable holds values of its type; the cache, the streams and the call
\* in progress name slots of the table.
TypeOK == FilesTyped /\ ControlTyped

\* The slots the library itself refers to: redirected streams, call in progress.
Streams == {redir_in, redir_out} \ {NULL}

\* The table is never left pointing at nothing: redir_in, redir_out and the call
\* in progress name slots in use, a transfer of records one with a file, no two
\* streams share a slot, and the operand that redirect_one is about to latch is
\* not yet a stream.
SlotsNamed == \A i \in Slots : OnDisk(i) => dfiles[i].name \in Names
TableConsistent ==
    /\ SlotsNamed
    /\ \A i \in Streams : dfiles[i].used
    /\ redir_in # NULL => redir_in # redir_out
    /\ call.op # "idle" => dfiles[call.slot].used
    /\ call.op \in {"read", "write"} => ~dfiles[call.slot].is_con
    /\ call.op = "redirect" => call.slot \notin Streams

-----------------------------------------------------------------------------
(* The shared record buffer.                                               *)

\* The comment on cache_fp and cache_rec: while cache_fp is set, dma holds the
\* record cache_rec of the file in that slot, exactly as it is on the disk.
CacheCoherent ==
    cache_fp # NULL =>
        /\ OnDisk(cache_fp) /\ cache_rec \in Recs
        /\ dir[dfiles[cache_fp].name].exists =>
              dma = disk[dfiles[cache_fp].name][cache_rec]

\* What CacheCoherent rests on while no call touches the name of an open file:
\* open files exist, a handle that may write has a good FCB, and it is the only
\* one of its file.
HandlesSound ==
    /\ \A i \in Slots : OnDisk(i) =>
          /\ dir[dfiles[i].name].exists
          /\ dfiles[i].wrote => dfiles[i].writable
          /\ dfiles[i].writable => dfiles[i].live
    /\ \A i, j \in Slots : OnDisk(i) /\ OnDisk(j) /\ dfiles[i].name = dfiles[j].name
                            /\ dfiles[i].writable /\ dfiles[j].writable => i = j

\* The handle of a write in progress may write.
WriterWritable == call.op = "write" => dfiles[call.slot].writable

\* Read-modify-write of whole records in __qwrite loses nothing: every byte
\* the program put in a file is on the disk, in a record that the directory or
\* an open FCB of the file knows.
ContentOnDisk ==
    \A n \in Names : dir[n].exists /\ kind[n] # "lost" =>
        \A p \in Positions : content[n][p] # Hole =>
            /\ disk[n][p \div Sect][p % Sect] = content[n][p]
            /\ \/ p \div Sect \in dir[n].alloc
               \/ \E i \in OpenOn(n) : dfiles[i].live /\ p \div Sect \in dfiles[i].alloc

\* __qread hands out the bytes that were written at those positions, whoever
\* used the buffer in between.
ReadsMatch ==
    call.op = "read" =>
        LET f == dfiles[call.slot]
            start == f.pos - Len(call.out)
        IN  f.live /\ kind[f.name] # "lost" =>
               \A k \in 1 .. Len(call.out) :
                   start + k - 1 \in Positions =>
                      content[f.name][start + k - 1] \in {Hole, call.out[k]}

-----------------------------------------------------------------------------
(* Lengths.                                                                *)

RoundUp(len) == ((len + Sect - 1) \div Sect) * Sect

\* The file of f was written in the mode f has it open in, and nothing in its
\* history lets its length be lost.
Regular(f) == kind[f.name] \in {"none", IF f.text THEN "text" ELSE "bin"}

\* len is the length of n as exactly as the system can tell it: CP/M without a
\* byte count knows a binary file to the record only.
Exactly(len, n, text) == IF text \/ HasLrbc THEN len = flen[n]
                         ELSE flen[n] <= len /\ len <= RoundUp(flen[n])

\* The comment on dfile_t.len: while a file is open, fp->len is its exact
\* length, from the seed disk_len gives it through every write.
LengthTracked ==
    \A i \in Slots :
        OnDisk(i) /\ OpenOn(dfiles[i].name) = {i} /\ dfiles[i].live /\ Regular(dfiles[i])
            => Exactly(dfiles[i].len, dfiles[i].name, dfiles[i].text)

\* The length a program would get that opened n now, in text or binary mode.
Reopened(n, text) ==
    LET f == Activated(n, [readable |-> TRUE, writable |-> FALSE, append |-> FALSE,
                           text |-> text, trunc |-> FALSE, creat |-> FALSE])
    IN  {d.len : d \in DiskLen(f, DiskMax)}

Closed(n) == dir[n].exists /\ OpenOn(n) = {}

\* A closed file is as long, for the program that opens it next in the mode it
\* was written in, as its writers left it: through the Ctrl-Z padding for text,
\* through the record count and the byte count that __close sends for binary.
\* A binary file that grew to whole records over the byte count of an earlier
\* session falls short of that, by less than a record.  Nothing is said of a file
\* written in both modes, or never closed by the program that wrote it.
LengthDurable ==
    \A n \in Names : Closed(n) =>
        /\ kind[n] = "text" => \A len \in Reopened(n, TRUE) : Exactly(len, n, TRUE)
        /\ kind[n] = "bin" => \A len \in Reopened(n, FALSE) : Exactly(len, n, FALSE)
        /\ kind[n] = "stale" => \A len \in Reopened(n, FALSE) :
                                   len < flen[n] /\ RoundUp(len) = flen[n]

\* __close says of a length that is a multiple of SECT: "already record-exact,
\* so nothing to record".
WholeRecordsNeedNoCount ==
    \A n \in Names : Closed(n) /\ kind[n] \in {"bin", "stale"} =>
        \A len \in Reopened(n, FALSE) : Exactly(len, n, FALSE)

\* disk_len says of its own write path that it "does NOT yet transmit an LRBC on
\* close, so a binary file WE wrote reads back record-rounded even here".
BinaryReadsBackRounded ==
    \A n \in Names : Closed(n) /\ kind[n] = "bin" =>
        \A len \in Reopened(n, FALSE) : len = RoundUp(flen[n])

-----------------------------------------------------------------------------
(* Steps.                                                                  *)

\* "every write repositions to fp->len first, so a preceding fseek()/rewind()
\* cannot divert an append away from EOF": a write through an O_APPEND handle
\* changes no byte the file had, whoever else has the file open for reading.
OnlyWriter(i) == \A j \in OpenOn(dfiles[i].name) \ {i} : ~dfiles[j].writable
AppendsKeep ==
    \A i \in Slots : Writing(i) /\ dfiles[i].append /\ Regular(dfiles[i]) =>
        LET n == dfiles[i].name
        IN  OnlyWriter(i) =>
               \A p \in Positions : p < flen[n] => content'[n][p] = content[n][p]

AppendNeverOverwrites == [][AppendsKeep]_vars

\* A read that returns fewer bytes than asked for stands at the end of the
\* file, at a Ctrl-Z of a text file, or at a hole.
ShortReadAtEnd ==
    call.op = "read" /\ call'.op = "idle" /\ phase' = phase
    /\ Len(call.out) < call.want =>
        LET f == dfiles[call.slot]
        IN  f.live /\ Regular(f) =>
               \/ f.pos >= flen[f.name]
               \/ /\ f.pos \in Positions
                  /\ content[f.name][f.pos] \in {Hole} \cup (IF f.text THEN {CtrlZ} ELSE {})

ShortReadsOnlyAtEnd == [][ShortReadAtEnd]_vars

\* A read by a handle that has not written comes back short.
ReaderStops == /\ call.op = "read" /\ call'.op = "idle" /\ phase' = phase
               /\ Len(call.out) < call.want /\ ~dfiles[call.slot].wrote

\* The program has put a byte where f stands that a read of f would deliver.
ByteAhead(f) ==
    /\ kind[f.name] # "lost" /\ f.pos \in Positions
    /\ content[f.name][f.pos] \notin {Hole} \cup (IF f.text THEN {CtrlZ} ELSE {})

\* The BDOS shows f the record it stands in: its record map, which dates from
\* its open, has it, and F_SIZE counts it.
InReach(f) == /\ f.pos \div Sect \in f.alloc
              /\ f.pos \div Sect < F_SIZE(dir[f.name])

\* A pure reader re-derives its length "so it sees data another handle flushed":
\* it never stops before a byte that another handle has put into a record it
\* can reach, and no other handle's __close takes the file from it.
ReaderFollows == ReaderStops => ~(ByteAhead(dfiles[call.slot]) /\ InReach(dfiles[call.slot]))

ReadersFollow == [][ReaderFollows]_vars

\* The same comment without the BDOS's limits: "one "w" + one "r" handle on the
\* same file, reader must see the flushed byte", in whatever record it is.
FlushedBytesSeen == [][ReaderStops => ~ByteAhead(dfiles[call.slot])]_vars

-----------------------------------------------------------------------------
(* Programs.                                                               *)

\* The directory knows all output, but for what the program wrote to files of
\* its own that it left open.
OutputRecorded ==
    \A n \in Names :
        dir[n].exists /\ kind[n] # "lost"
        /\ (\A i \in OpenOn(n) : dfiles[i].wrote => i \in {redir_in, redir_out})
            => flen[n] <= dir[n].rc * Sect

\* "the ENTIRE stdin/stdout stream lands on the file": a program that returns from
\* main ends with its redirected stdout in the directory.
ReturnCommits == [][phase = "closing" /\ phase' = "exited" => OutputRecorded']_vars

\* exit "Flush + close every open FILE* first": however a program ends, its
\* redirected stdout is in the directory.
ExitCommits == phase = "exited" => OutputRecorded

\* __qread and __qwrite return.
CallsReturn == call.op # "idle" ~> call.op = "idle"
=============================================================================
