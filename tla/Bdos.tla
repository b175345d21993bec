-------------------------------- MODULE Bdos --------------------------------
(***************************************************************************)
(* The part of the CP/M BDOS file system that diskio.c calls.  The BDOS is *)
(* not in this repository: it is modelled from the calls the library makes *)
(* and from what the Concurrent CP/M-86 Programmer's Reference Guide kept  *)
(* under src/contrib/ravn says of them.                                    *)
(*                                                                         *)
(* A file is a directory entry and the data of its records.  A program     *)
(* works through File Control Blocks: an FCB takes a copy of the entry's   *)
(* record map when it is activated, F_WRITERAND extends the copy, and only *)
(* F_CLOSE records the copy in the directory.                              *)
(***************************************************************************)
EXTENDS Integers

CONSTANTS Names,      \* CP/M file names
          Sect,       \* bytes in a record (SECT, 128 in the code)
          NRecs,      \* records the disk can give to a file
          Bytes,      \* payload bytes
          CtrlZ,      \* CPM_EOF, the text end-of-file mark
          Junk        \* what a directory entry or an unwritten record reads as

ASSUME BdosAssumption == /\ Sect \in Nat \ {0}
                         /\ NRecs \in Nat
                         /\ CtrlZ # Junk
                         /\ CtrlZ \notin Bytes
                         /\ Junk \notin Bytes

Offs == 0 .. Sect - 1
Recs == 0 .. NRecs - 1
Cell == Bytes \cup {CtrlZ, Junk}
Record == [Offs -> Cell]

AllCtrlZ == [k \in Offs |-> CtrlZ]
AllJunk == [k \in Offs |-> Junk]

Max2(a, b) == IF a >= b THEN a ELSE b
Min2(a, b) == IF a <= b THEN a ELSE b

\* A directory entry: the R/O attribute t1', the last record byte count, the
\* number of the last record plus one (what F_SIZE reports) and the records
\* that have been written.
Entry == [exists: BOOLEAN, ro: BOOLEAN, lrbc: Offs, rc: Nat, alloc: SUBSET Recs]

\* The directory has no entry of this name.
NoEntry == [exists |-> FALSE, ro |-> FALSE, lrbc |-> 0, rc |-> 0, alloc |-> {}]

\* The entry F_MAKE creates: empty, with a byte count of zero.
Made == [NoEntry EXCEPT !.exists = TRUE]

\* What F_CLOSE of FCB f records in entry e.
Committed(e, f) == [e EXCEPT !.rc = Max2(@, f.rc), !.alloc = @ \cup f.alloc]

\* F_SIZE: the length the directory knows, in records, 0 if there is no entry.
F_SIZE(e) == IF e.exists THEN e.rc ELSE 0

\* F_READRAND through FCB f: "error" is code 10, the FCB checksum error of a
\* purged FCB; "unwritten" is code 1 or 4, no such record in the FCB's map.
ReadCode(f, rec) == IF ~f.live THEN "error"
                    ELSE IF rec \in f.alloc THEN "ok" ELSE "unwritten"

\* F_WRITERAND through FCB f: a purged FCB or a full disk is an error code; a R/O
\* file ends the program.
WriteCode(f, rec) == IF ~f.live THEN "error"
                     ELSE IF f.ro THEN "fatal"
                     ELSE IF rec \in Recs THEN "ok" ELSE "error"

\* Records below rec that a block allocated for rec may bring with it: they
\* count as written and hold whatever the disk held.
Gaps(f, rec) == SUBSET {r \in Recs : r < rec /\ r \notin f.alloc}

\* The data of the file after F_WRITERAND put rec in place and g was dragged in.
Stored(data, rec, cells, g) ==
    [r \in Recs |-> IF r = rec THEN cells ELSE IF r \in g THEN AllJunk ELSE data[r]]

\* The FCB after that write.
Extended(f, rec, g) == [f EXCEPT !.alloc = @ \cup {rec} \cup g, !.rc = Max2(@, rec + 1)]
=============================================================================
