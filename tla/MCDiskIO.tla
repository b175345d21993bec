------------------------------ MODULE MCDiskIO ------------------------------
(***************************************************************************)
(* Finite instances of DiskIO: records of two bytes, two records on the    *)
(* disk, and the modes, buffers and offsets the program uses.              *)
(***************************************************************************)
EXTENDS DiskIOProps, TLC

CONSTANTS byteA, byteB, fileA, fileB

Open_(r, w, ap, tx, tr, cr) == [readable |-> r, writable |-> w, append |-> ap,
                                text |-> tx, trunc |-> tr, creat |-> cr]

\* fopen "r", "w", "a", "r+" and the same with "b".
Text_r == Open_(TRUE, FALSE, FALSE, TRUE, FALSE, FALSE)
Text_w == Open_(FALSE, TRUE, FALSE, TRUE, TRUE, TRUE)
Text_a == Open_(FALSE, TRUE, TRUE, TRUE, FALSE, TRUE)
Text_rp == Open_(TRUE, TRUE, FALSE, TRUE, FALSE, FALSE)
Text_ap == Open_(TRUE, TRUE, TRUE, TRUE, FALSE, TRUE)
Bin_r == Open_(TRUE, FALSE, FALSE, FALSE, FALSE, FALSE)
Bin_wp == Open_(TRUE, TRUE, FALSE, FALSE, TRUE, TRUE)
Bin_rp == Open_(TRUE, TRUE, FALSE, FALSE, FALSE, FALSE)
Bin_ap == Open_(TRUE, TRUE, TRUE, FALSE, FALSE, TRUE)
Bin_a == Open_(FALSE, TRUE, TRUE, FALSE, FALSE, TRUE)

MCBinModes == {Bin_r, Bin_wp, Bin_rp, Bin_a}
MCTextModes == {Text_r, Text_w, Text_ap, Text_rp}
MCSharedModes == {Text_r, Text_ap}
MCWriteRead == {Text_w, Text_r}
MCBinShared == {Bin_r, Bin_a}
MCBinUpdate == {Bin_r, Bin_rp, Bin_wp}
MCPlainModes == {Text_ap, Text_rp, Bin_rp, Bin_wp}

MCBytes == {byteA, byteB}
MCBuffers == {<<byteA>>, <<byteB, byteA>>}
MCBinBuffers == {<<byteA>>, <<byteB, CtrlZ>>}
MCLens == {1, 3}
MCOffsets == {-1, 0, 1}
MCNameModes == {Bin_wp, Bin_rp}
MCOne == {<<byteA>>}
MCThree == {3}
MCForward == {0, 1}
MCZero == {0}
MCGap == {-1, 2}
MCOneLen == {1}
MCTwoLen == {2}
MCAppend == {Bin_ap}
MCTruncate == {Bin_wp}
MCEach == {<<byteA>>, <<byteB>>}
MCNone == {}
MCSharing == {"shared"}
MCNames == {fileA}
MCTwo == {fileA, fileB}
MCSymmetry == Permutations(MCTwo)
=============================================================================
