----------------------------- MODULE MCPtThread -----------------------------
(* A main thread, two ids for the others, two of them created in all.      *)
EXTENDS PtThreadProps

CONSTANTS b1, b2, b3, b4, w1, w2
MCBlocks == {b1, b2, b3, b4}
MCWorkers == {w1, w2}
=============================================================================
