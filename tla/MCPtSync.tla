----------------------------- MODULE MCPtSync -----------------------------
(***************************************************************************)
(* Three threads on each of the objects of the POSIX threads layer.        *)
(***************************************************************************)
EXTENDS PtSyncProps, TLC

CONSTANTS t1, t2, t3

MCThreads == {t1, t2, t3}
MCLimits == {2, 3}
=============================================================================
