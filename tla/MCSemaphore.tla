---------------------------- MODULE MCSemaphore ----------------------------
(***************************************************************************)
(* Three threads on one semaphore that starts locked or with one permit.   *)
(***************************************************************************)
EXTENDS SemaphoreProps

MCInitialValues == {0, 1}
=============================================================================
