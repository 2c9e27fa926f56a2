---------------------------- MODULE MCSemaphore ----------------------------
(* Instances of Semaphore for TLC. *)
EXTENDS Semaphore

\* A semaphore may be made with a debt: init_val is a plain int.
Debt == -1
=============================================================================
