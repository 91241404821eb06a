-------------------------- MODULE MCLockFreeQueue ---------------------------
(* The model checking instance of LockFreeQueue; the constants are model   *)
(* values.  Liveness is checked, so no symmetry is used.                   *)
EXTENDS LockFreeQueue
=============================================================================
