--------------------------- MODULE MCCertainEntry ---------------------------
(* The model checking instances of CertainEntry. *)
EXTENDS CertainEntry, TLC

Symmetry == Permutations(Values)

(* Faults of one sort: a stop of a process or of a client, or an eviction   *)
(* and a failure of the plog.                                              *)
OneSortOfFault == crashes + timeouts = 0 \/ evictions + plogErrors = 0
=============================================================================
