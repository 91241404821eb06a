--------------------------- MODULE MCCertainCommit ---------------------------
(* Instances of CertainCommit for TLC.                                      *)
EXTENDS CertainCommit

Scenario(entries, routines, faults, restarts, notfound, peer) ==
    [entries |-> entries, routines |-> routines, faults |-> faults,
     restarts |-> restarts, notfound |-> notfound, peer |-> peer]

(* A peer has dropped an entry: with a restart and something that fails,    *)
(* also in the middle of the recovery, from a peer that has everything;     *)
(* with only one of the two, from a peer that may lag behind.  Then three   *)
(* entries with a restart, and three entries for two coroutines.            *)
CommitScenarios ==
    {Scenario(2, 1, 1, 1, 1, 2), Scenario(2, 1, 0, 1, 1, 0),
     Scenario(2, 1, 1, 0, 1, 0), Scenario(3, 1, 0, 1, 0, 0),
     Scenario(3, 2, 0, 0, 0, 0)}

(* The threads alone.                                                       *)
NoFaults == {Scenario(3, 2, 0, 0, 0, 0)}
==============================================================================
