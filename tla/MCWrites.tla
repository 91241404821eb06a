------------------------------ MODULE MCWrites ------------------------------
(***************************************************************************)
(* The instance of CertainEntry for run "writes", in two parts: writes     *)
(* that race, and a write of replica 0 with reads and a stop of a process. *)
(* Every step of either part is one of CertainEntry.                       *)
(***************************************************************************)
EXTENDS MCCertainEntry

VARIABLE part

(* What both parts have.                                                   *)
Working ==
    \/ \E m \in net : ReceivePaxosCmd(m)
    \/ \E i \in Acceptors :
        \/ ClientTimeout(i) \/ PlogSetRecord(i) \/ PlogGetRecord(i) \/ PlogLoad(i)
        \/ DrainWaitingMsg(i) \/ IterateAndCatchup(i)

Race == Working \/ \E i \in Writers, v \in Values : ClientWrite(i, v)

(* A second value is not needed here.                                      *)
Stops ==
    \/ Working
    \/ used = {} /\ \E v \in Values : ClientWrite(0, v)
    \/ \E i \in Readers : ClientRead(i)
    \/ \E i \in Acceptors : CleanupExpiredChosenEntry(i) \/ Crash(i)

PartNext ==
    /\ part' = part
    /\ \/ part = "race" /\ Race
       \/ part = "stops" /\ Stops

PartSpec == Init /\ part \in {"race", "stops"} /\ [][PartNext]_<<vars, part>>

(* Two of reads, stops and clean-ups; a client gives up only where no      *)
(* process stops; and the second read comes after an answered write, as no *)
(* other read can be stale.                                                *)
FewEvents ==
    part = "stops" =>
        /\ reads + crashes + cleanups <= 2 /\ crashes + timeouts <= 1
        /\ reads = 2 => acked # {}
=============================================================================
