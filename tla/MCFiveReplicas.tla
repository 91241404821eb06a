--------------------------- MODULE MCFiveReplicas ---------------------------
(***************************************************************************)
(* Five replicas under one schedule of commands and deliveries: the        *)
(* PlogWorker answers at once, and between its answers the events of       *)
(* Schedule happen in their order.  Every step is one of CertainEntry.     *)
(***************************************************************************)
EXTENDS CertainEntry, Sequences

VARIABLE step  \* the events of Schedule that have happened

Write(i) == <<"write", i, i>>
Timeout(i) == <<"timeout", i, i>>
Deliver(i, j) == <<"deliver", i, j>>

Schedule == <<
    (* Replica 1 makes proposal 7, replica 0 proposal 6; 2 and 4 promise 6 *)
    (* and 0 accepts its value.                                            *)
    Write(1), Timeout(1),
    Write(0), Deliver(0, 2), Deliver(2, 0), Deliver(0, 4), Deliver(4, 0),
    (* 0 and 1 hear of each other's proposal: 0 tells 1 twice what it has  *)
    (* accepted, and the second message takes its time.                    *)
    Deliver(0, 1), Deliver(1, 0), Deliver(0, 1), Deliver(1, 0),
    (* 2 and 4 promise proposal 9 of replica 3, and 0 accepts its value.   *)
    Write(3), Deliver(3, 2), Deliver(2, 3), Deliver(3, 4), Deliver(4, 3),
    Deliver(3, 0), Deliver(0, 3), Deliver(3, 0),
    (* 2 and 4 promise proposal 12 of replica 1, which takes the value of  *)
    (* replica 0 that it knows of, and replies to the late message of 0    *)
    (* without the value.                                                  *)
    Write(1), Deliver(1, 2), Deliver(2, 1), Deliver(1, 4), Deliver(4, 1),
    Deliver(0, 1), Deliver(1, 0),
    (* 0, 1 and 2 have accepted proposal 12.                               *)
    Deliver(1, 2), Deliver(2, 1), Deliver(0, 1), Deliver(1, 0)
    >>

Event(e) ==
    \/ e[1] = "write" /\ \E v \in Values : ClientWrite(e[2], v)
    \/ e[1] = "timeout" /\ ClientTimeout(e[2])
    \/ /\ e[1] = "deliver"
       /\ \E m \in net : m.from = e[2] /\ m.to = e[3] /\ ReceivePaxosCmd(m)

NextEvent ==
    \/ /\ \E i \in Acceptors : PlogSetRecord(i) \/ DrainWaitingMsg(i)
       /\ UNCHANGED step
    \/ /\ \A i \in Acceptors : Idle(i) /\ node[i].op = "none"
       /\ step < Len(Schedule)
       /\ Event(Schedule[step + 1])
       /\ step' = step + 1

ScheduledSpec == Init /\ step = 0 /\ [][NextEvent]_<<vars, step>>
=============================================================================
