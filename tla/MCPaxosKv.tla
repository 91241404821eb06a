----------------------------- MODULE MCPaxosKv ------------------------------
(***************************************************************************)
(* The model checking instances of PaxosKv.  Servers are ordered by their  *)
(* proposal numbers, so no symmetry is used.                               *)
(*                                                                         *)
(* A response to a proposal that its proposer has given up, or that is     *)
(* decided, is ignored by every later step, and so is the chosen value for *)
(* a server that has it or a later one: states that differ only in such    *)
(* messages are one state of the view.                                     *)
(***************************************************************************)
EXTENDS PaxosKv

Both(a, b) == {<<a, b>>, <<b, a>>}
Star == Both(1, 2) \cup Both(1, 3)

(* Two writers race for the empty key; servers 2 and 3 are cut off from    *)
(* each other.                                                             *)
Duel == [at |-> <<1, 2, 0>>, reader |-> 3, first |-> 0, links |-> Star, reads |-> 0, faults |-> 0]

(* Two Sets on one server, which may accept without a prepare phase.       *)
Twice == [Duel EXCEPT !.at = <<1, 1, 0>>, !.first = 1, !.reader = 1, !.reads = 1]

(* A writer that may skip the prepare phase, a rival, and one fault.       *)
Faulty == [Duel EXCEPT !.first = 1, !.faults = 1]

(* Server 3 writes and reads; it hears server 2, which writes twice, but   *)
(* is not heard.                                                           *)
Behind == [Duel EXCEPT !.at = <<2, 2, 3>>, !.first = 2,
                       !.links = Both(1, 2) \cup {<<2, 3>>}, !.reads = 1]

(* A write on each server, in a ring of links.                             *)
Ring == [Duel EXCEPT !.at = <<1, 2, 3>>, !.first = 1,
                     !.links = Both(1, 3) \cup {<<1, 2>>, <<2, 3>>}]

KvScenarios == {Duel, Twice, Faulty, Behind, Ring}

Waits(m, state) ==
    /\ alive[m.to].index = m.index /\ alive[m.to].state = state
    /\ \E k \in 1 .. Len(mem[m.to].log) :
            mem[m.to].log[k].index = m.index /\ mem[m.to].log[k].proposed = m.proposed

Ignored(m) ==
    \/ m.type = "PROP_RSP" /\ ~Waits(m, "WAIT_PREPARE")
    \/ m.type \in {"ACCPT_RSP", "FAST_ACCPT_RSP"} /\ ~Waits(m, "WAIT_ACCEPT")
    \/ m.type = "CHOSEN" /\ \E k \in ChosenAt(mem[m.to].log) :
            LET ins == mem[m.to].log[k]
            IN  ins.index > m.index \/ (ins.index = m.index /\ ins.value = m.value)

View ==
    <<env, mem, disk, alive, call, notified, read, {m \in net : ~Ignored(m)},
      chosen, acked, stale, failed>>
=============================================================================
