---------------------------- MODULE VersionedKey ----------------------------
(***************************************************************************)
(* What paxoskv promises for one key: the writes that take effect form one *)
(* history.  The n-th of them has version n, and Set returns 0 only for a  *)
(* write that is in the history.                                           *)
(***************************************************************************)
EXTENDS Naturals, FiniteSets

CONSTANTS Writes,     \* the writes of the clients, with the version they were given
          Pasts       \* the histories it may start with

VARIABLES history,    \* pairs of a position and the write that took effect there
          acked       \* the writes for which Set returned 0

Init == history \in Pasts /\ acked = {}

TakeEffect(w) ==
    /\ w.ver = Cardinality(history) + 1
    /\ \A h \in history : h[2] # w
    /\ history' = history \cup {<<w.ver, w>>}
    /\ UNCHANGED acked

Acknowledge(w) ==
    /\ <<w.ver, w>> \in history
    /\ acked' = acked \cup {w}
    /\ UNCHANGED history

Next == \E w \in Writes : TakeEffect(w) \/ Acknowledge(w)

Spec == Init /\ [][Next]_<<history, acked>>
=============================================================================
