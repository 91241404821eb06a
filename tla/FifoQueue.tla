----------------------------- MODULE FifoQueue ------------------------------
(***************************************************************************)
(* What the queues between the threads of certain promise: a bounded queue *)
(* whose operations are atomic.  got is what the consumer has taken.       *)
(***************************************************************************)
EXTENDS Naturals, Sequences

CONSTANTS Elements, Capacity

VARIABLES queue, got

Init == queue = << >> /\ got = << >>

Push(e) ==
    /\ Len(queue) < Capacity
    /\ queue' = Append(queue, e)
    /\ UNCHANGED got

Pop ==
    /\ queue # << >>
    /\ got' = Append(got, Head(queue))
    /\ queue' = Tail(queue)

Next == Pop \/ \E e \in Elements : Push(e)

Spec == Init /\ [][Next]_<<queue, got>>
=============================================================================
