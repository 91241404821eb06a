--------------------------- MODULE LockFreeQueue ----------------------------
(***************************************************************************)
(* The ring buffer of certain/utils/lock_free_queue.h: several threads     *)
(* push, one thread pops.  Every access to head_, tail_ or a slot is one   *)
(* step.  The atomics are sequentially consistent; a slot is a plain       *)
(* pointer, read and written in one piece by the build.                    *)
(*                                                                         *)
(* queue and got are history variables: the elements in the order of the   *)
(* successful compare_exchange, and the ones the consumer has taken.  lost *)
(* holds the elements that a swap took out of a slot and gave back to a    *)
(* producer.                                                               *)
(***************************************************************************)
EXTENDS Integers, Sequences

CONSTANTS
    Producers,   \* the threads that call PushByMultiThread
    Elements,    \* the objects that are pushed
    Null,        \* nullptr
    Capacity,    \* capacity_
    RetryTimes   \* retry_times, -1 for ever

ASSUME CapacityAssumption == Capacity \in Nat \ {0}
ASSUME NullAssumption == Null \notin Elements
ASSUME RetryAssumption == RetryTimes \in Nat \cup {-1}

VARIABLES
    head, tail, items,
    push,    \* the call of each producer: where it is, its item and locals
    pop,     \* the call of the consumer
    queue, got, lost

vars == <<head, tail, items, push, pop, queue, got, lost>>

Slots == 0 .. Capacity - 1

PushCall == [at : {"idle", "tail", "head", "cas", "swap"}, item : Elements \cup {Null},
             t : Nat, h : Nat, i : Nat]
PopCall == [at : {"idle", "head", "take", "advance"}, t : Nat]

NoPush == [at |-> "idle", item |-> Null, t |-> 0, h |-> 0, i |-> 0]
NoPop == [at |-> "idle", t |-> 0]

-----------------------------------------------------------------------------
(* PushByMultiThread.                                                      *)

(* The queues own what is in them: an object is pushed by one thread.      *)
Owned == {queue[n] : n \in 1 .. Len(queue)} \cup {got[n] : n \in 1 .. Len(got)}
            \cup {push[q].item : q \in Producers}

PushStart(p, e) ==
    /\ push[p].at = "idle" /\ RetryTimes # 0
    /\ e \notin Owned
    /\ push' = [push EXCEPT ![p] = [NoPush EXCEPT !.at = "tail", !.item = e]]
    /\ UNCHANGED <<head, tail, items, pop, queue, got, lost>>

PushLoadTail(p) ==
    /\ push[p].at = "tail"
    /\ push' = [push EXCEPT ![p] = [@ EXCEPT !.at = "head", !.t = tail]]
    /\ UNCHANGED <<head, tail, items, pop, queue, got, lost>>

IsFull_OffByOne(h, t) == h - t > Capacity  \* mutant: one element too many

IsFull(h, t) == h - t >= Capacity

(* The queue looks full (kUtilsQueueFull), or the next slot is tried.      *)
PushLoadHead(p) ==
    /\ push[p].at = "head"
    /\ push' = [push EXCEPT ![p] =
                    IF IsFull(head, push[p].t) THEN NoPush
                    ELSE [@ EXCEPT !.at = "cas", !.h = head]]
    /\ UNCHANGED <<head, tail, items, pop, queue, got, lost>>

PushClaim(p) ==
    /\ push[p].at = "cas" /\ head = push[p].h
    /\ head' = head + 1
    /\ queue' = Append(queue, push[p].item)
    /\ push' = [push EXCEPT ![p] = [@ EXCEPT !.at = "swap"]]
    /\ UNCHANGED <<tail, items, pop, got, lost>>

(* Another producer was faster; after RetryTimes attempts the call returns *)
(* kUtilsQueueConflict.                                                    *)
PushRetry(p) ==
    /\ push[p].at = "cas" /\ head # push[p].h
    /\ push' = [push EXCEPT ![p] =
                    IF push[p].i + 1 = RetryTimes THEN NoPush
                    ELSE [@ EXCEPT !.at = "tail", !.i = push[p].i + 1]]
    /\ UNCHANGED <<head, tail, items, pop, queue, got, lost>>

PushSwap(p) ==
    LET s == push[p].h % Capacity IN
    /\ push[p].at = "swap"
    /\ items' = [items EXCEPT ![s] = push[p].item]
    /\ lost' = IF items[s] = Null THEN lost ELSE lost \cup {items[s]}
    /\ push' = [push EXCEPT ![p] = NoPush]
    /\ UNCHANGED <<head, tail, pop, queue, got>>

-----------------------------------------------------------------------------
(* PopByOneThread.                                                         *)

PopLoadTail ==
    /\ pop.at = "idle"
    /\ pop' = [at |-> "head", t |-> tail]
    /\ UNCHANGED <<head, tail, items, push, queue, got, lost>>

(* The queue is empty (kUtilsQueueEmpty), or the oldest slot is looked at. *)
PopLoadHead ==
    /\ pop.at = "head"
    /\ pop' = IF head = pop.t THEN NoPop ELSE [pop EXCEPT !.at = "take"]
    /\ UNCHANGED <<head, tail, items, push, queue, got, lost>>

Filled_Unchecked(item) == TRUE  \* mutant: the slot is taken before it is filled

Filled(item) == item # Null

PopConflict_Skips ==  \* mutant: a slot that is not filled yet is skipped
    /\ pop.at = "take" /\ ~Filled(items[pop.t % Capacity])
    /\ pop' = NoPop
    /\ tail' = tail + 1
    /\ UNCHANGED <<head, items, push, queue, got, lost>>

(* The producer that has claimed the slot has not filled it yet.           *)
PopConflict ==
    /\ pop.at = "take" /\ ~Filled(items[pop.t % Capacity])
    /\ pop' = NoPop
    /\ UNCHANGED <<head, tail, items, push, queue, got, lost>>

PopTake ==
    LET s == pop.t % Capacity IN
    /\ pop.at = "take" /\ Filled(items[s])
    /\ got' = Append(got, items[s])
    /\ queue' = Tail(queue)
    /\ items' = [items EXCEPT ![s] = Null]
    /\ pop' = [pop EXCEPT !.at = "advance"]
    /\ UNCHANGED <<head, tail, push, lost>>

PopAdvance ==
    /\ pop.at = "advance"
    /\ tail' = tail + 1
    /\ pop' = NoPop
    /\ UNCHANGED <<head, items, push, queue, got, lost>>

-----------------------------------------------------------------------------
Init ==
    /\ head = 0 /\ tail = 0
    /\ items = [s \in Slots |-> Null]
    /\ push = [p \in Producers |-> NoPush]
    /\ pop = NoPop
    /\ queue = << >> /\ got = << >> /\ lost = {}

PushStep(p) ==
    \/ PushLoadTail(p)
    \/ PushLoadHead(p)
    \/ PushClaim(p)
    \/ PushRetry(p)
    \/ PushSwap(p)

PopStep ==
    \/ PopLoadTail
    \/ PopLoadHead
    \/ PopConflict
    \/ PopTake
    \/ PopAdvance

Next ==
    \/ \E p \in Producers, e \in Elements : PushStart(p, e)
    \/ \E p \in Producers : PushStep(p)
    \/ PopStep

Spec == Init /\ [][Next]_vars

(* A thread that is inside a call goes on, and the consumer calls again    *)
(* and again (EntityWorker::Run, RoutineWorker).  Nobody has to push.      *)
FairSpec == Spec /\ WF_vars(PopStep) /\ \A p \in Producers : WF_vars(PushStep(p))

-----------------------------------------------------------------------------
(* Properties.                                                             *)

(* Every variable stays in its domain; a slot holds an element or nothing. *)
TypeOK ==
    /\ head \in Nat /\ tail \in Nat
    /\ items \in [Slots -> Elements \cup {Null}]
    /\ push \in [Producers -> PushCall]
    /\ pop \in PopCall
    /\ queue \in Seq(Elements) /\ got \in Seq(Elements)
    /\ lost \subseteq Elements

(* A producer that has claimed a slot with compare_exchange_strong finds   *)
(* it empty: no element that was pushed is swapped out and lost, although  *)
(* tail_ may have been stale when the producer looked at it.               *)
NothingLost == lost = {}

(* The ring buffer implements the bounded FIFO queue: an element enters at *)
(* the compare_exchange of PushByMultiThread, never beyond the capacity,   *)
(* and PopByOneThread takes exactly the oldest one.                        *)
Fifo == INSTANCE FifoQueue WITH queue <- queue, got <- got
FifoSpec == Fifo!Spec

(* Every element whose push returned 0 is popped in the end, although a    *)
(* slow producer blocks those behind it.                                   *)
Delivered ==
    \A e \in Elements :
        (\E n \in 1 .. Len(queue) : queue[n] = e)
            ~> (\E n \in 1 .. Len(got) : got[n] = e)
=============================================================================
