------------------------ MODULE LockFreeQueueProofs -------------------------
(***************************************************************************)
(* The ring buffer loses nothing and implements the bounded FIFO queue,    *)
(* for any capacity, any number of producers and any elements.             *)
(***************************************************************************)
EXTENDS LockFreeQueue, TLAPS

(* The tickets first .. head - 1 are in the queue; ticket k belongs to   *)
(* slot k % Capacity.                                                      *)
first == IF pop.at = "advance" THEN tail + 1 ELSE tail

Tickets == {k \in Nat : first <= k /\ k < head}

-----------------------------------------------------------------------------
(* Tickets closer than Capacity do not share a slot.                       *)
LEMMA SlotsDiffer ==
    ASSUME NEW k \in Nat, NEW l \in Nat, k < l, l - k < Capacity
    PROVE  k % Capacity # l % Capacity
<1> SUFFICES ASSUME k % Capacity = l % Capacity PROVE FALSE
  OBVIOUS
<1> DEFINE a == k \div Capacity
           b == l \div Capacity
<1>0. Capacity \in Nat /\ Capacity > 0
  BY CapacityAssumption
<1>1. a \in Nat /\ b \in Nat
  BY <1>0
<1>2. k % Capacity = k - Capacity * a /\ l % Capacity = l - Capacity * b
  BY <1>0, SMTT(30)
<1>3. k % Capacity \in Nat
  BY <1>0
<1> HIDE DEF a, b
<1>4. l - k = Capacity * b - Capacity * a
  BY <1>0, <1>1, <1>2, <1>3
<1>5. l - k = Capacity * (b - a)
  BY <1>0, <1>1, <1>4
<1>6. CASE b <= a
  <2>1. Capacity * (b - a) <= 0
    BY <1>0, <1>1, <1>6
  <2> QED
    BY <1>5, <2>1
<1>7. CASE b > a
  <2>1. Capacity * (b - a) >= Capacity
    BY <1>0, <1>1, <1>7
  <2> QED
    BY <1>0, <1>5, <2>1
<1> QED
  BY <1>1, <1>6, <1>7

LEMMA SlotType ==
    ASSUME NEW k \in Nat PROVE k % Capacity \in Slots
BY CapacityAssumption DEF Slots

-----------------------------------------------------------------------------
(* The inductive invariant.                                                *)

Counters ==
    /\ head = first + Len(queue)
    /\ head - tail <= Capacity
    /\ tail <= head

PushLocals ==
    \A p \in Producers :
        /\ push[p].at # "idle" => push[p].item \in Elements
        /\ push[p].at \in {"head", "cas"} => push[p].t <= tail
        /\ push[p].at = "cas" => /\ push[p].h <= head
                                 /\ push[p].h - push[p].t < Capacity

(* A producer between its compare_exchange and its swap owns a ticket and  *)
(* the empty slot of it.                                                   *)
Claims ==
    /\ \A p \in Producers : push[p].at = "swap" =>
        /\ push[p].h \in Tickets
        /\ push[p].item = queue[push[p].h - first + 1]
        /\ items[push[p].h % Capacity] = Null
    /\ \A p, q \in Producers :
        push[p].at = "swap" /\ push[q].at = "swap" /\ push[p].h = push[q].h => p = q

(* A slot holds the element of its ticket, or nothing.                     *)
Contents ==
    /\ \A k \in Tickets :
        items[k % Capacity] \in {Null, queue[k - first + 1]}
    /\ \A s \in Slots : items[s] # Null => \E k \in Tickets : k % Capacity = s

PopLocals ==
    /\ pop.at # "idle" => pop.t = tail
    /\ pop.at = "take" => tail < head
    /\ pop.at = "advance" => tail < head

QueueInv == TypeOK /\ Counters /\ PushLocals /\ Claims /\ Contents /\ PopLocals /\ NothingLost

-----------------------------------------------------------------------------
LEMMA QueueInit == Init => QueueInv
<1> SUFFICES ASSUME Init PROVE QueueInv
  OBVIOUS
<1> USE CapacityAssumption
<1>1. TypeOK
  BY DEF Init, TypeOK, NoPush, NoPop, PushCall, PopCall
<1>2. Counters /\ PopLocals /\ NothingLost
  BY DEF Init, Counters, PopLocals, NothingLost, first, NoPop
<1>3. PushLocals /\ Claims
  BY DEF Init, PushLocals, Claims, NoPush
<1>4. Contents
  BY DEF Init, Contents, Tickets, first, NoPop
<1> QED
  BY <1>1, <1>2, <1>3, <1>4 DEF QueueInv

(* A step of a producer that changes only its own call.                    *)
LEMMA OwnCall ==
    ASSUME QueueInv, NEW p \in Producers, NEW c \in PushCall,
           push' = [push EXCEPT ![p] = c],
           push[p].at # "swap", c.at # "swap",
           c.at # "idle" => c.item \in Elements,
           c.at \in {"head", "cas"} => c.t <= tail,
           c.at = "cas" => c.h <= head /\ c.h - c.t < Capacity,
           UNCHANGED <<head, tail, items, pop, queue, got, lost>>
    PROVE  QueueInv'
<1>1. TypeOK'
  BY DEF QueueInv, TypeOK
<1>2. Counters' /\ PopLocals' /\ NothingLost' /\ first' = first /\ Tickets' = Tickets
  BY DEF QueueInv, Counters, PopLocals, NothingLost, first, Tickets
<1>3. PushLocals'
  BY DEF QueueInv, TypeOK, PushLocals
<1>4. Claims'
  BY <1>2 DEF QueueInv, TypeOK, Claims
<1>5. Contents'
  BY <1>2 DEF QueueInv, Contents
<1> QED
  BY <1>1, <1>2, <1>3, <1>4, <1>5 DEF QueueInv

LEMMA ClaimStep ==
    ASSUME QueueInv, NEW p \in Producers, PushClaim(p)
    PROVE  QueueInv' /\ Len(queue) < Capacity /\ push[p].item \in Elements
<1> DEFINE e == push[p].item
<1>0. /\ head \in Nat /\ tail \in Nat /\ queue \in Seq(Elements) /\ e \in Elements
      /\ push[p] \in PushCall /\ first \in Nat /\ Capacity \in Nat
  BY CapacityAssumption DEF QueueInv, TypeOK, PushLocals, PushClaim, first
<1>1. head - tail < Capacity
  BY <1>0 DEF QueueInv, PushLocals, PushClaim, PushCall
<1>2. tail <= first /\ Len(queue) < Capacity
  BY <1>0, <1>1 DEF QueueInv, Counters, first
<1>a. first' = first /\ head' = head + 1 /\ queue' = Append(queue, e) /\ first <= head
  BY <1>0 DEF PushClaim, first, QueueInv, Counters
<1>3. /\ first' = first /\ head' = head + 1 /\ queue' = Append(queue, e)
      /\ Tickets' = Tickets \cup {head} /\ head \notin Tickets
  BY <1>0, <1>a DEF Tickets
<1>b. [push[p] EXCEPT !.at = "swap"] \in PushCall
  BY <1>0 DEF PushCall
<1>4. TypeOK'
  BY <1>0, <1>a, <1>b DEF QueueInv, TypeOK, PushClaim
<1>5. Counters' /\ PopLocals' /\ NothingLost'
  BY <1>0, <1>1, <1>3 DEF QueueInv, Counters, PopLocals, NothingLost, PushClaim
<1>6. PushLocals'
  BY <1>0 DEF QueueInv, TypeOK, PushLocals, PushClaim, PushCall
<1>7. /\ \A k \in Tickets : k - first + 1 \in 1 .. Len(queue)
                          /\ queue'[k - first + 1] = queue[k - first + 1]
      /\ queue'[head - first + 1] = e
  BY <1>0, <1>3 DEF QueueInv, Counters, Tickets
<1>8. ASSUME NEW k \in Tickets PROVE k % Capacity # head % Capacity
  <2>1. k \in Nat /\ k < head /\ head - k < Capacity
    BY <1>0, <1>1, <1>2 DEF Tickets
  <2> QED
    BY <1>0, <2>1, SlotsDiffer
<1>9. items[head % Capacity] = Null
  BY <1>0, <1>8, SlotType DEF QueueInv, Contents
<1>10. Claims'
  <2>1. ASSUME NEW q \in Producers, push'[q].at = "swap"
        PROVE  /\ push'[q].h \in Tickets'
               /\ push'[q].item = queue'[push'[q].h - first' + 1]
               /\ items'[push'[q].h % Capacity] = Null
               /\ q # p => push'[q].h \in Tickets
               /\ q = p => push'[q].h = head
    <3>1. CASE q = p
      BY <1>0, <1>3, <1>7, <1>9, <2>1, <3>1 DEF PushClaim, QueueInv, TypeOK, PushCall
    <3>2. CASE q # p
      <4>1. push'[q] = push[q] /\ items' = items
        BY <3>2 DEF PushClaim, QueueInv, TypeOK
      <4>2. /\ push[q].h \in Tickets /\ push[q].item = queue[push[q].h - first + 1]
            /\ items[push[q].h % Capacity] = Null
        BY <2>1, <4>1 DEF QueueInv, Claims
      <4> QED
        BY <1>3, <1>7, <3>2, <4>1, <4>2
    <3> QED
      BY <3>1, <3>2
  <2>2. ASSUME NEW q \in Producers, NEW r \in Producers, push'[q].at = "swap",
               push'[r].at = "swap", push'[q].h = push'[r].h
        PROVE  q = r
    <3>1. CASE q = p \/ r = p
      BY <1>3, <2>1, <2>2, <3>1
    <3>2. CASE q # p /\ r # p
      BY <2>2, <3>2 DEF QueueInv, Claims, PushClaim, TypeOK
    <3> QED
      BY <3>1, <3>2
  <2> QED
    BY <2>1, <2>2 DEF Claims
<1>11. Contents'
  BY <1>3, <1>7, <1>9 DEF QueueInv, Contents, PushClaim
<1> QED
  BY <1>0, <1>2, <1>4, <1>5, <1>6, <1>10, <1>11 DEF QueueInv

LEMMA SwapStep ==
    ASSUME QueueInv, NEW p \in Producers, PushSwap(p)
    PROVE  QueueInv'
<1> DEFINE h == push[p].h
           s == h % Capacity
           e == push[p].item
<1>0. /\ push[p] \in PushCall /\ h \in Nat /\ s \in Slots /\ e \in Elements
      /\ h \in Tickets /\ e = queue[h - first + 1] /\ items[s] = Null
  BY SlotType DEF QueueInv, TypeOK, PushLocals, PushSwap, PushCall, Claims
<1>1. /\ items' = [items EXCEPT ![s] = e] /\ lost' = lost
      /\ push' = [push EXCEPT ![p] = NoPush]
      /\ UNCHANGED <<head, tail, pop, queue, got>>
  BY <1>0 DEF PushSwap
<1> HIDE DEF s, e
<1>2. TypeOK'
  BY <1>0, <1>1 DEF QueueInv, TypeOK, NoPush, PushCall
<1>3. Counters' /\ PopLocals' /\ NothingLost' /\ first' = first /\ Tickets' = Tickets
  BY <1>1 DEF QueueInv, Counters, PopLocals, NothingLost, first, Tickets
<1>4. PushLocals'
  BY <1>1 DEF QueueInv, TypeOK, PushLocals, NoPush
<1>5. ASSUME NEW k \in Tickets, k # h PROVE k % Capacity # s /\ k % Capacity \in Slots
  <2>a. /\ head \in Nat /\ tail \in Nat /\ Capacity \in Nat /\ first \in Nat
        /\ tail <= first /\ head - tail <= Capacity
    BY CapacityAssumption DEF QueueInv, Counters, first, TypeOK
  <2>b. k \in Nat /\ first <= k /\ k < head /\ h \in Nat /\ first <= h /\ h < head
    BY <1>0 DEF Tickets
  <2>1. k \in Nat /\ h \in Nat /\ k - h < Capacity /\ h - k < Capacity
    BY <2>a, <2>b
  <2> QED
    BY <1>5, <2>1, SlotsDiffer, SlotType DEF s
<1>6. Claims'
  <2>1. ASSUME NEW q \in Producers, push'[q].at = "swap"
        PROVE  q # p /\ push'[q] = push[q] /\ push[q].at = "swap"
    BY <1>1, <2>1 DEF QueueInv, TypeOK, NoPush
  <2>2. ASSUME NEW q \in Producers, push'[q].at = "swap"
        PROVE  items'[push[q].h % Capacity] = Null
    <3>1. /\ q # p /\ push[q].at = "swap" /\ push[q].h \in Tickets
          /\ items[push[q].h % Capacity] = Null
      BY <2>1, <2>2 DEF QueueInv, Claims
    <3>2. push[q].h # h
      BY <3>1, <1>1 DEF QueueInv, Claims, PushSwap
    <3> QED
      BY <1>0, <1>1, <1>5, <3>1, <3>2 DEF QueueInv, TypeOK
  <2> QED
    BY <1>1, <1>3, <2>1, <2>2 DEF QueueInv, Claims
<1>7. Contents'
  <2>1. ASSUME NEW k \in Tickets
        PROVE  items'[k % Capacity] \in {Null, queue[k - first + 1]}
    <3>1. CASE k = h
      BY <1>0, <1>1, <3>1 DEF QueueInv, TypeOK, s
    <3>2. CASE k # h
      BY <1>0, <1>1, <1>5, <3>2 DEF QueueInv, TypeOK, Contents
    <3> QED
      BY <3>1, <3>2
  <2>2. ASSUME NEW u \in Slots, items'[u] # Null
        PROVE  \E k \in Tickets : k % Capacity = u
    <3>1. CASE u = s
      BY <1>0, <3>1 DEF s
    <3>2. CASE u # s
      BY <1>0, <1>1, <2>2, <3>2 DEF QueueInv, TypeOK, Contents
    <3> QED
      BY <3>1, <3>2
  <2> QED
    BY <1>1, <1>3, <2>1, <2>2 DEF Contents
<1> QED
  BY <1>2, <1>3, <1>4, <1>6, <1>7 DEF QueueInv

LEMMA TakeStep ==
    ASSUME QueueInv, PopTake
    PROVE  QueueInv' /\ queue # << >> /\ got' = Append(got, Head(queue)) /\ queue' = Tail(queue)
<1> DEFINE s == tail % Capacity
<1>0. /\ head \in Nat /\ tail \in Nat /\ queue \in Seq(Elements) /\ got \in Seq(Elements)
      /\ Capacity \in Nat /\ pop.at = "take" /\ pop.t = tail /\ tail < head /\ first = tail
      /\ s \in Slots /\ pop \in PopCall
  BY CapacityAssumption, SlotType DEF QueueInv, TypeOK, PopTake, PopLocals, first
<1>1. /\ items[s] # Null /\ got' = Append(got, items[s]) /\ queue' = Tail(queue)
      /\ items' = [items EXCEPT ![s] = Null] /\ pop' = [pop EXCEPT !.at = "advance"]
      /\ UNCHANGED <<head, tail, push, lost>>
  BY <1>0 DEF PopTake, Filled
<1>2. tail \in Tickets /\ queue # << >> /\ Len(queue) > 0
  BY <1>0 DEF Tickets, QueueInv, Counters
<1>3. items[s] = queue[1] /\ queue[1] = Head(queue) /\ queue[1] \in Elements
  BY <1>0, <1>1, <1>2 DEF QueueInv, Contents
<1> HIDE DEF s
<1>4. first' = tail + 1 /\ Tickets' = Tickets \ {tail} /\ pop'.at = "advance" /\ pop'.t = tail
  BY <1>0, <1>1 DEF first, Tickets, PopCall
<1>5. TypeOK'
  BY <1>0, <1>1, <1>2, <1>3 DEF QueueInv, TypeOK, PopCall
<1>6. Counters' /\ PopLocals' /\ NothingLost'
  BY <1>0, <1>1, <1>2, <1>4 DEF QueueInv, Counters, PopLocals, NothingLost
<1>7. PushLocals'
  BY <1>1 DEF QueueInv, PushLocals
<1>8. ASSUME NEW k \in Tickets, k # tail
      PROVE  /\ k % Capacity # s /\ k % Capacity \in Slots
             /\ queue'[k - first' + 1] = queue[k - first + 1]
  <2>1. k \in Nat /\ tail < k /\ k - tail < Capacity /\ k < head
    BY <1>0, <1>8 DEF Tickets, QueueInv, Counters
  <2>2. k - first' + 1 = k - tail /\ k - tail \in 1 .. Len(queue) - 1
    BY <1>0, <1>4, <2>1 DEF QueueInv, Counters
  <2>3. Tail(queue)[k - tail] = queue[k - tail + 1]
    BY <1>0, <1>2, <2>2
  <2> QED
    BY <1>0, <1>1, <2>1, <2>2, <2>3, SlotsDiffer, SlotType DEF s
<1>9. Claims'
  <2>1. ASSUME NEW q \in Producers, push[q].at = "swap"
        PROVE  push[q].h \in Tickets /\ push[q].h # tail
    BY <1>1, <2>1 DEF QueueInv, Claims, s
  <2>2. ASSUME NEW q \in Producers, push[q].at = "swap"
        PROVE  /\ push[q].h \in Tickets'
               /\ push[q].item = queue'[push[q].h - first' + 1]
               /\ items'[push[q].h % Capacity] = Null
    BY <1>0, <1>1, <1>4, <1>8, <2>1, <2>2 DEF QueueInv, TypeOK, Claims
  <2> QED
    BY <1>1, <2>2 DEF QueueInv, Claims
<1>10. Contents'
  <2>1. ASSUME NEW k \in Tickets'
        PROVE  items'[k % Capacity] \in {Null, queue'[k - first' + 1]}
    <3>1. k \in Tickets /\ k # tail
      BY <1>4, <2>1
    <3>2. items[k % Capacity] \in {Null, queue[k - first + 1]}
      BY <3>1 DEF QueueInv, Contents
    <3> QED
      BY <1>0, <1>1, <1>8, <3>1, <3>2 DEF QueueInv, TypeOK
  <2>2. ASSUME NEW u \in Slots, items'[u] # Null
        PROVE  \E k \in Tickets' : k % Capacity = u
    <3>1. u # s /\ items[u] # Null
      BY <1>0, <1>1, <2>2 DEF QueueInv, TypeOK
    <3>2. PICK k \in Tickets : k % Capacity = u
      BY <3>1 DEF QueueInv, Contents
    <3> QED
      BY <1>4, <3>1, <3>2 DEF s
  <2> QED
    BY <2>1, <2>2 DEF Contents
<1> QED
  BY <1>1, <1>2, <1>3, <1>5, <1>6, <1>7, <1>9, <1>10 DEF QueueInv

LEMMA AdvanceStep ==
    ASSUME QueueInv, PopAdvance
    PROVE  QueueInv'
<1>0. /\ head \in Nat /\ tail \in Nat /\ pop.at = "advance" /\ tail < head
      /\ tail' = tail + 1 /\ pop' = NoPop
      /\ UNCHANGED <<head, items, push, queue, got, lost>>
  BY DEF QueueInv, TypeOK, PopAdvance, PopLocals
<1>1. first' = first /\ Tickets' = Tickets /\ first = tail + 1
  BY <1>0 DEF first, Tickets, NoPop
<1>2. TypeOK' /\ NothingLost'
  BY <1>0 DEF QueueInv, TypeOK, NothingLost, NoPop, PopCall
<1>3. Counters' /\ PopLocals'
  BY <1>0, <1>1, CapacityAssumption DEF QueueInv, Counters, PopLocals, NoPop
<1>4. PushLocals'
  BY <1>0 DEF QueueInv, TypeOK, PushLocals, PushCall
<1>5. Claims' /\ Contents'
  BY <1>0, <1>1 DEF QueueInv, Claims, Contents
<1> QED
  BY <1>2, <1>3, <1>4, <1>5 DEF QueueInv

(* A step of the consumer that changes only its own call.                  *)
LEMMA OwnPop ==
    ASSUME QueueInv, pop.at # "advance", pop' \in PopCall, pop'.at # "advance",
           pop'.at # "idle" => pop'.t = tail, pop'.at = "take" => tail < head,
           UNCHANGED <<head, tail, items, push, queue, got, lost>>
    PROVE  QueueInv'
<1>1. first' = first /\ Tickets' = Tickets
  BY DEF first, Tickets
<1>2. TypeOK' /\ NothingLost' /\ PopLocals' /\ PushLocals'
  BY DEF QueueInv, TypeOK, NothingLost, PopLocals, PushLocals
<1>3. Counters' /\ Claims' /\ Contents'
  BY <1>1 DEF QueueInv, Counters, Claims, Contents
<1> QED
  BY <1>2, <1>3 DEF QueueInv

LEMMA QueueNext ==
    ASSUME QueueInv, [Next]_vars
    PROVE  QueueInv' /\ [Fifo!Next]_<<queue, got>>
<1> USE CapacityAssumption
<1>t. TypeOK /\ (\A p \in Producers : push[p] \in PushCall) /\ pop \in PopCall
  BY DEF QueueInv, TypeOK
<1>1. ASSUME NEW p \in Producers, NEW e \in Elements, PushStart(p, e)
      PROVE  QueueInv' /\ UNCHANGED <<queue, got>>
  <2> DEFINE c == [NoPush EXCEPT !.at = "tail", !.item = e]
  <2>1. c \in PushCall /\ c.at = "tail" /\ c.item = e
    BY DEF NoPush, PushCall
  <2> HIDE DEF c
  <2>2. push' = [push EXCEPT ![p] = c]
    BY <1>1 DEF PushStart, c
  <2> QED
    BY <1>1, <2>1, <2>2, OwnCall DEF PushStart
<1>2. ASSUME NEW p \in Producers, PushLoadTail(p)
      PROVE  QueueInv' /\ UNCHANGED <<queue, got>>
  <2> DEFINE c == [push[p] EXCEPT !.at = "head", !.t = tail]
  <2>1. c \in PushCall /\ c.at = "head" /\ c.t = tail /\ c.item \in Elements
    BY <1>2, <1>t DEF PushCall, PushLoadTail, QueueInv, PushLocals, TypeOK
  <2>2. push' = [push EXCEPT ![p] = c]
    BY <1>2 DEF PushLoadTail
  <2>3. tail <= tail
    BY DEF QueueInv, TypeOK
  <2> HIDE DEF c
  <2> QED
    BY <1>2, <2>1, <2>2, <2>3, OwnCall DEF PushLoadTail
<1>3. ASSUME NEW p \in Producers, PushLoadHead(p)
      PROVE  QueueInv' /\ UNCHANGED <<queue, got>>
  <2> DEFINE d == [push[p] EXCEPT !.at = "cas", !.h = head]
             c == IF IsFull(head, push[p].t) THEN NoPush ELSE d
  <2>1. /\ d \in PushCall /\ d.at = "cas" /\ d.h = head /\ d.t = push[p].t
        /\ d.item \in Elements /\ d.t <= tail
    BY <1>3, <1>t DEF PushCall, PushLoadHead, QueueInv, PushLocals, TypeOK
  <2>2. push' = [push EXCEPT ![p] = c]
    BY <1>3 DEF PushLoadHead
  <2>3. NoPush \in PushCall /\ NoPush.at = "idle"
    BY DEF NoPush, PushCall
  <2>4. head \in Nat /\ push[p].t \in Nat /\ head <= head
    BY <1>t DEF QueueInv, TypeOK, PushCall
  <2>5. ~IsFull(head, push[p].t) => head - push[p].t < Capacity
    BY <2>4 DEF IsFull
  <2> HIDE DEF d
  <2>6. /\ c \in PushCall /\ c.at # "swap" /\ (c.at # "idle" => c.item \in Elements)
        /\ (c.at \in {"head", "cas"} => c.t <= tail)
        /\ (c.at = "cas" => c.h <= head /\ c.h - c.t < Capacity)
    BY <2>1, <2>3, <2>4, <2>5
  <2> HIDE DEF c
  <2> QED
    BY <1>3, <2>2, <2>6, OwnCall DEF PushLoadHead
<1>4. ASSUME NEW p \in Producers, PushClaim(p)
      PROVE  QueueInv' /\ \E e \in Elements : Fifo!Push(e)
  BY <1>4, ClaimStep DEF PushClaim, Fifo!Push
<1>5. ASSUME NEW p \in Producers, PushRetry(p)
      PROVE  QueueInv' /\ UNCHANGED <<queue, got>>
  <2> DEFINE d == [push[p] EXCEPT !.at = "tail", !.i = push[p].i + 1]
             c == IF push[p].i + 1 = RetryTimes THEN NoPush ELSE d
  <2>0. push[p].at = "cas" /\ push[p].item \in Elements
    BY <1>5 DEF PushRetry, QueueInv, PushLocals
  <2>a. push[p] \in PushCall /\ push[p].i + 1 \in Nat
    BY <1>t DEF PushCall
  <2>1. d \in PushCall /\ d.at = "tail" /\ d.item \in Elements
    BY <2>a, <2>0 DEF PushCall
  <2>2. push' = [push EXCEPT ![p] = c]
    BY <1>5 DEF PushRetry
  <2>3. NoPush \in PushCall /\ NoPush.at = "idle"
    BY DEF NoPush, PushCall
  <2> HIDE DEF d
  <2>4. /\ c \in PushCall /\ c.at \in {"idle", "tail"} /\ (c.at # "idle" => c.item \in Elements)
    BY <2>1, <2>3
  <2> HIDE DEF c
  <2> QED
    BY <1>5, <2>2, <2>4, OwnCall DEF PushRetry
<1>6. ASSUME NEW p \in Producers, PushSwap(p)
      PROVE  QueueInv' /\ UNCHANGED <<queue, got>>
  BY <1>6, SwapStep DEF PushSwap
<1>7. ASSUME PopLoadTail \/ PopLoadHead \/ PopConflict
      PROVE  QueueInv' /\ UNCHANGED <<queue, got>>
  <2>1. CASE PopLoadTail
    <3>1. pop' \in PopCall /\ pop'.at = "head" /\ pop'.t = tail /\ pop.at = "idle"
      BY <1>t, <2>1 DEF PopLoadTail, PopCall, TypeOK
    <3> QED
      BY <2>1, <3>1, OwnPop DEF PopLoadTail
  <2>2. CASE PopLoadHead
    <3>1. pop.at = "head" /\ pop.t = tail /\ tail <= head /\ tail \in Nat /\ head \in Nat
      BY <1>t, <2>2 DEF PopLoadHead, QueueInv, PopLocals, Counters, TypeOK
    <3>2. CASE head = pop.t
      <4>1. pop' \in PopCall /\ pop'.at = "idle"
        BY <2>2, <3>2 DEF PopLoadHead, NoPop, PopCall
      <4> QED
        BY <2>2, <3>1, <4>1, OwnPop DEF PopLoadHead
    <3>3. CASE head # pop.t
      <4>1. pop' \in PopCall /\ pop'.at = "take" /\ pop'.t = tail
        BY <1>t, <2>2, <3>1, <3>3 DEF PopLoadHead, PopCall
      <4>2. tail < head
        BY <3>1, <3>3
      <4> QED
        BY <2>2, <3>1, <4>1, <4>2, OwnPop DEF PopLoadHead
    <3> QED
      BY <3>2, <3>3
  <2>3. CASE PopConflict
    <3>1. pop' \in PopCall /\ pop'.at = "idle" /\ pop.at = "take"
      BY <2>3 DEF PopConflict, NoPop, PopCall
    <3> QED
      BY <2>3, <3>1, OwnPop DEF PopConflict
  <2> QED
    BY <1>7, <2>1, <2>2, <2>3
<1>8. ASSUME PopTake PROVE QueueInv' /\ Fifo!Pop
  BY <1>8, TakeStep DEF Fifo!Pop
<1>9. ASSUME PopAdvance PROVE QueueInv' /\ UNCHANGED <<queue, got>>
  BY <1>9, AdvanceStep DEF PopAdvance
<1>10. ASSUME UNCHANGED vars PROVE QueueInv' /\ UNCHANGED <<queue, got>>
  <2>1. first' = first /\ Tickets' = Tickets
    BY <1>10 DEF vars, first, Tickets
  <2> QED
    BY <1>10, <2>1 DEF vars, QueueInv, TypeOK, Counters, PushLocals, Claims, Contents,
                       PopLocals, NothingLost
<1> QED
  BY <1>1, <1>2, <1>3, <1>4, <1>5, <1>6, <1>7, <1>8, <1>9, <1>10
  DEF Next, PushStep, PopStep, Fifo!Next

-----------------------------------------------------------------------------
LEMMA QueueInvariant == Spec => []QueueInv
<1>1. Init => QueueInv
  BY QueueInit
<1>2. QueueInv /\ [Next]_vars => QueueInv'
  BY QueueNext
<1> QED
  BY <1>1, <1>2, PTL DEF Spec

(* The threads of LockFreeQueue keep counters, tickets and elements of     *)
(* their types: a slot holds one element or none, and no counter of a call *)
(* runs away, whatever the capacity.                                       *)
THEOREM QueueTypeCorrect == Spec => []TypeOK
<1>1. QueueInv => TypeOK
  BY DEF QueueInv
<1> QED
  BY <1>1, QueueInvariant, PTL

(* PushByMultiThread never swaps an element out of a slot: whatever the    *)
(* capacity and however many producers race with stale copies of tail_.    *)
THEOREM QueueLosesNothing == Spec => []NothingLost
<1>1. QueueInv => NothingLost
  BY DEF QueueInv
<1> QED
  BY <1>1, QueueInvariant, PTL

(* The ring buffer of PushByMultiThread and PopByOneThread implements the  *)
(* bounded FIFO queue.                                                     *)
THEOREM QueueIsFifo == Spec => FifoSpec
<1>1. Init => Fifo!Init
  BY DEF Init, Fifo!Init
<1>2. QueueInv /\ [Next]_vars => [Fifo!Next]_<<queue, got>>
  BY QueueNext
<1> QED
  BY <1>1, <1>2, QueueInvariant, PTL DEF Spec, FifoSpec, Fifo!Spec
=============================================================================
