-------------------------- MODULE EntryStateProofs --------------------------
(***************************************************************************)
(* Facts about the operators of EntryState: the choices they make exist,   *)
(* they preserve types, and proposal numbers are fresh and of one owner.   *)
(***************************************************************************)
EXTENDS EntryState, NatLemmas, TLAPS

-----------------------------------------------------------------------------
(* Least elements.                                                         *)

(* The choice of the first acceptor of a set, as a loop over               *)
(* entry_records_ makes it.                                                *)
LEMMA FirstAcceptor ==
    ASSUME NEW T \in SUBSET Acceptors, T # {}
    PROVE  \E m \in T : \A k \in T : m <= k
<1>1. T \in SUBSET Nat
  BY AcceptorNumAssumption DEF Acceptors
<1> QED
  BY <1>1, NatMin

(* The numbers that the acceptors have accepted have an upper bound ...    *)
LEMMA BoundExists ==
    ASSUME NEW recs \in Machine
    PROVE  \E n \in Nat : \A a \in Acceptors : recs[a].accepted <= n
<1> DEFINE Bad == {k \in 0 .. AcceptorNum :
                      ~\E n \in Nat : \A a \in Acceptors :
                          a < k => recs[a].accepted <= n}
<1>1. AcceptorNum \in Nat /\ Acceptors \subseteq Nat
  BY AcceptorNumAssumption DEF Acceptors
<1>t. \A a \in Acceptors : recs[a].accepted \in Nat
  BY DEF Machine, Record
<1>2. Bad = {}
  <2>1. SUFFICES ASSUME Bad # {} PROVE FALSE
    OBVIOUS
  <2>2. Bad \in SUBSET Nat
    BY <1>1
  <2>3. PICK k \in Bad : \A j \in Bad : k <= j
    BY <2>1, <2>2, NatMin
  <2>4. k # 0
    BY <1>1, <2>3
  <2>5. k - 1 \in 0 .. AcceptorNum /\ k - 1 \notin Bad
    <3>1. k \in 0 .. AcceptorNum
      BY <2>3
    <3>2. k - 1 \in 0 .. AcceptorNum /\ ~(k <= k - 1)
      BY <1>1, <2>4, <3>1
    <3> HIDE DEF Bad
    <3> QED
      BY <2>3, <3>2
  <2>6. PICK n \in Nat : \A a \in Acceptors : a < k - 1 => recs[a].accepted <= n
    BY <2>5
  <2>7. k - 1 \in Acceptors
    BY <1>1, <2>3, <2>5 DEF Acceptors
  <2> DEFINE top == recs[k - 1].accepted
             m == IF n <= top THEN top ELSE n
  <2>8. m \in Nat /\ n <= m /\ top <= m
    BY <1>t, <2>7
  <2>9. ASSUME NEW a \in Acceptors, a < k PROVE recs[a].accepted <= m
    <3>1. CASE a = k - 1
      BY <2>8, <3>1
    <3>2. CASE a < k - 1
      BY <1>t, <2>6, <2>8, <3>2
    <3> QED
      BY <1>1, <2>3, <2>9, <3>1, <3>2
  <2> QED
    BY <2>3, <2>8, <2>9
<1>3. \E n \in Nat : \A a \in Acceptors : a < AcceptorNum => recs[a].accepted <= n
  <2>1. AcceptorNum \in 0 .. AcceptorNum
    BY <1>1
  <2> QED
    BY <1>2, <2>1
<1>4. \A a \in Acceptors : a < AcceptorNum
  BY <1>1 DEF Acceptors
<1> QED
  BY <1>3, <1>4

(* ... and the least upper bound is one of them.                           *)
LEMMA MaxAcceptedExists ==
    ASSUME NEW recs \in Machine
    PROVE  \E n \in {recs[a].accepted : a \in Acceptors} :
               \A a \in Acceptors : recs[a].accepted <= n
<1> DEFINE Bounds == {n \in Nat : \A a \in Acceptors : recs[a].accepted <= n}
<1>t. \A a \in Acceptors : recs[a].accepted \in Nat
  BY DEF Machine, Record
<1>0. 0 \in Acceptors
  BY AcceptorNumAssumption DEF Acceptors
<1>1. PICK n \in Bounds : \A k \in Bounds : n <= k
  <2>1. Bounds # {} /\ Bounds \in SUBSET Nat
    BY BoundExists
  <2> QED
    BY <2>1, NatMin
<1>2. \E a \in Acceptors : recs[a].accepted = n
  <2>1. SUFFICES ASSUME \A a \in Acceptors : recs[a].accepted # n PROVE FALSE
    OBVIOUS
  <2>2. \A a \in Acceptors : recs[a].accepted <= n - 1
    BY <1>t, <1>1, <2>1
  <2>3. n - 1 \in Nat
    BY <1>t, <1>0, <1>1, <2>2
  <2> QED
    BY <1>1, <2>2, <2>3
<1> QED
  BY <1>1, <1>2

LEMMA MaxAcceptedFacts ==
    ASSUME NEW recs \in Machine
    PROVE  /\ MaxAccepted(recs) \in Nat
           /\ \A a \in Acceptors : recs[a].accepted <= MaxAccepted(recs)
           /\ \E a \in Acceptors : recs[a].accepted = MaxAccepted(recs)
<1>t. \A a \in Acceptors : recs[a].accepted \in Nat
  BY DEF Machine, Record
<1> DEFINE n == MaxAccepted(recs)
<1>1. /\ n \in {recs[a].accepted : a \in Acceptors}
      /\ \A a \in Acceptors : recs[a].accepted <= n
  BY MaxAcceptedExists DEF MaxAccepted
<1> QED
  BY <1>t, <1>1

LEMMA SelectedFacts ==
    ASSUME NEW recs \in Machine
    PROVE  /\ Selected(recs) \in Acceptors
           /\ recs[Selected(recs)].accepted = MaxAccepted(recs)
<1> DEFINE T == {a \in Acceptors : recs[a].accepted = MaxAccepted(recs)}
<1>1. T \in SUBSET Acceptors /\ T # {}
  BY MaxAcceptedFacts
<1>2. PICK m \in T : \A k \in T : m <= k
  BY <1>1, FirstAcceptor
<1> QED
  BY <1>2 DEF Selected

-----------------------------------------------------------------------------
(* Types.                                                                  *)

LEMMA EmptyRecordType == EmptyRecord \in Record /\ NewMachine \in Machine
BY DEF EmptyRecord, Record, NewMachine, Machine

LEMMA MarkChosenType ==
    ASSUME NEW i \in Acceptors, NEW recs \in Machine
    PROVE  MarkChosen(i, recs) \in Machine
<1>1. recs[i] \in Record
  BY DEF Machine
<1>2. [recs[i] EXCEPT !.chosen = TRUE] \in Record
  BY <1>1 DEF Record
<1> QED
  BY <1>2 DEF MarkChosen, Machine

LEMMA RestoreValueType ==
    ASSUME NEW recs \in Machine, NEW r \in Record
    PROVE  RestoreValueInRecord(recs, r) \in Record
<1> DEFINE holders == {a \in Acceptors : recs[a].value_id = r.value_id}
           first == CHOOSE a \in holders : \A b \in holders : a <= b
<1>1. CASE holders # {}
  <2>1. holders \in SUBSET Acceptors
    OBVIOUS
  <2>2. \E a \in holders : \A b \in holders : a <= b
    BY <1>1, <2>1, FirstAcceptor
  <2>3. first \in Acceptors
    BY <2>2
  <2>4. recs[first].value \in Values \cup {NoValue}
    BY <2>3 DEF Machine, Record
  <2>5. [r EXCEPT !.id_only = FALSE, !.value = recs[first].value] \in Record
    BY <2>4 DEF Record
  <2> QED
    BY <1>1, <2>5 DEF RestoreValueInRecord
<1>2. CASE holders = {}
  BY <1>2 DEF RestoreValueInRecord, Record
<1> QED
  BY <1>1, <1>2

LEMMA FollowPeerType ==
    ASSUME NEW local \in Record, NEW r \in Record
    PROVE  FollowPeer(local, r) \in Record
BY DEF FollowPeer, Record

LEMMA UpdateType ==
    ASSUME NEW i \in Acceptors, NEW peer \in Acceptors, NEW recs \in Machine,
           NEW r \in Record
    PROVE  Update(i, peer, recs, r) \in Machine
<1> DEFINE seen == [recs EXCEPT ![peer] = r]
           followed == [seen EXCEPT ![i] = FollowPeer(seen[i], r)]
<1>1. seen \in Machine /\ seen[i] \in Record
  BY DEF Machine
<1>2. followed \in Machine
  BY <1>1, FollowPeerType DEF Machine
<1>3. MarkChosen(i, seen) \in Machine /\ MarkChosen(i, followed) \in Machine
  BY <1>1, <1>2, MarkChosenType
<1> QED
  BY <1>1, <1>3 DEF Update

(* A new proposal number of acceptor i is larger than what it has promised *)
(* and is congruent to i + 1 modulo the number of acceptors.               *)
LEMMA NextProposalFacts ==
    ASSUME NEW i \in Acceptors, NEW pn \in Nat, NEW pre_auth \in BOOLEAN
    PROVE  /\ NextProposal(i, pn, pre_auth) \in Nat
           /\ NextProposal(i, pn, pre_auth) > pn
           /\ \E k \in Nat : NextProposal(i, pn, pre_auth) = k * AcceptorNum + i + 1
<1> DEFINE N == AcceptorNum
           q == (pn + N - 1) \div N
<1>1. N \in Nat /\ N > 0 /\ i \in Nat /\ pn + N - 1 \in Nat
  BY AcceptorNumAssumption DEF Acceptors
<1>2. q \in Nat
  BY <1>1
<1>3. q * N \in Nat /\ q * N >= pn
  BY <1>1
<1>4. (q + 1) * N = q * N + N /\ q + 1 \in Nat
  BY <1>1, <1>2
<1> DEFINE b == q * N + i + 1
<1>5. b \in Nat /\ b > pn /\ b + N \in Nat /\ b + N > pn /\ b + N = (q + 1) * N + i + 1
  <2> HIDE DEF q
  <2> QED
    BY <1>1, <1>2, <1>3, <1>4
<1>6. NextProposal(i, pn, pre_auth) = IF ~pre_auth /\ b <= N THEN b + N ELSE b
  BY DEF NextProposal
<1> HIDE DEF b, q
<1>7. b = q * N + i + 1
  BY DEF b
<1>8. CASE ~pre_auth /\ b <= N
  BY <1>1, <1>4, <1>5, <1>6, <1>8
<1>9. CASE ~(~pre_auth /\ b <= N)
  BY <1>1, <1>2, <1>5, <1>6, <1>7, <1>9
<1> QED
  BY <1>8, <1>9

(* Two acceptors never make the same proposal number, whatever each of     *)
(* them has promised and with or without pre-authorisation: what makes the *)
(* numbers, and the value ids taken from them, unique.                     *)
THEOREM ProposalNumbersUnique ==
    ASSUME NEW i \in Acceptors, NEW j \in Acceptors, i # j,
           NEW pn \in Nat, NEW qn \in Nat, NEW a \in BOOLEAN, NEW b \in BOOLEAN
    PROVE  NextProposal(i, pn, a) # NextProposal(j, qn, b)
<1> DEFINE N == AcceptorNum
<1>1. PICK k \in Nat : NextProposal(i, pn, a) = k * AcceptorNum + i + 1
  BY NextProposalFacts
<1>2. PICK l \in Nat : NextProposal(j, qn, b) = l * AcceptorNum + j + 1
  BY NextProposalFacts
<1>3. N \in Nat /\ i \in Nat /\ j \in Nat /\ i < N /\ j < N
  BY AcceptorNumAssumption DEF Acceptors
<1> HIDE DEF N
<1>4. ASSUME NEW x \in Nat, NEW y \in Nat, x < y
      PROVE  x * N \in Nat /\ y * N \in Nat /\ x * N + N <= y * N
  <2>1. PICK d \in Nat : y = x + 1 + d
    <3>1. y - x - 1 \in Nat /\ y = x + 1 + (y - x - 1)
      BY <1>4
    <3> QED
      BY <3>1
  <2>2. y * N = x * N + N + d * N /\ d * N \in Nat /\ x * N \in Nat
    BY <1>3, <2>1
  <2> QED
    BY <1>3, <2>2
<1>5. CASE k = l
  BY <1>1, <1>2, <1>3, <1>5 DEF N
<1>6. CASE k < l
  <2>1. k * N \in Nat /\ l * N \in Nat /\ k * N + N <= l * N
    BY <1>4, <1>6
  <2> QED
    BY <1>1, <1>2, <1>3, <2>1 DEF N
<1>7. CASE l < k
  <2>1. l * N \in Nat /\ k * N \in Nat /\ l * N + N <= k * N
    BY <1>4, <1>7
  <2> QED
    BY <1>1, <1>2, <1>3, <2>1 DEF N
<1> QED
  BY <1>5, <1>6, <1>7

LEMMA PromiseType ==
    ASSUME NEW i \in Acceptors, NEW recs \in Machine, NEW pre_auth \in BOOLEAN
    PROVE  Promise(i, recs, pre_auth) \in Machine
<1> DEFINE b == NextProposal(i, recs[i].promised, pre_auth)
           mine == [recs[i] EXCEPT !.prepared = b, !.promised = b]
<1>1. recs[i] \in Record /\ recs[i].promised \in Nat
  BY DEF Machine, Record
<1>2. b \in Nat
  BY <1>1, NextProposalFacts
<1>3. mine \in Record
  BY <1>1, <1>2 DEF Record
<1>4. [recs EXCEPT ![i] = mine] \in Machine
  BY <1>3 DEF Machine
<1> QED
  BY <1>4, MarkChosenType DEF Promise

LEMMA AcceptType ==
    ASSUME NEW i \in Acceptors, NEW recs \in Machine,
           NEW value \in Values \cup {NoValue}, NEW value_id \in Nat
    PROVE  Accept(i, recs, value, value_id) \in Machine
<1> DEFINE own == PreparedValueAccepted(recs)
           from == recs[Selected(recs)]
           mine == [recs[i] EXCEPT
                       !.accepted = recs[i].promised,
                       !.value = IF own THEN value ELSE from.value,
                       !.value_id = IF own THEN value_id ELSE from.value_id]
<1>1. from \in Record /\ recs[i] \in Record
  BY SelectedFacts DEF Machine
<1>2. mine \in Record
  BY <1>1 DEF Record
<1>3. [recs EXCEPT ![i] = mine] \in Machine
  BY <1>2 DEF Machine
<1> QED
  BY <1>3, MarkChosenType DEF Accept
=============================================================================
