------------------------ MODULE EntryAgreementProofs ------------------------
(***************************************************************************)
(* The replicas agree on the value id that is chosen, for every number of  *)
(* them, as long as no entry is evicted, no plog operation fails and no    *)
(* process stops in the middle of a write.                                 *)
(*                                                                         *)
(* The argument is the one of Paxos, about the histories of the replicas:  *)
(* H[a] is the set of all records that acceptor a has ever had, and c[a]   *)
(* the one that counts now, in memory while it is being stored and on disk *)
(* otherwise.  World(H, c) is what these histories satisfy; whatever a     *)
(* replica or a message says of an acceptor is in the history of it.       *)
(*                                                                         *)
(* The last part is about the messages that are parked at an entry while   *)
(* its record is being stored or read: none is forgotten there.            *)
(***************************************************************************)
EXTENDS EntryDurabilityProofs

(* Acceptor a has accepted the proposal b when it was the one promised.    *)
Vote(h, b) == \E s \in h : s.accepted = b /\ s.promised = b

ChosenNum(H, b) ==
    \E Q \in SUBSET Acceptors : IsMajority(Q) /\ \A a \in Q : Vote(H[a], b)

(* No other value id than id was or will be chosen below n.                *)
Safe(H, c, n, id) ==
    \A b \in Nat : 0 < b /\ b < n =>
        \E Q \in SUBSET Acceptors :
            /\ IsMajority(Q)
            /\ \A a \in Q : /\ b < c[a].promised
                            /\ \A s \in H[a] : s.accepted = b /\ s.promised = b
                                               => s.value_id = id

(* The proposal n is made by the acceptor o.                               *)
OwnedBy(n, o) == \E k \in Nat : n = k * AcceptorNum + o + 1

(* The history of an acceptor: promises are kept, and with a promise it    *)
(* reports what it has accepted before.                                    *)
Past(h, x) ==
    /\ x \in h /\ EmptyRecord \in h
    /\ \A s \in h : /\ IsValidRecord(s)
                    /\ s.promised <= x.promised
                    /\ s.accepted <= x.accepted \/ x.chosen
                    /\ s.chosen => x.chosen
    /\ \A s, t \in h : s.accepted = s.promised /\ s.promised < t.promised
                       => s.accepted <= t.accepted \/ t.chosen

(* The acceptor with record x has used its own proposal n.                 *)
UsedUp(x, n) == n < x.prepared \/ (n = x.prepared /\ (n <= x.accepted \/ x.chosen))

(* What is accepted was voted for or is chosen, what is marked chosen is,  *)
(* and it was safe to accept it and its owner will not propose it again.   *)
Justified(H, c, a, s) ==
    /\ s.accepted > 0 => Vote(H[a], s.accepted) \/ ChosenNum(H, s.accepted)
    /\ s.chosen => s.accepted > 0 /\ ChosenNum(H, s.accepted)
    /\ s.accepted > 0 => Safe(H, c, s.accepted, s.value_id)
    /\ \A o \in Acceptors : s.accepted > 0 /\ OwnedBy(s.accepted, o)
                            => UsedUp(c[o], s.accepted)

(* A proposal has one value id.                                            *)
OneId(H) ==
    \A a, b \in Acceptors : \A s \in H[a], t \in H[b] :
        s.accepted = t.accepted => s.value_id = t.value_id

World(H, c) ==
    /\ H \in [Acceptors -> SUBSET Record] /\ c \in [Acceptors -> Record]
    /\ \A a \in Acceptors :
        /\ Past(H[a], c[a])
        /\ c[a].prepared = 0 \/ OwnedBy(c[a].prepared, a)
        /\ \A s \in H[a] : Justified(H, c, a, s)
    /\ OneId(H)

-----------------------------------------------------------------------------
(* Majorities and numbers.                                                 *)

LEMMA MajoritiesMeet ==
    ASSUME NEW P \in SUBSET Acceptors, NEW Q \in SUBSET Acceptors,
           IsMajority(P), IsMajority(Q)
    PROVE  \E a \in Acceptors : a \in P /\ a \in Q
<1> DEFINE N == AcceptorNum
<1>1. N \in Nat /\ N > 0 /\ 2 * (N \div 2 + 1) > N /\ N \div 2 \in Nat
  BY AcceptorNumAssumption
<1>2. IsFiniteSet(Acceptors) /\ Cardinality(Acceptors) = N
  <2>1. 0 \in Int /\ N - 1 \in Int /\ ~(0 > N - 1)
    BY <1>1
  <2> QED
    BY <1>1, <2>1, FS_Interval DEF Acceptors
<1>3. IsFiniteSet(P) /\ IsFiniteSet(Q)
  BY <1>2, FS_Subset
<1>4. /\ IsFiniteSet(P \cup Q) /\ IsFiniteSet(P \cap Q)
      /\ Cardinality(P \cup Q) = Cardinality(P) + Cardinality(Q) - Cardinality(P \cap Q)
  BY <1>3, FS_Union, FS_Intersection
<1>5. Cardinality(P \cup Q) <= N
  BY <1>2, FS_Subset
<1>6. P \cap Q # {}
  <2> SUFFICES ASSUME P \cap Q = {} PROVE FALSE
    OBVIOUS
  <2>1. Cardinality(P \cap Q) = 0
    BY FS_EmptySet
  <2>2. Cardinality(P) \in Nat /\ Cardinality(Q) \in Nat /\ Cardinality(P \cup Q) \in Nat
    BY <1>3, <1>4, FS_CardinalityType
  <2> QED
    BY <1>1, <1>4, <1>5, <2>1, <2>2 DEF IsMajority
<1> QED
  BY <1>6

LEMMA OneOwner ==
    ASSUME NEW n \in Nat, NEW o \in Acceptors, NEW p \in Acceptors,
           OwnedBy(n, o), OwnedBy(n, p)
    PROVE  o = p
<1>1. PICK k \in Nat : n = k * AcceptorNum + o + 1
  BY DEF OwnedBy
<1>2. PICK l \in Nat : n = l * AcceptorNum + p + 1
  BY DEF OwnedBy
<1> DEFINE N == AcceptorNum
<1>3. N \in Nat /\ N > 0 /\ o \in Nat /\ p \in Nat /\ o < N /\ p < N
  BY AcceptorNumAssumption DEF Acceptors
<1>4. ~(k < l) /\ ~(l < k)
  <2>1. ASSUME NEW u \in Nat, NEW v \in Nat, NEW x \in Nat, NEW y \in Nat,
               x < N, y < N, u * N + x + 1 = v * N + y + 1, u < v
        PROVE  FALSE
    <3>1. PICK d \in Nat : v = u + 1 + d
      <4>1. v - u - 1 \in Nat /\ v = u + 1 + (v - u - 1)
        BY <2>1
      <4> QED
        BY <4>1
    <3>2. v * N = u * N + N + d * N /\ d * N \in Nat /\ u * N \in Nat
      BY <1>3, <3>1
    <3> QED
      BY <1>3, <2>1, <3>2
  <2> QED
    BY <1>1, <1>2, <1>3, <2>1
<1>5. k = l
  BY <1>4
<1>6. k * N \in Nat
  BY <1>3
<1> QED
  BY <1>1, <1>2, <1>3, <1>5, <1>6

-----------------------------------------------------------------------------
(* A step of one acceptor: the record x follows c[i].                      *)

Grown(H, i, x) == [H EXCEPT ![i] = H[i] \cup {x}]

(* x keeps what some acceptor had accepted, or accepts the own proposal    *)
(* for the first time.                                                     *)
Kept(H, i, x) ==
    \E a \in Acceptors : \E s \in H[a] :
        /\ s.accepted = x.accepted /\ s.value_id = x.value_id
        /\ x.accepted = 0 \/ x.accepted = x.promised \/ a = i \/ ChosenNum(H, x.accepted)

Proposed(H, c, i, x) ==
    /\ x.accepted = x.promised /\ x.accepted = x.prepared
    /\ OwnedBy(x.accepted, i)
    /\ \A a \in Acceptors : \A s \in H[a] : s.accepted # x.accepted
    /\ Safe(H, c, x.accepted, x.value_id)

Follow(H, c, i, x) ==
    /\ x \in Record /\ IsValidRecord(x)
    /\ c[i].promised <= x.promised /\ c[i].prepared <= x.prepared
    /\ c[i].accepted <= x.accepted \/ x.chosen
    /\ c[i].chosen => x.chosen
    /\ x.prepared = c[i].prepared \/ OwnedBy(x.prepared, i)
    /\ Kept(H, i, x) \/ Proposed(H, c, i, x)
    /\ x.chosen => x.accepted > 0 /\ ChosenNum(Grown(H, i, x), x.accepted)

LEMMA RecordFields ==
    ASSUME NEW r \in Record
    PROVE  /\ r.prepared \in Nat /\ r.promised \in Nat /\ r.accepted \in Nat
           /\ r.value_id \in Nat /\ r.chosen \in BOOLEAN /\ r.id_only \in BOOLEAN
BY DEF Record

(* Histories only grow.                                                    *)
Ext(H, G) == \A a \in Acceptors : H[a] \subseteq G[a]

LEMMA ChosenStays ==
    ASSUME NEW H, NEW G, Ext(H, G)
    PROVE  /\ \A a \in Acceptors : \A b : Vote(H[a], b) => Vote(G[a], b)
           /\ \A b : ChosenNum(H, b) => ChosenNum(G, b)
<1>1. \A a \in Acceptors : \A b : Vote(H[a], b) => Vote(G[a], b)
  BY DEF Ext, Vote
<1> QED
  BY <1>1 DEF ChosenNum

LEMMA WorldStep ==
    ASSUME NEW H, NEW c, World(H, c), NEW i \in Acceptors, NEW x, Follow(H, c, i, x)
    PROVE  World(Grown(H, i, x), [c EXCEPT ![i] = x]) /\ Ext(H, Grown(H, i, x))
<1> DEFINE G == Grown(H, i, x)
           d == [c EXCEPT ![i] = x]
<1>1. H \in [Acceptors -> SUBSET Record] /\ c \in [Acceptors -> Record] /\ x \in Record
  BY DEF World, Follow
<1>2. /\ G \in [Acceptors -> SUBSET Record] /\ d \in [Acceptors -> Record]
      /\ G[i] = H[i] \cup {x} /\ d[i] = x
      /\ \A a \in Acceptors : a # i => G[a] = H[a] /\ d[a] = c[a]
  BY <1>1 DEF Grown
<1> HIDE DEF G, d
<1>3. Ext(H, G)
  BY <1>2 DEF Ext
<1>4. /\ \A a \in Acceptors : \A b : Vote(H[a], b) => Vote(G[a], b)
      /\ \A b : ChosenNum(H, b) => ChosenNum(G, b)
  BY <1>3, ChosenStays
<1>5. \A a \in Acceptors : \A s \in G[a] : s \in Record /\ (s \in H[a] \/ (a = i /\ s = x))
  BY <1>1, <1>2
<1>6. \A a \in Acceptors : c[a] \in Record /\ d[a] \in Record /\ \A s \in H[a] : s \in Record
  BY <1>1, <1>2
<1>7. \A a \in Acceptors : /\ c[a].promised <= d[a].promised /\ c[a].prepared <= d[a].prepared
                           /\ c[a].accepted <= d[a].accepted \/ d[a].chosen
                           /\ c[a].chosen => d[a].chosen
  <2>1. \A a \in Acceptors : c[a].promised <= c[a].promised /\ c[a].prepared <= c[a].prepared
                             /\ c[a].accepted <= c[a].accepted
    BY <1>6, RecordFields
  <2> QED
    BY <1>2, <2>1 DEF Follow
<1>8. \A a \in Acceptors : Past(G[a], d[a])
  <2>1. ASSUME NEW a \in Acceptors, a # i PROVE Past(G[a], d[a])
    BY <1>2, <2>1 DEF World
  <2>2. Past(G[i], x)
    <3>0. Past(H[i], c[i])
      BY DEF World
    <3>1. x \in G[i] /\ EmptyRecord \in G[i]
      BY <1>2, <3>0 DEF Past
    <3>2. ASSUME NEW s \in G[i]
          PROVE  /\ IsValidRecord(s) /\ s.promised <= x.promised
                 /\ s.accepted <= x.accepted \/ x.chosen
                 /\ s.chosen => x.chosen
      <4>1. CASE s = x
        BY <1>1, <4>1, RecordFields DEF Follow
      <4>2. CASE s \in H[i]
        <5>1. /\ IsValidRecord(s) /\ s.promised <= c[i].promised
              /\ s.accepted <= c[i].accepted \/ c[i].chosen
              /\ s.chosen => c[i].chosen
          BY <3>0, <4>2 DEF Past
        <5>2. /\ s.promised \in Nat /\ s.accepted \in Nat /\ x.promised \in Nat /\ x.accepted \in Nat
              /\ c[i].promised \in Nat /\ c[i].accepted \in Nat
          BY <1>1, <1>6, <4>2, RecordFields
        <5> QED
          BY <5>1, <5>2 DEF Follow
      <4> QED
        BY <1>2, <4>1, <4>2
    <3>3. ASSUME NEW s \in G[i], NEW t \in G[i], s.accepted = s.promised, s.promised < t.promised
          PROVE  s.accepted <= t.accepted \/ t.chosen
      <4>0. s.promised \in Nat /\ t.promised \in Nat /\ x.promised \in Nat
        BY <1>1, <1>5, RecordFields
      <4>1. s # x
        BY <3>2, <3>3, <4>0
      <4>2. CASE t = x
        BY <3>2, <4>2
      <4>3. CASE t # x
        BY <1>2, <3>0, <3>3, <4>1, <4>3 DEF Past
      <4> QED
        BY <4>2, <4>3
    <3> QED
      BY <3>1, <3>2, <3>3 DEF Past
  <2> QED
    BY <1>2, <2>1, <2>2
<1>9. \A a \in Acceptors : d[a].prepared = 0 \/ OwnedBy(d[a].prepared, a)
  BY <1>2 DEF World, Follow
<1>10. ASSUME NEW n \in Nat, NEW id, Safe(H, c, n, id) PROVE Safe(G, d, n, id)
  <2> SUFFICES ASSUME NEW b \in Nat, 0 < b /\ b < n
               PROVE  \E Q \in SUBSET Acceptors :
                        /\ IsMajority(Q)
                        /\ \A a \in Q : /\ b < d[a].promised
                                        /\ \A s \in G[a] : s.accepted = b /\ s.promised = b
                                                           => s.value_id = id
    BY DEF Safe
  <2>1. PICK Q \in SUBSET Acceptors :
            /\ IsMajority(Q)
            /\ \A a \in Q : /\ b < c[a].promised
                            /\ \A s \in H[a] : s.accepted = b /\ s.promised = b
                                               => s.value_id = id
    BY <1>10 DEF Safe
  <2>2. ASSUME NEW a \in Q
        PROVE  /\ b < d[a].promised
               /\ \A s \in G[a] : s.accepted = b /\ s.promised = b => s.value_id = id
    <3>1. a \in Acceptors /\ c[a].promised \in Nat /\ d[a].promised \in Nat
      BY <1>6, RecordFields
    <3>2. b < d[a].promised
      BY <1>7, <2>1, <3>1
    <3>3. ASSUME NEW s \in G[a], s.accepted = b, s.promised = b PROVE s.value_id = id
      <4>1. s # x \/ a # i
        BY <1>2, <3>1, <3>2, <3>3
      <4> QED
        BY <1>5, <2>1, <3>1, <3>3, <4>1
    <3> QED
      BY <3>2, <3>3
  <2> QED
    BY <2>1, <2>2
<1>11. ASSUME NEW o \in Acceptors, NEW n \in Nat, UsedUp(c[o], n) PROVE UsedUp(d[o], n)
  <2>1. /\ c[o].prepared \in Nat /\ c[o].accepted \in Nat /\ d[o].prepared \in Nat
        /\ d[o].accepted \in Nat
    BY <1>6, RecordFields
  <2> QED
    BY <1>7, <1>11, <2>1 DEF UsedUp
<1>12. ASSUME NEW a \in Acceptors, NEW s \in H[a] PROVE Justified(G, d, a, s)
  <2>1. s.accepted \in Nat /\ Justified(H, c, a, s)
    BY <1>6, RecordFields DEF World
  <2> QED
    BY <1>4, <1>10, <1>11, <2>1 DEF Justified
<1>13. Justified(G, d, i, x)
  <2>0. x.accepted \in Nat /\ x.promised \in Nat /\ x.prepared \in Nat
    BY <1>1, RecordFields
  <2>1. x.accepted = x.promised => Vote(G[i], x.accepted)
    BY <1>2 DEF Vote
  <2>2. x.chosen => x.accepted > 0 /\ ChosenNum(G, x.accepted)
    BY DEF Follow, G
  <2>3. CASE Kept(H, i, x)
    <3>0. PICK a \in Acceptors : \E s \in H[a] :
            /\ s.accepted = x.accepted /\ s.value_id = x.value_id
            /\ x.accepted = 0 \/ x.accepted = x.promised \/ a = i \/ ChosenNum(H, x.accepted)
      BY <2>3 DEF Kept
    <3>1. PICK s \in H[a] :
            /\ s.accepted = x.accepted /\ s.value_id = x.value_id
            /\ x.accepted = 0 \/ x.accepted = x.promised \/ a = i \/ ChosenNum(H, x.accepted)
      BY <3>0
    <3>2. Justified(G, d, a, s)
      BY <1>12
    <3> QED
      BY <1>4, <2>0, <2>1, <2>2, <3>1, <3>2 DEF Justified
  <2>4. CASE Proposed(H, c, i, x)
    <3>1. ASSUME NEW o \in Acceptors, OwnedBy(x.accepted, o) PROVE UsedUp(d[o], x.accepted)
      <4>1. o = i
        BY <2>0, <2>4, <3>1, OneOwner DEF Proposed
      <4> QED
        BY <1>2, <2>0, <2>4, <4>1 DEF UsedUp, Proposed
    <3> QED
      BY <1>10, <2>0, <2>1, <2>2, <2>4, <3>1 DEF Justified, Proposed
  <2> QED
    BY <2>3, <2>4 DEF Follow
<1>14. OneId(G)
  <2>1. ASSUME NEW a \in Acceptors, NEW s \in H[a], s.accepted = x.accepted
        PROVE  s.value_id = x.value_id
    <3>1. CASE Kept(H, i, x)
      BY <2>1, <3>1 DEF Kept, World, OneId
    <3>2. CASE Proposed(H, c, i, x)
      BY <2>1, <3>2 DEF Proposed
    <3> QED
      BY <3>1, <3>2 DEF Follow
  <2>2. OneId(H)
    BY DEF World
  <2> SUFFICES ASSUME NEW a \in Acceptors, NEW b \in Acceptors, NEW s \in G[a], NEW t \in G[b],
                      s.accepted = t.accepted
               PROVE  s.value_id = t.value_id
    BY DEF OneId
  <2> QED
    BY <1>5, <2>1, <2>2 DEF OneId
<1>15. \A a \in Acceptors : \A s \in G[a] : Justified(G, d, a, s)
  BY <1>5, <1>12, <1>13
<1>16. World(G, d)
  BY <1>2, <1>8, <1>9, <1>14, <1>15 DEF World
<1> QED
  BY <1>3, <1>16 DEF G, d

-----------------------------------------------------------------------------
(* What is chosen.                                                         *)

(* A proposal that is accepted after another one was chosen has its id.    *)
LEMMA ChosenId ==
    ASSUME NEW H, NEW c, World(H, c), NEW b \in Nat, b > 0, ChosenNum(H, b),
           NEW a \in Acceptors, NEW s \in H[a], b <= s.accepted,
           NEW e \in Acceptors, NEW t \in H[e], t.accepted = b
    PROVE  s.value_id = t.value_id
<1>1. s \in Record /\ t \in Record
  BY DEF World
<1>2. s.accepted \in Nat
  BY <1>1, RecordFields
<1>3. CASE s.accepted = b
  BY <1>3 DEF World, OneId
<1>4. CASE b < s.accepted
  <2>1. PICK P \in SUBSET Acceptors : IsMajority(P) /\ \A p \in P : Vote(H[p], b)
    BY DEF ChosenNum
  <2>2. Safe(H, c, s.accepted, s.value_id)
    BY <1>2, <1>4 DEF World, Justified
  <2>3. PICK Q \in SUBSET Acceptors :
            /\ IsMajority(Q)
            /\ \A q \in Q : /\ b < c[q].promised
                            /\ \A u \in H[q] : u.accepted = b /\ u.promised = b
                                               => u.value_id = s.value_id
    BY <1>2, <1>4, <2>2 DEF Safe
  <2>4. PICK q \in Acceptors : q \in P /\ q \in Q
    BY <2>1, <2>3, MajoritiesMeet
  <2>5. PICK u \in H[q] : u.accepted = b /\ u.promised = b
    BY <2>1, <2>4 DEF Vote
  <2>6. u.value_id = s.value_id
    BY <2>3, <2>4, <2>5
  <2>7. u.value_id = t.value_id
    BY <2>5 DEF World, OneId
  <2> QED
    BY <2>6, <2>7
<1> QED
  BY <1>2, <1>3, <1>4

LEMMA OneChosen ==
    ASSUME NEW H, NEW c, World(H, c), NEW a \in Acceptors, NEW b \in Acceptors,
           NEW s \in H[a], NEW t \in H[b], s.chosen, t.chosen
    PROVE  s.value_id = t.value_id
<1>1. s \in Record /\ t \in Record
  BY DEF World
<1>2. s.accepted \in Nat /\ t.accepted \in Nat
  BY <1>1, RecordFields
<1>3. /\ s.accepted > 0 /\ ChosenNum(H, s.accepted)
      /\ t.accepted > 0 /\ ChosenNum(H, t.accepted)
  BY DEF World, Justified
<1>4. CASE s.accepted <= t.accepted
  BY <1>2, <1>3, <1>4, ChosenId
<1>5. CASE t.accepted <= s.accepted
  BY <1>2, <1>3, <1>5, ChosenId
<1> QED
  BY <1>2, <1>4, <1>5

-----------------------------------------------------------------------------
(* The machine of a replica in the world.                                  *)

(* The record r is a report of the acceptor with history h; a report may   *)
(* miss that it is chosen.                                                 *)
Tells(h, r) ==
    \E s \in h : /\ s.promised = r.promised /\ s.accepted = r.accepted
                 /\ s.value_id = r.value_id /\ (r.chosen => s.chosen)

(* Replica i takes part with its own record, and has reports of the others.*)
Sees(i, recs, H, c) ==
    World(H, c) /\ recs[i] = c[i] /\ \A a \in Acceptors : Tells(H[a], recs[a])

(* The world that replica i makes of H and c by its steps.                 *)
SeesFrom(i, recs, H, c) ==
    \E G : Ext(H, G) /\ Sees(i, recs, G, [c EXCEPT ![i] = recs[i]])

LEMMA TellsMore ==
    ASSUME NEW H, NEW G, Ext(H, G), NEW a \in Acceptors, NEW r, Tells(H[a], r)
    PROVE  Tells(G[a], r)
BY DEF Ext, Tells

LEMMA StepSees ==
    ASSUME NEW H, NEW c \in [Acceptors -> Record], NEW i \in Acceptors, NEW recs \in Machine,
           SeesFrom(i, recs, H, c), NEW q \in Machine,
           \A G, d : Ext(H, G) /\ Sees(i, recs, G, d) =>
                /\ Follow(G, d, i, q[i])
                /\ \A a \in Acceptors : a # i => Tells(G[a], q[a])
    PROVE  SeesFrom(i, q, H, c)
<1> DEFINE d == [c EXCEPT ![i] = recs[i]]
           e == [c EXCEPT ![i] = q[i]]
<1>1. PICK G : Ext(H, G) /\ Sees(i, recs, G, d)
  BY DEF SeesFrom
<1> DEFINE K == Grown(G, i, q[i])
<1>2. e = [d EXCEPT ![i] = q[i]]
  OBVIOUS
<1> HIDE DEF d, e
<1>3. World(G, d) /\ Follow(G, d, i, q[i])
  BY <1>1 DEF Sees
<1>4. World(K, e) /\ Ext(G, K)
  BY <1>2, <1>3, WorldStep
<1> HIDE DEF K
<1>5. Ext(H, K)
  BY <1>1, <1>4 DEF Ext
<1>6. e[i] = q[i]
  BY DEF e
<1>7. q[i] \in K[i]
  BY <1>4, <1>6 DEF World, Past
<1>8. Tells(K[i], q[i])
  BY <1>7 DEF Tells
<1>9. \A a \in Acceptors : a # i => Tells(K[a], q[a])
  BY <1>1, <1>4, TellsMore
<1>10. Sees(i, q, K, e)
  BY <1>4, <1>6, <1>8, <1>9 DEF Sees
<1> QED
  BY <1>5, <1>10 DEF SeesFrom, e

LEMMA GrownExt ==
    ASSUME NEW H, NEW c, World(H, c), NEW i \in Acceptors, NEW x
    PROVE  Ext(H, Grown(H, i, x))
BY DEF World, Ext, Grown

LEMMA OwnRecord ==
    ASSUME NEW i \in Acceptors, NEW recs \in Machine, NEW H, NEW c, Sees(i, recs, H, c)
    PROVE  /\ recs[i] \in H[i] /\ recs[i] = c[i] /\ IsValidRecord(recs[i])
           /\ Justified(H, c, i, recs[i])
           /\ recs[i].prepared = 0 \/ OwnedBy(recs[i].prepared, i)
           /\ World(H, c) /\ \A a \in Acceptors : Tells(H[a], recs[a])
BY DEF Sees, World, Past

(* CalcEntryState marks the own record.                                    *)
LEMMA MarkSees ==
    ASSUME NEW H, NEW c \in [Acceptors -> Record], NEW i \in Acceptors, NEW recs \in Machine,
           SeesFrom(i, recs, H, c)
    PROVE  SeesFrom(i, MarkChosen(i, recs), H, c)
<1> DEFINE x == [recs[i] EXCEPT !.chosen = TRUE]
           q == MarkChosen(i, recs)
<1>1. CASE ~(recs[i].accepted > 0 /\ IsMajority(AcceptedSame(i, recs)))
  BY <1>1 DEF MarkChosen
<1>2. CASE recs[i].accepted > 0 /\ IsMajority(AcceptedSame(i, recs))
  <2>1. recs[i] \in Record
    BY MachineFields
  <2>2. /\ x \in Record /\ x.prepared = recs[i].prepared /\ x.promised = recs[i].promised
        /\ x.accepted = recs[i].accepted /\ x.value_id = recs[i].value_id /\ x.chosen
        /\ x.value = recs[i].value /\ x.id_only = recs[i].id_only
    BY <2>1 DEF Record
  <2>3. q = [recs EXCEPT ![i] = x]
    BY <1>2 DEF MarkChosen
  <2> HIDE DEF x, q
  <2>4. q \in Machine /\ q[i] = x /\ \A a \in Acceptors : a # i => q[a] = recs[a]
    BY <2>2, <2>3 DEF Machine
  <2>5. ASSUME NEW G, NEW d, Sees(i, recs, G, d)
        PROVE  Follow(G, d, i, x) /\ \A a \in Acceptors : a # i => Tells(G[a], q[a])
    <3>1. /\ recs[i] \in G[i] /\ recs[i] = d[i] /\ IsValidRecord(recs[i])
          /\ World(G, d) /\ \A a \in Acceptors : Tells(G[a], recs[a])
      BY <2>5, OwnRecord
    <3>2. ASSUME NEW a \in AcceptedSame(i, recs)
          PROVE  Vote(G[a], recs[i].accepted) \/ ChosenNum(G, recs[i].accepted)
      <4>1. a \in Acceptors /\ recs[a].accepted = recs[i].accepted
        BY DEF AcceptedSame
      <4>2. PICK s \in G[a] : s.accepted = recs[a].accepted
        BY <3>1, <4>1 DEF Tells
      <4>3. Justified(G, d, a, s)
        BY <3>1, <4>1 DEF World
      <4> QED
        BY <1>2, <4>1, <4>2, <4>3 DEF Justified
    <3>3. ChosenNum(G, x.accepted)
      <4>1. AcceptedSame(i, recs) \in SUBSET Acceptors
        BY DEF AcceptedSame
      <4> QED
        BY <1>2, <2>2, <3>2, <4>1 DEF ChosenNum
    <3>4. ChosenNum(Grown(G, i, x), x.accepted)
      BY <3>1, <3>3, GrownExt, ChosenStays
    <3>5. IsValidRecord(x)
      BY <1>2, <2>2, <3>1 DEF IsValidRecord
    <3>6. Kept(G, i, x)
      BY <2>2, <3>1 DEF Kept
    <3>7. Follow(G, d, i, x)
      BY <1>2, <2>1, <2>2, <3>1, <3>4, <3>5, <3>6, RecordFields DEF Follow
    <3> QED
      BY <2>4, <3>1, <3>7
  <2> QED
    BY <2>4, <2>5, StepSees DEF q
<1> QED
  BY <1>1, <1>2

(* The own record follows a report of a peer.                              *)
LEMMA FollowPeerFollows ==
    ASSUME NEW H, NEW c, NEW i \in Acceptors, NEW recs \in Machine, Sees(i, recs, H, c),
           MachineInv(i, recs), ~recs[i].chosen,
           NEW p \in Acceptors, NEW r \in Record, UpdateAccepts(r), Tells(H[p], r)
    PROVE  Follow(H, c, i, FollowPeer(recs[i], r))
<1> DEFINE l == recs[i]
           x == FollowPeer(l, r)
           promised == IF l.promised < r.promised THEN r.promised ELSE l.promised
<1>1. l \in Record /\ UpdateAccepts(l)
  BY MachineFields DEF MachineInv, WellFormed
<1>2. x \in Record /\ UpdateAccepts(x) /\ Advance(l, x) /\ x.prepared = l.prepared
  BY <1>1, FollowFacts
<1>3. ~Adopts(l, promised, r) =>
        x.accepted = l.accepted /\ x.value_id = l.value_id /\ x.chosen = l.chosen
  BY <1>1 DEF FollowPeer, Record
<1>4. Adopts(l, promised, r) =>
        /\ x.accepted = r.accepted /\ x.value_id = r.value_id /\ x.chosen = r.chosen
        /\ x.promised = promised
  BY <1>1 DEF FollowPeer, Record
<1>5. /\ l \in H[i] /\ l = c[i] /\ World(H, c)
  BY OwnRecord
<1>6. PICK s \in H[p] : /\ s.promised = r.promised /\ s.accepted = r.accepted
                        /\ s.value_id = r.value_id /\ (r.chosen => s.chosen)
  BY DEF Tells
<1>7. s.chosen => s.accepted > 0 /\ ChosenNum(H, s.accepted)
  BY <1>5 DEF World, Justified
<1>8. Adopts(l, promised, r) /\ ~r.chosen => x.accepted = x.promised
  <2>1. r.accepted <= r.promised /\ r.accepted \in Nat /\ r.promised \in Nat /\ l.promised \in Nat
    BY <1>1, RecordFields DEF UpdateAccepts, IsValidRecord
  <2> QED
    BY <1>4, <2>1 DEF Adopts
<1> HIDE DEF x, l, promised
<1>9. Kept(H, i, x)
  <2>1. CASE ~Adopts(l, promised, r)
    BY <1>3, <1>5, <2>1 DEF Kept
  <2>2. CASE Adopts(l, promised, r)
    BY <1>4, <1>6, <1>7, <1>8, <2>2 DEF Kept
  <2> QED
    BY <2>1, <2>2
<1>10. x.chosen => x.accepted > 0 /\ ChosenNum(H, x.accepted)
  <2>1. CASE ~Adopts(l, promised, r)
    BY <1>3, <2>1 DEF l
  <2>2. CASE Adopts(l, promised, r)
    BY <1>4, <1>6, <1>7, <2>2
  <2> QED
    BY <2>1, <2>2
<1>11. x.chosen => ChosenNum(Grown(H, i, x), x.accepted)
  BY <1>5, <1>10, GrownExt, ChosenStays
<1>12. Follow(H, c, i, x)
  BY <1>1, <1>2, <1>5, <1>9, <1>10, <1>11, RecordFields DEF Follow, Advance, UpdateAccepts
<1> QED
  BY <1>12 DEF x, l

LEMMA UpdateSees ==
    ASSUME NEW H, NEW c \in [Acceptors -> Record], NEW i \in Acceptors, NEW recs \in Machine,
           SeesFrom(i, recs, H, c), MachineInv(i, recs),
           NEW p \in Acceptors, p # i, NEW r \in Record, Tells(H[p], r)
    PROVE  SeesFrom(i, Update(i, p, recs, r), H, c)
<1>1. CASE ~UpdateAccepts(r) \/ ~IsRecordNewer(recs[p], r)
  BY <1>1 DEF Update
<1>2. CASE UpdateAccepts(r) /\ IsRecordNewer(recs[p], r)
  <2> DEFINE seen == [recs EXCEPT ![p] = r]
             x == FollowPeer(recs[i], r)
             u == [seen EXCEPT ![i] = x]
  <2>1. seen \in Machine /\ seen[i] = recs[i] /\ seen[p] = r
        /\ \A a \in Acceptors : a # p => seen[a] = recs[a]
    BY DEF Machine
  <2>2. recs[i] \in Record
    BY MachineFields
  <2>3. CASE recs[i].chosen
    <3>1. Update(i, p, recs, r) = seen
      BY <1>2, <2>3 DEF Update
    <3> HIDE DEF seen
    <3>2. PICK G : Ext(H, G) /\ Sees(i, recs, G, [c EXCEPT ![i] = recs[i]])
      BY DEF SeesFrom
    <3>3. Tells(G[p], r)
      BY <3>2, TellsMore
    <3>4. Sees(i, seen, G, [c EXCEPT ![i] = seen[i]])
      BY <2>1, <3>2, <3>3 DEF Sees
    <3> QED
      BY <3>1, <3>2, <3>4 DEF SeesFrom
  <2>4. CASE ~recs[i].chosen
    <3>1. Update(i, p, recs, r) = MarkChosen(i, u)
      BY <1>2, <2>1, <2>4 DEF Update
    <3>2. x \in Record
      BY <2>2, FollowPeerType
    <3> HIDE DEF x
    <3>3. /\ u \in Machine /\ u[i] = x /\ u[p] = r
          /\ \A a \in Acceptors : a # i /\ a # p => u[a] = recs[a]
      BY <3>2 DEF Machine
    <3> HIDE DEF seen, u
    <3>4. ASSUME NEW G, NEW d, Ext(H, G), Sees(i, recs, G, d)
          PROVE  Follow(G, d, i, u[i]) /\ \A a \in Acceptors : a # i => Tells(G[a], u[a])
      <4>1. Tells(G[p], r)
        BY <3>4, TellsMore
      <4>2. Follow(G, d, i, x)
        BY <1>2, <2>4, <3>4, <4>1, FollowPeerFollows DEF x
      <4> QED
        BY <3>3, <3>4, <4>1, <4>2 DEF Sees
    <3>5. SeesFrom(i, u, H, c)
      BY <3>3, <3>4, StepSees
    <3>6. SeesFrom(i, MarkChosen(i, u), H, c)
      BY <3>3, <3>5, MarkSees
    <3> QED
      BY <3>1, <3>6
  <2> QED
    BY <2>3, <2>4
<1> QED
  BY <1>1, <1>2 

(* Promise: the next own proposal.                                         *)
LEMMA PromiseSees ==
    ASSUME NEW H, NEW c \in [Acceptors -> Record], NEW i \in Acceptors, NEW recs \in Machine,
           SeesFrom(i, recs, H, c), MachineInv(i, recs), ~recs[i].chosen,
           NEW pre_auth \in BOOLEAN
    PROVE  SeesFrom(i, Promise(i, recs, pre_auth), H, c)
<1> DEFINE b == NextProposal(i, recs[i].promised, pre_auth)
           x == [recs[i] EXCEPT !.prepared = b, !.promised = b]
           p == [recs EXCEPT ![i] = x]
<1>1. /\ recs[i] \in Record /\ UpdateAccepts(recs[i]) /\ recs[i].promised \in Nat
      /\ recs[i].prepared \in Nat /\ recs[i].accepted \in Nat
  BY MachineFields DEF MachineInv, WellFormed
<1>2. b \in Nat /\ b > recs[i].promised /\ OwnedBy(b, i)
  BY <1>1, NextProposalFacts DEF OwnedBy
<1>3. Promise(i, recs, pre_auth) = MarkChosen(i, p)
  BY DEF Promise
<1> HIDE DEF b
<1>4. /\ x \in Record /\ x.prepared = b /\ x.promised = b /\ x.accepted = recs[i].accepted
      /\ x.value_id = recs[i].value_id /\ x.chosen = recs[i].chosen
      /\ x.value = recs[i].value /\ x.id_only = recs[i].id_only
  BY <1>1, <1>2 DEF Record
<1> HIDE DEF x
<1>5. p \in Machine /\ p[i] = x /\ \A a \in Acceptors : a # i => p[a] = recs[a]
  BY <1>4 DEF Machine
<1> HIDE DEF p
<1>6. IsValidRecord(x)
  BY <1>1, <1>2, <1>4 DEF IsValidRecord, UpdateAccepts
<1>7. ASSUME NEW G, NEW d, Sees(i, recs, G, d)
      PROVE  Follow(G, d, i, p[i]) /\ \A a \in Acceptors : a # i => Tells(G[a], p[a])
  <2>1. recs[i] \in G[i] /\ recs[i] = d[i] /\ \A a \in Acceptors : Tells(G[a], recs[a])
    BY <1>7, OwnRecord
  <2>2. Kept(G, i, x)
    BY <1>4, <2>1 DEF Kept
  <2>3. recs[i].prepared <= b
    BY <1>1, <1>2 DEF UpdateAccepts, IsValidRecord
  <2>4. Follow(G, d, i, x)
    BY <1>1, <1>2, <1>4, <1>6, <2>1, <2>2, <2>3 DEF Follow
  <2> QED
    BY <1>5, <2>1, <2>4
<1>8. SeesFrom(i, p, H, c)
  BY <1>5, <1>7, StepSees
<1> QED
  BY <1>3, <1>5, <1>8, MarkSees

(* With the promises of a majority, what Accept takes is safe; so is the   *)
(* first proposal of all.                                                  *)
LEMMA AcceptSafe ==
    ASSUME NEW H, NEW c, NEW i \in Acceptors, NEW recs \in Machine, Sees(i, recs, H, c),
           NEW id, MaxAccepted(recs) # 0 => id = recs[Selected(recs)].value_id,
           IsMajority(PromisedSame(i, recs)) \/ recs[i].promised = 1
    PROVE  Safe(H, c, recs[i].promised, id)
<1> DEFINE n == recs[i].promised
           k == MaxAccepted(recs)
           Q == PromisedSame(i, recs)
<1>1. n \in Nat /\ k \in Nat /\ \A a \in Acceptors : recs[a].accepted <= k /\ recs[a].accepted \in Nat
  BY MachineFields, MaxAcceptedFacts
<1> SUFFICES ASSUME NEW b \in Nat, 0 < b /\ b < n
             PROVE  \E P \in SUBSET Acceptors :
                        /\ IsMajority(P)
                        /\ \A a \in P : /\ b < c[a].promised
                                        /\ \A s \in H[a] : s.accepted = b /\ s.promised = b
                                                           => s.value_id = id
  BY DEF Safe
<1>2. IsMajority(Q) /\ Q \in SUBSET Acceptors
  BY <1>1 DEF PromisedSame
<1>3. World(H, c) /\ \A a \in Acceptors : Tells(H[a], recs[a])
  BY DEF Sees
<1> HIDE DEF Q
<1>4. PICK e \in Acceptors, w \in UNION {H[a] : a \in Acceptors} :
        w \in H[e] /\ w.accepted = k /\ (k # 0 => w.value_id = id)
  <2>1. Selected(recs) \in Acceptors /\ recs[Selected(recs)].accepted = k
    BY SelectedFacts
  <2>2. PICK w \in H[Selected(recs)] : /\ w.accepted = recs[Selected(recs)].accepted
                                       /\ w.value_id = recs[Selected(recs)].value_id
    BY <1>3, <2>1 DEF Tells
  <2> QED
    BY <2>1, <2>2
<1> HIDE DEF k
<1>5. ASSUME NEW a \in Q
      PROVE  /\ a \in Acceptors /\ b < c[a].promised
             /\ \E s \in H[a] : /\ s.promised = n /\ s.accepted <= k /\ s \in Record
                                /\ \A t \in H[a] : t.accepted = b /\ t.promised = b
                                                   => b <= s.accepted \/ s.chosen
  <2>1. a \in Acceptors /\ recs[a].promised = n
    BY <1>2 DEF Q, PromisedSame
  <2>2. PICK s \in H[a] : s.promised = recs[a].promised /\ s.accepted = recs[a].accepted
    BY <1>3, <2>1 DEF Tells
  <2>3. Past(H[a], c[a]) /\ c[a] \in Record /\ s \in Record
    BY <1>3, <2>1 DEF World
  <2>4. s.promised <= c[a].promised /\ c[a].promised \in Nat
    BY <2>3, RecordFields DEF Past
  <2>5. \A t \in H[a] : t.accepted = b /\ t.promised = b => b <= s.accepted \/ s.chosen
    BY <2>1, <2>2, <2>3 DEF Past
  <2> QED
    BY <1>1, <2>1, <2>2, <2>3, <2>4, <2>5
<1>6. CASE b < k
  <2>1. Safe(H, c, k, id)
    BY <1>1, <1>3, <1>4, <1>6 DEF World, Justified
  <2> QED
    BY <1>1, <1>6, <2>1 DEF Safe
<1>7. CASE k <= b
  <2>1. ASSUME NEW a \in Q, NEW t \in H[a], t.accepted = b, t.promised = b
        PROVE  t.value_id = id
    <3>0. a \in Acceptors
      BY <1>5
    <3>1. PICK s \in H[a] : s.promised = n /\ s.accepted <= k /\ s \in Record
                            /\ (b <= s.accepted \/ s.chosen)
      BY <1>5, <2>1
    <3>2. s.accepted \in Nat
      BY <3>1, RecordFields
    <3>3. CASE b <= s.accepted
      <4>1. k = b
        BY <1>1, <1>7, <3>1, <3>2, <3>3
      <4> QED
        BY <1>3, <1>4, <2>1, <3>0, <4>1 DEF World, OneId
    <3>4. CASE s.chosen
      <4>1. s.accepted > 0 /\ ChosenNum(H, s.accepted)
        BY <1>3, <3>0, <3>4 DEF World, Justified
      <4>2. t.value_id = s.value_id
        BY <1>1, <1>3, <1>7, <2>1, <3>0, <3>1, <3>2, <4>1, ChosenId
      <4>3. w.value_id = s.value_id
        BY <1>1, <1>3, <1>4, <3>0, <3>1, <3>2, <4>1, ChosenId
      <4>4. k # 0
        BY <1>1, <3>1, <3>2, <4>1
      <4> QED
        BY <1>4, <4>2, <4>3, <4>4
    <3> QED
      BY <3>1, <3>3, <3>4
  <2> QED
    BY <1>2, <1>5, <2>1
<1> QED
  BY <1>1, <1>6, <1>7

LEMMA AcceptSees ==
    ASSUME NEW H, NEW c \in [Acceptors -> Record], NEW i \in Acceptors, NEW recs \in Machine,
           SeesFrom(i, recs, H, c), MachineInv(i, recs), ~recs[i].chosen,
           recs[i].promised = recs[i].prepared, recs[i].accepted < recs[i].promised,
           IsMajority(PromisedSame(i, recs)) \/ recs[i].promised = 1,
           NEW value \in Values \cup {NoValue}, NEW value_id \in Nat \ {0}
    PROVE  SeesFrom(i, Accept(i, recs, value, value_id), H, c)
<1> DEFINE n == recs[i].promised
           from == recs[Selected(recs)]
           own == MaxAccepted(recs) = 0
           v == IF own THEN value ELSE from.value
           id == IF own THEN value_id ELSE from.value_id
           x == [recs[i] EXCEPT !.accepted = n, !.value = v, !.value_id = id]
           p == [recs EXCEPT ![i] = x]
<1>1. /\ recs[i] \in Record /\ UpdateAccepts(recs[i]) /\ n \in Nat
      /\ recs[i].prepared \in Nat /\ recs[i].accepted \in Nat
  BY MachineFields DEF MachineInv, WellFormed
<1>2. from \in Record /\ UpdateAccepts(from) /\ from.accepted = MaxAccepted(recs)
  BY SelectedFacts, MachineFields DEF MachineInv, WellFormed
<1>3. Accept(i, recs, value, value_id) = MarkChosen(i, p)
  BY DEF Accept, PreparedValueAccepted
<1>4. id \in Nat \ {0} /\ v \in Values \cup {NoValue} /\ (MaxAccepted(recs) # 0 => id = from.value_id)
  BY <1>2 DEF UpdateAccepts, IsValidRecord, Record
<1> HIDE DEF v, id, from, own
<1>5. /\ x \in Record /\ x.prepared = recs[i].prepared /\ x.promised = n /\ x.accepted = n
      /\ x.value_id = id /\ x.chosen = recs[i].chosen /\ x.id_only = recs[i].id_only
  BY <1>1, <1>4 DEF Record
<1> HIDE DEF x
<1>6. p \in Machine /\ p[i] = x /\ \A a \in Acceptors : a # i => p[a] = recs[a]
  BY <1>5 DEF Machine
<1> HIDE DEF p
<1>7. IsValidRecord(x)
  BY <1>1, <1>4, <1>5 DEF IsValidRecord, UpdateAccepts
<1>8. ASSUME NEW G, NEW d, Sees(i, recs, G, d)
      PROVE  Follow(G, d, i, p[i]) /\ \A a \in Acceptors : a # i => Tells(G[a], p[a])
  <2>1. /\ recs[i] \in G[i] /\ recs[i] = d[i] /\ \A a \in Acceptors : Tells(G[a], recs[a])
        /\ World(G, d) /\ (recs[i].prepared = 0 \/ OwnedBy(recs[i].prepared, i))
    BY <1>8, OwnRecord
  <2>2. Safe(G, d, n, id)
    BY <1>4, <1>8, AcceptSafe DEF from
  <2>3. OwnedBy(n, i)
    BY <1>1, <2>1
  <2>4. ASSUME NEW a \in Acceptors, NEW s \in G[a], s.accepted = n PROVE FALSE
    <3>1. UsedUp(d[i], n)
      BY <1>1, <2>1, <2>3, <2>4 DEF World, Justified
    <3> QED
      BY <1>1, <2>1, <3>1 DEF UsedUp
  <2>5. Proposed(G, d, i, x)
    BY <1>5, <2>2, <2>3, <2>4 DEF Proposed
  <2>6. Follow(G, d, i, x)
    BY <1>1, <1>5, <1>7, <2>1, <2>5 DEF Follow
  <2> QED
    BY <1>6, <2>1, <2>6
<1>9. SeesFrom(i, p, H, c)
  BY <1>6, <1>8, StepSees
<1> QED
  BY <1>3, <1>6, <1>9, MarkSees

-----------------------------------------------------------------------------
(* A replica in the world.                                                 *)

(* The record of replica i that counts, with r in its plog.                *)
Counts(i, S, r) == IF S.op = "set" THEN S.recs[i] ELSE r

Held(S) == S.waiting_msg \cup S.out \cup UNION {S.waiting_msgs[a] : a \in Acceptors}

(* Both records of a message are reports: the one of its sender, and what  *)
(* the sender believes of its receiver.                                    *)
Reports(H, m) == Tells(H[m.from], m.local) /\ Tells(H[m.to], m.peer)

(* Everything replica i has heard or holds is in the histories; only the   *)
(* first acceptor may skip the prepare phase of the entry.                 *)
Known(i, S, r, H, c) ==
    /\ World(H, c) /\ c[i] = Counts(i, S, r)
    /\ \A a \in Acceptors : Tells(H[a], S.recs[a])
    /\ \A m \in Held(S) : Reports(H, m)
    /\ S.pre_auth = 0 => i = 0

KnowsFrom(i, S, r, H, c) ==
    \E G : Ext(H, G) /\ Known(i, S, r, G, [c EXCEPT ![i] = Counts(i, S, r)])

(* What replica i may put into a message.                                  *)
Copy(x, y) ==
    /\ x.promised = y.promised /\ x.accepted = y.accepted
    /\ x.value_id = y.value_id /\ (x.chosen => y.chosen)

MayTell(i, S, r, H, m) ==
    /\ m.from = i /\ m.to \in Acceptors
    /\ \E y \in {S.recs[i], Counts(i, S, r), EmptyRecord} : Copy(m.local, y)
    /\ \E z : /\ Copy(m.peer, z)
              /\ z = S.recs[m.to] \/ z = EmptyRecord \/ Tells(H[m.to], z)

(* What most calls of a handler leave alone.                               *)
Same(S, T) ==
    /\ T.recs = S.recs /\ T.op = S.op /\ T.pre_auth = S.pre_auth
    /\ T.waiting_msg = S.waiting_msg /\ T.waiting_msgs = S.waiting_msgs

LEMMA KnownKnows ==
    ASSUME NEW H, NEW c \in [Acceptors -> Record], NEW i \in Acceptors, NEW S, NEW r,
           Known(i, S, r, H, c)
    PROVE  KnowsFrom(i, S, r, H, c)
<1>1. [c EXCEPT ![i] = Counts(i, S, r)] = c
  BY DEF Known
<1>2. Ext(H, H)
  BY DEF Ext
<1> QED
  BY <1>1, <1>2 DEF KnowsFrom

LEMMA ReportsMore ==
    ASSUME NEW H, NEW G, Ext(H, G), NEW m \in PaxosCmd, Reports(H, m)
    PROVE  Reports(G, m)
BY TellsMore DEF Reports, PaxosCmd

LEMMA CopyTells ==
    ASSUME NEW h, NEW x, NEW y, Copy(x, y), Tells(h, y)
    PROVE  Tells(h, x)
BY DEF Copy, Tells

LEMMA MoveKnows ==
    ASSUME NEW H, NEW c, NEW i \in Acceptors, NEW S, NEW r, NEW T,
           KnowsFrom(i, S, r, H, c), Counts(i, T, r) = Counts(i, S, r),
           T.recs = S.recs \/ T.recs = NewMachine, T.pre_auth = S.pre_auth \/ T.pre_auth # 0,
           \A m \in Held(T) : \/ m \in Held(S) \/ MayTell(i, S, r, H, m)
                              \/ m \in PaxosCmd /\ Reports(H, m)
    PROVE  KnowsFrom(i, T, r, H, c)
<1> DEFINE d == [c EXCEPT ![i] = Counts(i, S, r)]
<1>1. PICK G : Ext(H, G) /\ Known(i, S, r, G, d)
  BY DEF KnowsFrom
<1> HIDE DEF d
<1>2. World(G, d) /\ d[i] = Counts(i, S, r)
  BY <1>1 DEF Known
<1>3. \A a \in Acceptors : Tells(G[a], EmptyRecord)
  BY <1>2 DEF World, Past, Tells
<1>4. Tells(G[i], Counts(i, S, r))
  BY <1>2 DEF World, Past, Tells
<1>5. \A a \in Acceptors : Tells(G[a], T.recs[a])
  BY <1>1, <1>3 DEF Known, NewMachine
<1>6. ASSUME NEW m \in Held(T) PROVE Reports(G, m)
  <2>1. CASE m \in Held(S)
    BY <1>1, <2>1 DEF Known
  <2>2. CASE MayTell(i, S, r, H, m)
    <3>1. Tells(G[m.from], m.local)
      BY <1>1, <1>3, <1>4, <2>2, CopyTells DEF MayTell, Known
    <3>2. PICK z : /\ Copy(m.peer, z)
                   /\ z = S.recs[m.to] \/ z = EmptyRecord \/ Tells(H[m.to], z)
      BY <2>2 DEF MayTell
    <3>3. m.to \in Acceptors /\ Tells(G[m.to], z)
      BY <1>1, <1>3, <2>2, <3>2, TellsMore DEF MayTell, Known
    <3> QED
      BY <3>1, <3>2, <3>3, CopyTells DEF Reports
  <2>3. CASE m \in PaxosCmd /\ Reports(H, m)
    BY <1>1, <2>3, ReportsMore
  <2> QED
    BY <2>1, <2>2, <2>3
<1>7. Known(i, T, r, G, d)
  BY <1>1, <1>2, <1>5, <1>6 DEF Known
<1> QED
  BY <1>1, <1>7 DEF KnowsFrom, d

LEMMA SendKnows ==
    ASSUME NEW H, NEW c, NEW i \in Acceptors, NEW S, NEW r, NEW T, NEW M,
           KnowsFrom(i, S, r, H, c), Same(S, T), T.out = S.out \cup M,
           \A m \in M : MayTell(i, S, r, H, m)
    PROVE  KnowsFrom(i, T, r, H, c)
<1>1. Held(T) = Held(S) \cup M
  BY DEF Held, Same
<1>2. Counts(i, T, r) = Counts(i, S, r)
  BY DEF Counts, Same
<1> QED
  BY <1>1, <1>2, MoveKnows DEF Same

LEMMA SameKnows ==
    ASSUME NEW H, NEW c, NEW i \in Acceptors, NEW S, NEW r, NEW T,
           KnowsFrom(i, S, r, H, c), Same(S, T), T.out = S.out
    PROVE  KnowsFrom(i, T, r, H, c)
<1>1. Held(T) = Held(S) /\ Counts(i, T, r) = Counts(i, S, r)
  BY DEF Held, Counts, Same
<1> QED
  BY <1>1, MoveKnows DEF Same

LEMMA SameFields ==
    ASSUME NEW S \in Node
    PROVE  /\ Same(S, FinishErr(S)) /\ FinishErr(S).out = S.out
           /\ Same(S, FinishOk(S)) /\ FinishOk(S).out = S.out
           /\ \A b : Same(S, Check(S, b)) /\ Check(S, b).out = S.out
           /\ \A d : LET T == [S EXCEPT !.drain = d] IN Same(S, T) /\ T.out = S.out
           /\ \A m : Same(S, LearnMaxChosen(S, m)) /\ LearnMaxChosen(S, m).out = S.out
           /\ Same(S, Reset(S)) /\ Reset(S).out = S.out
<1>1. Same(S, FinishErr(S)) /\ FinishErr(S).out = S.out
  BY DEF Same, FinishErr, Node
<1>2. Same(S, FinishOk(S)) /\ FinishOk(S).out = S.out
  BY DEF Same, FinishOk, Node
<1>3. \A b : Same(S, Check(S, b)) /\ Check(S, b).out = S.out
  BY DEF Same, Check, Node
<1>4. \A d : LET T == [S EXCEPT !.drain = d] IN Same(S, T) /\ T.out = S.out
  BY DEF Same, Node
<1>5. \A m : Same(S, LearnMaxChosen(S, m)) /\ LearnMaxChosen(S, m).out = S.out
  BY DEF Same, LearnMaxChosen, Node
<1>6. Same(S, Reset(S)) /\ Reset(S).out = S.out
  BY DEF Same, Reset, Node
<1> QED
  BY <1>1, <1>2, <1>3, <1>4, <1>5, <1>6

LEMMA CountEmptyKnows ==
    ASSUME NEW H, NEW c, NEW i \in Acceptors, NEW S \in Node, NEW r, NEW m,
           KnowsFrom(i, S, r, H, c)
    PROVE  KnowsFrom(i, CountEmpty(i, S, m), r, H, c)
<1> DEFINE T == [S EXCEPT !.empty_flags = S.empty_flags \cup {m.from}]
<1>1. \/ CountEmpty(i, S, m) \in {S, FinishErr(S), T}
      \/ CountEmpty(i, S, m) = FinishOk(T)
  BY DEF CountEmpty
<1>2. Same(S, T) /\ T.out = S.out
  BY DEF Same, Node
<1>3. Same(S, FinishOk(T)) /\ FinishOk(T).out = S.out
  BY DEF Same, FinishOk, Node
<1>4. Same(S, S)
  BY DEF Same
<1> HIDE DEF T
<1> QED
  BY <1>1, <1>2, <1>3, <1>4, SameFields, SameKnows

(* Sending.                                                                *)
LEMMA RemoveCopies ==
    ASSUME NEW m \in PaxosCmd
    PROVE  LET x == RemoveValueInRecord(m) IN
           /\ x.from = m.from /\ x.to = m.to
           /\ Copy(x.local, m.local) /\ Copy(x.peer, m.peer)
<1> DEFINE l == IF m.local.value_id = m.peer.value_id
                THEN [m.local EXCEPT !.value = NoValue, !.id_only = TRUE] ELSE m.local
           p == [m.peer EXCEPT !.value = NoValue, !.id_only = TRUE]
<1>1. m.local \in Record /\ m.peer \in Record
  BY DEF PaxosCmd
<1>2. /\ Copy(l, m.local) /\ Copy(m.local, m.local)
      /\ Copy(p, m.peer) /\ Copy(m.peer, m.peer)
  BY <1>1 DEF Copy, Record
<1>3. RemoveValueInRecord(m) = IF m.peer.value_id = 0 THEN m
                               ELSE [m EXCEPT !.local = l, !.peer = p]
  BY DEF RemoveValueInRecord
<1> HIDE DEF l, p
<1>4. LET x == [m EXCEPT !.local = l, !.peer = p] IN
      x.from = m.from /\ x.to = m.to /\ x.local = l /\ x.peer = p
  BY DEF PaxosCmd
<1> QED
  BY <1>2, <1>3, <1>4

LEMMA CopyTrans ==
    ASSUME NEW x, NEW y, NEW z, Copy(x, y), Copy(y, z)
    PROVE  Copy(x, z)
BY DEF Copy

LEMMA CopySelf == \A x : Copy(x, x)
BY DEF Copy

LEMMA SyncKnows ==
    ASSUME NEW H, NEW c, NEW i \in Acceptors, NEW S \in Node, NEW r,
           NEW P \in SUBSET Acceptors, KnowsFrom(i, S, r, H, c)
    PROVE  KnowsFrom(i, SyncToPeers(i, S, P), r, H, c)
<1> DEFINE M == {RemoveValueInRecord(SyncMsg(i, S, p)) : p \in P}
           T == [S EXCEPT !.out = S.out \cup M]
<1>1. SyncToPeers(i, S, P) = T
  BY DEF SyncToPeers
<1>2. ASSUME NEW p \in P PROVE MayTell(i, S, r, H, RemoveValueInRecord(SyncMsg(i, S, p)))
  <2>1. SyncMsg(i, S, p) \in PaxosCmd
    BY SyncMsgType
  <2>2. /\ SyncMsg(i, S, p).from = i /\ SyncMsg(i, S, p).local = S.recs[i]
        /\ SyncMsg(i, S, p).to = p /\ SyncMsg(i, S, p).peer = S.recs[p]
    BY DEF SyncMsg
  <2>3. LET x == RemoveValueInRecord(SyncMsg(i, S, p)) IN
        x.from = i /\ x.to = p /\ Copy(x.local, S.recs[i]) /\ Copy(x.peer, S.recs[p])
    BY <2>1, <2>2, RemoveCopies
  <2> QED
    BY <2>3 DEF MayTell
<1>3. \A m \in M : MayTell(i, S, r, H, m)
  BY <1>2
<1> HIDE DEF M
<1>4. Same(S, T) /\ T.out = S.out \cup M
  BY DEF Same, Node
<1> QED
  BY <1>1, <1>3, <1>4, SendKnows

LEMMA SendOneKnows ==
    ASSUME NEW H, NEW c, NEW i \in Acceptors, NEW S \in Node, NEW r,
           KnowsFrom(i, S, r, H, c), NEW m \in PaxosCmd, MayTell(i, S, r, H, m)
    PROVE  KnowsFrom(i, Send(S, m), r, H, c)
<1> DEFINE M == {RemoveValueInRecord(m)}
           T == [S EXCEPT !.out = S.out \cup M]
<1>1. Send(S, m) = T
  BY DEF Send
<1>2. MayTell(i, S, r, H, RemoveValueInRecord(m))
  BY RemoveCopies, CopyTrans DEF MayTell
<1>3. \A x \in M : MayTell(i, S, r, H, x)
  BY <1>2
<1> HIDE DEF M
<1>4. Same(S, T) /\ T.out = S.out \cup M
  BY DEF Same, Node
<1> QED
  BY <1>1, <1>3, <1>4, SendKnows

LEMMA CheckEmptyKnows ==
    ASSUME NEW H, NEW c, NEW i \in Acceptors, NEW S \in Node, NEW r,
           KnowsFrom(i, S, r, H, c)
    PROVE  KnowsFrom(i, BroadcastCheckEmpty(i, S), r, H, c)
<1> DEFINE msg(p) == [SyncMsg(i, S, p) EXCEPT !.local = EmptyRecord, !.peer = EmptyRecord,
                                              !.check_empty = TRUE, !.uuid = S.client.uuid]
           M == {msg(p) : p \in Peers(i)}
           T == [S EXCEPT !.out = S.out \cup M]
<1>1. BroadcastCheckEmpty(i, S) = T
  BY DEF BroadcastCheckEmpty
<1>2. \A p \in Peers(i) : /\ msg(p).from = i /\ msg(p).local = EmptyRecord
                          /\ msg(p).to = p /\ msg(p).peer = EmptyRecord
  BY DEF SyncMsg
<1> HIDE DEF msg
<1>3. \A p \in Peers(i) : MayTell(i, S, r, H, msg(p))
  <2> TAKE p \in Peers(i)
  <2>1. /\ msg(p).from = i /\ msg(p).local = EmptyRecord
        /\ msg(p).to = p /\ msg(p).peer = EmptyRecord /\ p \in Acceptors
    BY <1>2 DEF Peers
  <2> QED
    BY <2>1, CopySelf DEF MayTell
<1>4. \A m \in M : MayTell(i, S, r, H, m)
  BY <1>3
<1> HIDE DEF M
<1>5. Same(S, T) /\ T.out = S.out \cup M
  BY DEF Same, Node
<1> QED
  BY <1>1, <1>4, <1>5, SendKnows DEF msg

LEMMA FastFailKnows ==
    ASSUME NEW H, NEW c, NEW i \in Acceptors, NEW S \in Node, NEW r,
           KnowsFrom(i, S, r, H, c), NEW m \in PaxosCmd, MsgOK(i, m), m.check_empty,
           Reports(H, m)
    PROVE  KnowsFrom(i, FastFail(S, m), r, H, c)
<1> DEFINE b == SendBack(m)
           x == [b EXCEPT !.max_chosen = S.max_chosen, !.fast_failed = TRUE, !.check_empty = FALSE]
<1>1. /\ b \in PaxosCmd /\ b.from = i /\ b.local = EmptyRecord
      /\ b.to = m.from /\ b.peer = m.local
  BY SendBackFacts DEF MsgOK
<1>2. FastFail(S, m) = Send(S, x)
  BY DEF FastFail
<1> HIDE DEF b
<1>3. S.max_chosen \in 0 .. Entry
  BY NodeFields
<1>4. /\ x \in PaxosCmd /\ x.from = i /\ x.local = EmptyRecord
      /\ x.to = m.from /\ x.peer = m.local /\ m.from \in Acceptors
  BY <1>1, <1>3 DEF PaxosCmd
<1> HIDE DEF x
<1>5. MayTell(i, S, r, H, x)
  BY <1>4, CopySelf DEF MayTell, Reports
<1> QED
  BY <1>2, <1>4, <1>5, SendOneKnows

(* The answer to a peer that does not know of the choice.                  *)
LEMMA LocalChosenKnows ==
    ASSUME NEW H, NEW c, NEW i \in Acceptors, NEW S, NEW r \in Record,
           KnowsFrom(i, S, r, H, c), Holds(i, S, r, TRUE), LocalChosen(i, S),
           S.op # "load", S.loaded, NEW m \in PaxosCmd, MsgOK(i, m), Reports(H, m)
    PROVE  KnowsFrom(i, HandleIfLocalChosen(i, S, m, r), r, H, c)
<1> DEFINE mine == IF S.mem THEN S.recs[i] ELSE r
           l == [mine EXCEPT !.chosen = TRUE]
           x == [SendBack(m) EXCEPT !.local = l]
<1>0. S \in Node /\ S.recs \in Machine /\ S.recs[i] \in Record
  BY NodeFields DEF Holds
<1>1. CASE m.local.chosen
  BY <1>1 DEF HandleIfLocalChosen
<1>2. CASE ~m.local.chosen
  <2>1. HandleIfLocalChosen(i, S, m, r) = Send(S, x)
    BY <1>2 DEF HandleIfLocalChosen
  <2>2. mine.chosen /\ mine \in {S.recs[i], Counts(i, S, r)}
    <3>1. Shape(S) /\ Intact(i, S, r)
      BY DEF Holds, Local
    <3>2. S.mem /\ state(i, S) = "Chosen" => S.recs[i].chosen
      BY <1>0, StateChosen DEF state
    <3>3. S.op \in {"none", "load", "get", "set"} /\ S.max_cont \in 0 .. Entry
      BY <1>0 DEF Node
    <3>4. CASE S.mem
      BY <3>1, <3>2, <3>3, <3>4, EntryNumbers DEF LocalChosen, Shape, Intact
    <3>5. CASE ~S.mem
      BY <3>1, <3>3, <3>5, EntryNumbers DEF LocalChosen, Shape, Intact, Counts
    <3> QED
      BY <3>4, <3>5
  <2>3. mine \in Record
    BY <1>0
  <2> HIDE DEF mine
  <2>4. l \in Record /\ Copy(l, mine)
    BY <2>2, <2>3 DEF Record, Copy
  <2> HIDE DEF l
  <2>5. /\ SendBack(m) \in PaxosCmd /\ SendBack(m).from = i
        /\ SendBack(m).to = m.from /\ SendBack(m).peer = m.local
    BY SendBackFacts DEF MsgOK
  <2>6. /\ x \in PaxosCmd /\ x.from = i /\ x.local = l
        /\ x.to = m.from /\ x.peer = m.local /\ m.from \in Acceptors
    BY <2>4, <2>5 DEF PaxosCmd
  <2> HIDE DEF x
  <2>7. MayTell(i, S, r, H, x)
    BY <2>2, <2>4, <2>6, CopySelf DEF MayTell, Reports
  <2> QED
    BY <1>0, <2>1, <2>6, <2>7, SendOneKnows
<1> QED
  BY <1>1, <1>2

(* Progress of the entity.                                                 *)
LEMMA HoldsNode ==
    ASSUME NEW i \in Acceptors, NEW S, NEW r, NEW f, Holds(i, S, r, f)
    PROVE  /\ S \in Node /\ S.recs \in Machine /\ S.recs[i] \in Record
           /\ S.op \in {"none", "load", "get", "set"}
           /\ S.max_cont \in 0 .. Entry /\ S.max_chosen \in 0 .. Entry
           /\ S.mem \in BOOLEAN /\ S.active_peer \in Acceptors
BY NodeFields DEF Holds, Node

LEMMA CreateKnows ==
    ASSUME NEW H, NEW c, NEW i \in Acceptors, NEW S \in Node, NEW r,
           KnowsFrom(i, S, r, H, c), Shape(S), NEW pushed \in BOOLEAN
    PROVE  KnowsFrom(i, CreateEntryInfoIfMiss(S, pushed), r, H, c)
<1> DEFINE op == IF S.max_plog < Entry THEN S.op ELSE "get"
           T == [S EXCEPT !.mem = TRUE, !.op = op]
<1>1. CreateEntryInfoIfMiss(S, pushed) = S \/ (~S.mem /\ CreateEntryInfoIfMiss(S, pushed) = T)
  BY DEF CreateEntryInfoIfMiss
<1>2. op = S.op \/ op = "get"
  OBVIOUS
<1> HIDE DEF op
<1>3. /\ T.recs = S.recs /\ T.op = op /\ T.pre_auth = S.pre_auth /\ T.out = S.out
      /\ T.waiting_msg = S.waiting_msg /\ T.waiting_msgs = S.waiting_msgs
  BY DEF Node
<1> HIDE DEF T
<1>4. ~S.mem => Counts(i, T, r) = Counts(i, S, r)
  BY <1>2, <1>3 DEF Counts, Shape
<1>5. Held(T) = Held(S)
  BY <1>3 DEF Held
<1> QED
  BY <1>1, <1>3, <1>4, <1>5, MoveKnows

LEMMA UpdateByChosenKnows ==
    ASSUME NEW H, NEW c, NEW i \in Acceptors, NEW S \in Node, NEW r,
           KnowsFrom(i, S, r, H, c)
    PROVE  KnowsFrom(i, UpdateByChosenEntry(i, S), r, H, c)
<1> DEFINE T == UpdateByChosenEntry(i, S)
           auth == IF HasAcceptedMyProposal(i, S.recs, i) THEN Entry ELSE S.pre_auth
           next == S.max_cont + 1 = Entry
           old == S.old \/ next
           committing == S.committing \/ next
           U == [S EXCEPT !.max_chosen = Entry, !.pre_auth = auth, !.max_cont = Entry,
                          !.old = old, !.committing = committing]
<1>1. T = S \/ T = U
  BY DEF UpdateByChosenEntry
<1>2. auth = S.pre_auth \/ auth = 1
  BY DEF Entry
<1> HIDE DEF auth, next, old, committing
<1>3. /\ U.recs = S.recs /\ U.op = S.op /\ U.pre_auth = auth /\ U.out = S.out
      /\ U.waiting_msg = S.waiting_msg /\ U.waiting_msgs = S.waiting_msgs
  BY DEF Node
<1> HIDE DEF T, U
<1>4. Held(U) = Held(S) /\ Counts(i, U, r) = Counts(i, S, r)
  BY <1>3 DEF Held, Counts
<1>5. KnowsFrom(i, U, r, H, c)
  BY <1>2, <1>3, <1>4, MoveKnows
<1> QED
  BY <1>1, <1>5 DEF T

LEMMA TryCatchupKnows ==
    ASSUME NEW H, NEW c, NEW i \in Acceptors, NEW S, NEW r \in Record,
           Holds(i, S, r, TRUE), KnowsFrom(i, S, r, H, c), S.loaded, S.op # "load",
           NEW pushed \in BOOLEAN, NEW cu
    PROVE  KnowsFrom(i, TryCatchup(i, S, pushed, cu), r, H, c)
<1> DEFINE T == CreateEntryInfoIfMiss(S, pushed)
<1>1. CASE S.max_cont = S.max_chosen \/ (~S.mem /\ cu = "none")
  BY <1>1 DEF TryCatchup
<1>2. CASE ~(S.max_cont = S.max_chosen \/ (~S.mem /\ cu = "none"))
  <2>1. Shape(S) /\ S \in Node /\ S.max_cont \in 0 .. Entry /\ S.max_chosen \in 0 .. Entry
    BY HoldsNode DEF Holds, Local
  <2>2. S.max_cont = 0
    BY <1>2, <2>1, EntryNumbers DEF Shape
  <2>3. Holds(i, T, r, TRUE)
    BY <2>2, CreateHolds
  <2>4. KnowsFrom(i, T, r, H, c)
    BY <2>1, CreateKnows
  <2>5. T \in Node /\ {T.active_peer} \in SUBSET Acceptors
    BY <2>3, HoldsNode
  <2>6. \/ TryCatchup(i, S, pushed, cu) = T
        \/ TryCatchup(i, S, pushed, cu) = UpdateByChosenEntry(i, T)
        \/ TryCatchup(i, S, pushed, cu) = SyncToPeers(i, T, {T.active_peer})
    BY <1>2 DEF TryCatchup
  <2> HIDE DEF T
  <2> QED
    BY <2>4, <2>5, <2>6, UpdateByChosenKnows, SyncKnows
<1> QED
  BY <1>1, <1>2

LEMMA HeldType ==
    ASSUME NEW S \in Node
    PROVE  \A m \in Held(S) : m \in PaxosCmd /\ m.from \in Acceptors
<1>1. /\ S.waiting_msg \in Waiting /\ S.out \subseteq PaxosCmd
      /\ \A a \in Acceptors : S.waiting_msgs[a] \in Waiting
  BY NodeFields
<1>2. Held(S) \subseteq PaxosCmd
  BY <1>1 DEF Held, Waiting
<1> QED
  BY <1>2 DEF PaxosCmd

(* A handler that changes the machine.                                     *)
LEMMA StoredKnows ==
    ASSUME NEW H, NEW c \in [Acceptors -> Record], NEW i \in Acceptors, NEW S \in Node,
           NEW r, NEW T,
           KnowsFrom(i, S, r, H, c), S.recs[i] \in Record, S.recs[i] = Counts(i, S, r),
           \A G, d : Ext(H, G) /\ d \in [Acceptors -> Record] /\ SeesFrom(i, S.recs, G, d)
                     => SeesFrom(i, T.recs, G, d),
           T.recs[i] = Counts(i, T, r), T.pre_auth = S.pre_auth, Held(T) = Held(S)
    PROVE  KnowsFrom(i, T, r, H, c)
<1> DEFINE d == [c EXCEPT ![i] = Counts(i, S, r)]
           e == [c EXCEPT ![i] = Counts(i, T, r)]
<1>1. PICK G : Ext(H, G) /\ Known(i, S, r, G, d)
  BY DEF KnowsFrom
<1>2. d \in [Acceptors -> Record] /\ d[i] = S.recs[i] /\ [d EXCEPT ![i] = S.recs[i]] = d
      /\ [d EXCEPT ![i] = T.recs[i]] = e /\ e[i] = T.recs[i]
  OBVIOUS
<1> HIDE DEF d, e
<1>3. Sees(i, S.recs, G, d)
  BY <1>1, <1>2 DEF Sees, Known
<1>4. SeesFrom(i, S.recs, G, d)
  BY <1>2, <1>3 DEF SeesFrom, Ext
<1>5. SeesFrom(i, T.recs, G, d)
  BY <1>1, <1>2, <1>4
<1>6. PICK K : Ext(G, K) /\ Sees(i, T.recs, K, e)
  BY <1>2, <1>5 DEF SeesFrom
<1>7. ASSUME NEW m \in Held(T) PROVE Reports(K, m)
  <2>1. Reports(G, m)
    BY <1>1 DEF Known
  <2>2. m \in PaxosCmd
    BY HeldType
  <2> QED
    BY <1>6, <2>1, <2>2, ReportsMore
<1>8. Known(i, T, r, K, e)
  BY <1>1, <1>2, <1>6, <1>7 DEF Known, Sees
<1>9. Ext(H, K)
  BY <1>1, <1>6 DEF Ext
<1> QED
  BY <1>8, <1>9 DEF KnowsFrom, e

-----------------------------------------------------------------------------
(* Client commands.                                                        *)

(* A proposal of the first round is made with pre-authorisation only.      *)
LEMMA FirstProposal ==
    ASSUME NEW i \in Acceptors, NEW pre_auth \in BOOLEAN, NEW pn \in Nat,
           NextProposal(i, pn, pre_auth) <= AcceptorNum
    PROVE  pre_auth /\ NextProposal(i, pn, pre_auth) = i + 1
<1> DEFINE N == AcceptorNum
           q == (pn + N - 1) \div N
           b == q * N + i + 1
<1>1. pn = 0
  BY FirstRound
<1>2. N \in Nat /\ N > 0 /\ i \in Nat
  BY AcceptorNumAssumption DEF Acceptors
<1>3. q = 0
  BY <1>1, <1>2, SMTT(30)
<1>4. NextProposal(i, pn, pre_auth) = IF ~pre_auth /\ b <= N THEN b + N ELSE b
  BY DEF NextProposal
<1> HIDE DEF q
<1>5. b = i + 1
  BY <1>2, <1>3
<1> QED
  BY <1>2, <1>4, <1>5

LEMMA PromiseNumber ==
    ASSUME NEW i \in Acceptors, NEW recs \in Machine, NEW pre_auth \in BOOLEAN
    PROVE  Promise(i, recs, pre_auth)[i].promised = NextProposal(i, recs[i].promised, pre_auth)
<1> DEFINE b == NextProposal(i, recs[i].promised, pre_auth)
           x == [recs[i] EXCEPT !.prepared = b, !.promised = b]
           p == [recs EXCEPT ![i] = x]
<1>1. recs[i] \in Record /\ b \in Nat
  BY MachineFields, NextProposalFacts
<1>2. Promise(i, recs, pre_auth) = MarkChosen(i, p)
  BY DEF Promise
<1> HIDE DEF b
<1>3. x \in Record /\ x.promised = b /\ [x EXCEPT !.chosen = TRUE].promised = b
  BY <1>1 DEF Record
<1> HIDE DEF x
<1>4. p \in Machine /\ p[i] = x
  BY <1>3 DEF Machine
<1> HIDE DEF p
<1>5. MarkChosen(i, p) = p \/ MarkChosen(i, p)[i] = [x EXCEPT !.chosen = TRUE]
  BY <1>4, MarkChosenFacts
<1> QED
  BY <1>2, <1>3, <1>4, <1>5 DEF b

(* HandleWriteCmd: the proposal is promised, and accepted at once when it  *)
(* is the very first.                                                      *)
LEMMA HandleWriteKnows ==
    ASSUME NEW H, NEW c \in [Acceptors -> Record], NEW i \in Acceptors, NEW S \in Node,
           NEW r \in Record, Holds(i, FinishErr(S), r, TRUE), KnowsFrom(i, S, r, H, c),
           S.op = "none", S.mem, S.max_cont = 0
    PROVE  KnowsFrom(i, HandleWriteCmd(i, S, TRUE), r, H, c)
<1> DEFINE pre_auth == EnablePreAuth /\ S.pre_auth # NoEntry
                                     /\ S.pre_auth + 1 = Entry
           promised == Promise(i, S.recs, pre_auth)
           cmd == [S.client EXCEPT !.value_id = promised[i].promised]
           P == [S EXCEPT !.recs = promised, !.client = cmd]
           accepted == Accept(i, promised, P.client.value, P.client.value_id)
           B == [P EXCEPT !.recs = accepted]
           A == Check(B, PreparedValueAccepted(promised))
           Q == IF IsLocalAcceptable(i, promised)
                THEN Check(A, state(i, A) = "AcceptLocal") ELSE P
           T == [StoreEntryInfo(Q) EXCEPT !.broadcast = TRUE]
<1>1. /\ S.recs \in Machine /\ S.client \in ClientCmd /\ MachineInv(i, S.recs)
      /\ S.recs[i] \in Record /\ ~S.recs[i].chosen /\ S.recs[i] = r
  <2> DEFINE E == FinishErr(S)
  <2>1. E.recs = S.recs /\ E.op = S.op /\ E.mem = S.mem /\ E.max_cont = S.max_cont
    BY FinishErrFields
  <2> HIDE DEF E
  <2>2. Holds(i, E, r, TRUE)
    BY DEF E
  <2> QED
    BY <2>1, <2>2, NodeFields, EntryNumbers DEF Holds, Local, ChosenKnown, Intact
<1>2. pre_auth \in BOOLEAN /\ (pre_auth => S.pre_auth = 0)
  <2>1. S.pre_auth \in NoEntry .. Entry
    BY DEF Node
  <2> QED
    BY <2>1, BoundsAssumption DEF NoEntry, Entry
<1>3. S.recs[i].promised \in Nat /\ S.recs[i].accepted \in Nat
      /\ S.recs[i].accepted <= S.recs[i].promised
  BY <1>1, MachineFields DEF MachineInv, WellFormed, UpdateAccepts, IsValidRecord
<1> HIDE DEF pre_auth
<1>4. /\ promised \in Machine /\ MachineInv(i, promised)
      /\ ~promised[i].chosen /\ promised[i].promised = promised[i].prepared
      /\ promised[i].promised > S.recs[i].promised
      /\ promised[i].accepted = S.recs[i].accepted
      /\ entry_state(i, promised) = "PromiseLocal"
  BY <1>1, <1>2, PromiseFacts
<1>5. S.pre_auth = 0 => i = 0
  BY DEF KnowsFrom, Known
<1>6. IsLocalAcceptable(i, promised) => promised[i].promised = 1
  <2>1. IsLocalAcceptable(i, promised) => promised[i].promised <= AcceptorNum
    BY <1>4 DEF IsLocalAcceptable
  <2>2. promised[i].promised = NextProposal(i, S.recs[i].promised, pre_auth)
    BY <1>1, <1>2, PromiseNumber
  <2> HIDE DEF promised
  <2> QED
    BY <1>2, <1>3, <1>5, <2>1, <2>2, FirstProposal
<1>7. \A G, d : d \in [Acceptors -> Record] /\ SeesFrom(i, S.recs, G, d)
                => SeesFrom(i, promised, G, d)
  BY <1>1, <1>2, PromiseSees
<1>8. HandleWriteCmd(i, S, TRUE) = T
  BY <1>4 DEF HandleWriteCmd, pre_auth
<1> HIDE DEF promised
<1>9. promised[i].promised \in Nat \ {0} /\ promised[i].accepted < promised[i].promised
  BY <1>3, <1>4, MachineFields
<1>10. cmd.value_id = promised[i].promised /\ cmd.value \in Values \cup {NoValue}
  BY <1>1, <1>9 DEF ClientCmd
<1> HIDE DEF cmd
<1>11. P.client = cmd
  BY DEF Node
<1>12. IsLocalAcceptable(i, promised) =>
         \A G, d : d \in [Acceptors -> Record] /\ SeesFrom(i, promised, G, d)
                   => SeesFrom(i, accepted, G, d)
  BY <1>4, <1>6, <1>9, <1>10, <1>11, AcceptSees
<1> HIDE DEF accepted
<1>13. /\ T.recs = IF IsLocalAcceptable(i, promised) THEN accepted ELSE promised
       /\ T.op = "set" /\ T.pre_auth = S.pre_auth /\ T.out = S.out
       /\ T.waiting_msg = S.waiting_msg /\ T.waiting_msgs = S.waiting_msgs
  BY DEF Node, StoreEntryInfo, Check
<1> HIDE DEF T
<1>14. Held(T) = Held(S) /\ T.recs[i] = Counts(i, T, r) /\ S.recs[i] = Counts(i, S, r)
  BY <1>1, <1>13 DEF Held, Counts
<1>15. \A G, d : d \in [Acceptors -> Record] /\ SeesFrom(i, S.recs, G, d)
                 => SeesFrom(i, T.recs, G, d)
  BY <1>7, <1>12, <1>13
<1>16. KnowsFrom(i, T, r, H, c)
  BY <1>1, <1>13, <1>14, <1>15, StoredKnows
<1> QED
  BY <1>8, <1>16

LEMMA HandleReadKnows ==
    ASSUME NEW H, NEW c \in [Acceptors -> Record], NEW i \in Acceptors, NEW S \in Node,
           NEW r \in Record, Holds(i, FinishErr(S), r, TRUE), KnowsFrom(i, S, r, H, c),
           S.op = "none", S.mem, S.max_cont = 0
    PROVE  KnowsFrom(i, HandleReadCmd(i, S, TRUE), r, H, c)
<1> DEFINE F == [S EXCEPT !.empty_flags = {i}]
<1>1. F \in Node /\ Same(S, F) /\ F.out = S.out
  BY DEF Node, Same
<1>2. HandleReadCmd(i, S, TRUE) \in {HandleWriteCmd(i, S, TRUE), BroadcastCheckEmpty(i, F)}
  BY DEF HandleReadCmd
<1> HIDE DEF F
<1>3. KnowsFrom(i, F, r, H, c)
  BY <1>1, SameKnows
<1> QED
  BY <1>1, <1>2, <1>3, CheckEmptyKnows, HandleWriteKnows

LEMMA DispatchKnows ==
    ASSUME NEW H, NEW c \in [Acceptors -> Record], NEW i \in Acceptors, NEW S \in Node,
           NEW r \in Record, Holds(i, FinishErr(S), r, TRUE), KnowsFrom(i, S, r, H, c),
           S.loaded, S.op # "load", NEW cu
    PROVE  KnowsFrom(i, DispatchClientCmd(i, S, TRUE, cu), r, H, c)
<1> DEFINE E == FinishErr(S)
           T == CreateEntryInfoIfMiss(S, TRUE)
<1>1. /\ E \in Node /\ E.loaded = S.loaded /\ E.op = S.op /\ E.mem = S.mem
      /\ E.max_chosen = S.max_chosen /\ E.max_cont = S.max_cont
      /\ E.recs = S.recs /\ E.old = S.old /\ E.max_plog = S.max_plog
      /\ E.drain = S.drain /\ E.broadcast = S.broadcast /\ E.peer_to_sync = S.peer_to_sync
  BY FinishErrFields
<1>2. KnowsFrom(i, E, r, H, c)
  BY SameFields, SameKnows
<1>3. Holds(i, E, r, TRUE)
  OBVIOUS
<1>4. CASE Entry # S.max_chosen + 1
  <2>1. DispatchClientCmd(i, S, TRUE, cu) = TryCatchup(i, E, TRUE, cu)
    BY <1>4 DEF DispatchClientCmd
  <2> HIDE DEF E
  <2> QED
    BY <1>1, <1>2, <1>3, <2>1, TryCatchupKnows
<1>5. CASE Entry = S.max_chosen + 1
  <2>1. DispatchClientCmd(i, S, TRUE, cu) \in
            {E, FinishErr(T)} \cup (IF T.mem /\ ~uncertain(T)
                THEN {HandleWriteCmd(i, T, TRUE), HandleReadCmd(i, T, TRUE)} ELSE {})
    BY <1>5 DEF DispatchClientCmd, EntryInfoAvailable
  <2>2. T \in Node
    BY CreateType DEF GoodNode
  <2>3. Shape(S) /\ S.max_cont = 0
    <3> HIDE DEF E
    <3>1. Shape(E)
      BY <1>3 DEF Holds, Local
    <3>2. S.max_cont \in 0 .. Entry /\ S.max_chosen \in 0 .. Entry
      BY DEF Node
    <3> QED
      BY <1>1, <1>5, <3>1, <3>2, EntryNumbers DEF Shape
  <2>4. KnowsFrom(i, T, r, H, c)
    BY <2>3, CreateKnows
  <2>5. KnowsFrom(i, FinishErr(T), r, H, c)
    BY <2>2, <2>4, SameFields, SameKnows
  <2>6. Holds(i, FinishErr(T), r, TRUE) /\ FinishErr(T).max_cont = 0
    <3>1. E.loaded /\ E.op # "load" /\ E.max_cont = 0
      BY <1>1, <2>3
    <3> HIDE DEF E
    <3>2. LET N == CreateEntryInfoIfMiss(E, TRUE) IN Holds(i, N, r, TRUE) /\ N.max_cont = 0
      BY <1>3, <3>1, CreateHolds
    <3>3. FinishErr(T) = CreateEntryInfoIfMiss(E, TRUE)
      BY CreateFinish DEF E
    <3> HIDE DEF T
    <3> QED
      BY <3>2, <3>3
  <2>7. T.max_cont = 0 /\ T.op # "load"
    <3>1. T.max_cont = S.max_cont /\ (S.op # "load" => T.op # "load")
      BY DEF CreateEntryInfoIfMiss, Node
    <3> QED
      BY <2>3, <3>1
  <2> HIDE DEF T, E
  <2>8. CASE T.mem /\ ~uncertain(T)
    <3>1. T.op = "none"
      BY <2>2, <2>7, <2>8 DEF uncertain, Node
    <3> QED
      BY <1>2, <2>1, <2>2, <2>4, <2>5, <2>6, <2>7, <2>8, <3>1, HandleWriteKnows, HandleReadKnows
  <2>9. CASE ~(T.mem /\ ~uncertain(T))
    BY <1>2, <2>1, <2>5, <2>9
  <2> QED
    BY <2>8, <2>9
<1> QED
  BY <1>4, <1>5

LEMMA HandleClientCmdKnows ==
    ASSUME NEW H, NEW c \in [Acceptors -> Record], NEW i \in Acceptors, NEW S,
           NEW r \in Record, Holds(i, S, r, TRUE), KnowsFrom(i, S, r, H, c),
           NEW cmd \in ClientCmd, NEW cu
    PROVE  KnowsFrom(i, HandleClientCmd(i, S, cmd, TRUE, cu), r, H, c)
<1> DEFINE T == [S EXCEPT !.client = cmd]
           L == [T EXCEPT !.loaded = TRUE, !.op = "load"]
<1>1. S \in Node /\ T \in Node /\ Same(S, T) /\ T.out = S.out /\ T.loaded = S.loaded
  BY DEF Holds, Node, Same
<1>2. FinishErr(T) = FinishErr(S)
  BY <1>1 DEF FinishErr, Node
<1>3. HandleClientCmd(i, S, cmd, TRUE, cu) =
          IF ~S.loaded THEN L
          ELSE IF loading(S) THEN T ELSE DispatchClientCmd(i, T, TRUE, cu)
  BY DEF HandleClientCmd
<1>4. /\ L.recs = S.recs /\ L.op = "load" /\ L.pre_auth = S.pre_auth /\ L.out = S.out
      /\ L.waiting_msg = S.waiting_msg /\ L.waiting_msgs = S.waiting_msgs
  BY <1>1 DEF Node
<1> HIDE DEF T, L
<1>5. KnowsFrom(i, T, r, H, c)
  BY <1>1, SameKnows
<1>6. CASE ~S.loaded
  <2>1. S.op = "none"
    BY <1>6 DEF Holds, Local, Shape
  <2>2. Held(L) = Held(S) /\ Counts(i, L, r) = Counts(i, S, r)
    BY <1>4, <2>1 DEF Held, Counts
  <2>3. KnowsFrom(i, L, r, H, c)
    BY <1>4, <2>2, MoveKnows
  <2> QED
    BY <1>3, <1>6, <2>3
<1>7. CASE S.loaded
  <2>1. Holds(i, FinishErr(T), r, TRUE)
    BY <1>2, FinishHolds
  <2>2. ~loading(S) => KnowsFrom(i, DispatchClientCmd(i, T, TRUE, cu), r, H, c)
    BY <1>1, <1>5, <1>7, <2>1, DispatchKnows DEF loading, Same
  <2> QED
    BY <1>3, <1>5, <1>7, <2>2
<1> QED
  BY <1>6, <1>7

-----------------------------------------------------------------------------
(* Messages.                                                               *)

LEMMA AcceptIfPromisedSees ==
    ASSUME NEW i \in Acceptors, NEW S \in Node, MachineInv(i, S.recs), Numbered(i, S)
    PROVE  LET T == AcceptIfPromised(i, S) IN
           /\ T.pre_auth = S.pre_auth
           /\ \A H, c : c \in [Acceptors -> Record] /\ SeesFrom(i, S.recs, H, c)
                        => SeesFrom(i, T.recs, H, c)
<1> DEFINE mine == S.client.kind # "none"
           value == IF mine THEN S.client.value ELSE NoValue
           value_id == IF mine THEN S.client.value_id ELSE S.recs[i].promised
           q == Accept(i, S.recs, value, value_id)
           B == [S EXCEPT !.recs = q]
           C == Check(B, entry_state(i, q) = "AcceptLocal")
<1>1. /\ S.recs \in Machine /\ S.client \in ClientCmd /\ UpdateAccepts(S.recs[i])
      /\ S.recs[i].promised \in Nat /\ S.recs[i].prepared \in Nat
      /\ S.recs[i].accepted \in Nat /\ S.recs[i].chosen \in BOOLEAN
  BY NodeFields, MachineFields DEF MachineInv, WellFormed
<1>2. CASE state(i, S) # "MajorityPromise"
  BY <1>2 DEF AcceptIfPromised
<1>3. CASE state(i, S) = "MajorityPromise"
  <2>1. /\ ~S.recs[i].chosen /\ S.recs[i].promised <= S.recs[i].prepared
        /\ S.recs[i].promised # 0 /\ S.recs[i].accepted # S.recs[i].promised
        /\ IsMajority(PromisedSame(i, S.recs))
    BY <1>1, <1>3 DEF state, entry_state
  <2>2. S.recs[i].promised = S.recs[i].prepared /\ S.recs[i].accepted < S.recs[i].promised
    BY <1>1, <2>1 DEF UpdateAccepts, IsValidRecord
  <2>3. value \in Values \cup {NoValue} /\ value_id \in Nat \ {0}
    BY <1>1, <2>1, <2>2 DEF Numbered, ClientCmd
  <2>4. AcceptIfPromised(i, S) = IF PreparedValueAccepted(S.recs) THEN C ELSE FinishErr(C)
    BY <1>3 DEF AcceptIfPromised
  <2> HIDE DEF value, value_id
  <2>5. \A H, c : c \in [Acceptors -> Record] /\ SeesFrom(i, S.recs, H, c)
                  => SeesFrom(i, q, H, c)
    BY <1>1, <2>1, <2>2, <2>3, AcceptSees
  <2> HIDE DEF q
  <2>6. /\ C.recs = q /\ C.pre_auth = S.pre_auth
        /\ FinishErr(C).recs = q /\ FinishErr(C).pre_auth = S.pre_auth
    BY DEF Node, Check, FinishErr
  <2> HIDE DEF C
  <2> QED
    BY <2>4, <2>5, <2>6
<1> QED
  BY <1>2, <1>3

(* UpdateMachineByPaxosCmd, with a report of its sender.                   *)
LEMMA UpdateMachineKnows ==
    ASSUME NEW H, NEW c \in [Acceptors -> Record], NEW i \in Acceptors, NEW S,
           NEW r \in Record, Holds(i, S, r, TRUE), KnowsFrom(i, S, r, H, c),
           S.op = "none", S.mem, S.max_cont = 0,
           NEW m \in PaxosCmd, MsgOK(i, m), Reports(H, m)
    PROVE  KnowsFrom(i, UpdateMachineByPaxosCmd(i, S, m, TRUE), r, H, c)
<1> DEFINE N == UpdateMachineByPaxosCmd(i, S, m, TRUE)
           q == Update(i, m.from, S.recs, m.local)
           U == [S EXCEPT !.recs = q]
           A == AcceptIfPromised(i, U)
           T == Check(A, CalcAsserts(q[i]))
           compensate == /\ state(i, U) # state(i, S)
                         /\ state(i, U) \in {"MajorityPromise", "Chosen"}
           need_sync == IsRecordNewer(m.peer, T.recs[i])
           O == StoreEntryInfo(T)
           sync == IF need_sync THEN m.from ELSE O.peer_to_sync
           comp == IF need_sync THEN compensate ELSE O.compensate
           X == [O EXCEPT !.peer_to_sync = sync, !.compensate = comp]
           V == Check(T, IsLocalEmpty(i, T.recs))
           answer == [SendBack(m) EXCEPT !.check_empty = FALSE]
<1>1. /\ S \in Node /\ S.recs \in Machine /\ MachineInv(i, S.recs) /\ S.ok
      /\ Numbered(i, S) /\ m.from \in Acceptors /\ m.from # i /\ m.local \in Record
      /\ m.peer \in Record /\ S.recs[i] \in Record
  BY NodeFields, MachineFields DEF Holds, Local, MsgOK, PaxosCmd
<1>2. /\ q \in Machine /\ MachineInv(i, q) /\ Advance(S.recs[i], q[i])
      /\ q[i].prepared = S.recs[i].prepared
      /\ ~IsRecordNewer(S.recs[i], q[i]) => q[i] = S.recs[i]
  BY <1>1, UpdateFacts, ZenonT(40)
<1>3. \A G, d : Ext(H, G) /\ d \in [Acceptors -> Record] /\ SeesFrom(i, S.recs, G, d)
                => SeesFrom(i, q, G, d)
  <2>1. Tells(H[m.from], m.local)
    BY DEF Reports
  <2> QED
    BY <1>1, <2>1, TellsMore, UpdateSees
<1>4. \/ N = S \/ N = CountEmpty(i, X, m)
      \/ /\ ~IsRecordNewer(S.recs[i], T.recs[i])
         /\ \/ N = CountEmpty(i, SyncToPeers(i, T, {m.from}), m)
            \/ m.check_empty /\ N = Send(V, answer)
            \/ N = CountEmpty(i, T, m)
  <2>1. U.recs = q
    BY <1>1 DEF Node
  <2>2. X = [StoreEntryInfo(T) EXCEPT !.peer_to_sync = IF need_sync THEN m.from ELSE @,
                                      !.compensate = IF need_sync THEN compensate ELSE @]
    OBVIOUS
  <2>3. N = IF ~UpdateAccepts(m.local) THEN S
            ELSE IF IsRecordNewer(S.recs[i], T.recs[i]) THEN CountEmpty(i, X, m)
            ELSE IF need_sync THEN CountEmpty(i, SyncToPeers(i, T, {m.from}), m)
            ELSE IF m.check_empty THEN Send(V, answer)
            ELSE CountEmpty(i, T, m)
    <3> HIDE DEF X
    <3> QED
      BY <2>1, <2>2, SMTT(30) DEF UpdateMachineByPaxosCmd
  <2> HIDE DEF N, T, X, V, answer, need_sync
  <2> QED
    BY <2>3, SMTT(30)
<1> HIDE DEF q, N
<1>5. /\ U \in Node /\ U.recs = q /\ U.client = S.client /\ U.op = "none" /\ U.ok = S.ok
      /\ U.waiting_msg = S.waiting_msg /\ U.waiting_msgs = S.waiting_msgs
      /\ U.out = S.out /\ U.pre_auth = S.pre_auth
  BY <1>1, <1>2 DEF Node
<1> HIDE DEF U
<1>6. Numbered(i, U)
  BY <1>1, <1>2, <1>5 DEF Numbered
<1>7. /\ A \in Node /\ Advance(q[i], A.recs[i])
      /\ ~IsRecordNewer(q[i], A.recs[i]) => A.recs[i] = q[i]
      /\ A.op = "none" /\ A.waiting_msg = S.waiting_msg
      /\ A.waiting_msgs = S.waiting_msgs /\ A.out = S.out
  BY <1>1, <1>2, <1>5, <1>6, AcceptIfPromisedFacts
<1>8. /\ A.pre_auth = S.pre_auth
      /\ \A G, d : d \in [Acceptors -> Record] /\ SeesFrom(i, q, G, d)
                   => SeesFrom(i, A.recs, G, d)
  BY <1>1, <1>2, <1>5, <1>6, AcceptIfPromisedSees
<1> HIDE DEF A
<1>9. CalcAsserts(q[i]) \in BOOLEAN
  BY <1>2, MachineFields DEF CalcAsserts
<1>10. /\ T \in Node /\ T.recs = A.recs /\ T.op = "none" /\ T.pre_auth = S.pre_auth
       /\ T.waiting_msg = S.waiting_msg /\ T.waiting_msgs = S.waiting_msgs /\ T.out = S.out
  BY <1>7, <1>8, <1>9 DEF Check, Node
<1> HIDE DEF T
<1>11. \A G, d : Ext(H, G) /\ d \in [Acceptors -> Record] /\ SeesFrom(i, S.recs, G, d)
                 => SeesFrom(i, T.recs, G, d)
  BY <1>3, <1>8, <1>10
<1>12. S.recs[i] = r /\ S.recs[i] = Counts(i, S, r)
  BY DEF Holds, Local, Intact, Counts
<1>13. KnowsFrom(i, CountEmpty(i, X, m), r, H, c)
  <2>1. sync \in Acceptors \cup {NoPeer} /\ comp \in BOOLEAN
    BY <1>1, <1>10 DEF Node, StoreEntryInfo, Check
  <2>2. O \in Node /\ O.recs = T.recs /\ O.op = "set" /\ O.pre_auth = S.pre_auth
        /\ O.waiting_msg = S.waiting_msg /\ O.waiting_msgs = S.waiting_msgs /\ O.out = S.out
    <3> DEFINE Z == Check(T, ~uncertain(T))
    <3>1. Z \in Node
      BY <1>10, CheckType DEF GoodNode, uncertain
    <3>2. /\ Z.recs = T.recs /\ Z.pre_auth = S.pre_auth /\ Z.out = S.out
          /\ Z.waiting_msg = S.waiting_msg /\ Z.waiting_msgs = S.waiting_msgs
      BY <1>10, SameFields DEF Same
    <3>3. O = [Z EXCEPT !.op = "set"]
      BY DEF StoreEntryInfo
    <3> HIDE DEF Z
    <3> QED
      BY <3>1, <3>2, <3>3 DEF Node
  <2> HIDE DEF sync, comp, O
  <2>3. X \in Node /\ X.recs = T.recs /\ X.op = "set" /\ X.pre_auth = S.pre_auth
        /\ X.waiting_msg = S.waiting_msg /\ X.waiting_msgs = S.waiting_msgs /\ X.out = S.out
    BY <2>1, <2>2, ZenonT(40) DEF Node
  <2> HIDE DEF X
  <2>4. Held(X) = Held(S) /\ X.recs[i] = Counts(i, X, r)
    BY <2>3 DEF Held, Counts
  <2>5. KnowsFrom(i, X, r, H, c)
    BY <1>1, <1>11, <1>12, <2>3, <2>4, StoredKnows
  <2> QED
    BY <2>3, <2>5, CountEmptyKnows
<1>14. CASE ~IsRecordNewer(S.recs[i], T.recs[i])
  <2>1. T.recs[i] = S.recs[i]
    <3>1. q[i] \in Record /\ A.recs[i] \in Record
      BY <1>2, <1>7, NodeFields, MachineFields
    <3>2. IsRecordNewer(S.recs[i], q[i]) => IsRecordNewer(S.recs[i], A.recs[i])
      BY <1>1, <1>2, <1>7, <3>1, AdvanceTrans
    <3> QED
      BY <1>2, <1>7, <1>10, <1>14, <3>2
  <2>2. Held(T) = Held(S) /\ T.recs[i] = Counts(i, T, r)
    BY <1>10, <1>12, <2>1 DEF Held, Counts
  <2>3. KnowsFrom(i, T, r, H, c)
    BY <1>1, <1>10, <1>11, <1>12, <2>2, StoredKnows
  <2>4. KnowsFrom(i, CountEmpty(i, T, m), r, H, c)
    BY <1>10, <2>3, CountEmptyKnows
  <2>5. KnowsFrom(i, CountEmpty(i, SyncToPeers(i, T, {m.from}), m), r, H, c)
    <3> DEFINE Y == SyncToPeers(i, T, {m.from})
    <3>1. KnowsFrom(i, Y, r, H, c)
      BY <1>1, <1>10, <2>3, SyncKnows
    <3>2. Y \in Node
      BY <1>1, <1>10, SyncToPeersType DEF GoodNode
    <3> HIDE DEF Y
    <3>3. KnowsFrom(i, CountEmpty(i, Y, m), r, H, c)
      BY <3>1, <3>2, CountEmptyKnows
    <3> QED
      BY <3>3 DEF Y
  <2>6. CASE m.check_empty
    <3>1. /\ SendBack(m) \in PaxosCmd /\ SendBack(m).from = i
          /\ SendBack(m).local = EmptyRecord
          /\ SendBack(m).to = m.from /\ SendBack(m).peer = m.local
      BY <2>6, SendBackFacts DEF MsgOK
    <3>2. /\ answer \in PaxosCmd /\ answer.from = i /\ answer.local = EmptyRecord
          /\ answer.to = m.from /\ answer.peer = m.local
      BY <3>1 DEF PaxosCmd
    <3>3. V \in Node
      BY <1>10, CheckType DEF GoodNode, IsLocalEmpty
    <3>4. KnowsFrom(i, V, r, H, c)
      BY <1>10, <2>3, SameFields, SameKnows DEF V
    <3> HIDE DEF V, answer
    <3>5. MayTell(i, V, r, H, answer)
      BY <1>1, <3>2, CopySelf DEF MayTell, Reports
    <3>6. KnowsFrom(i, Send(V, answer), r, H, c)
      BY <3>2, <3>3, <3>4, <3>5, SendOneKnows
    <3> QED
      BY <1>4, <1>13, <2>4, <2>5, <3>6 DEF N
  <2> QED
    BY <1>4, <1>13, <2>4, <2>5, <2>6 DEF N
<1> QED
  BY <1>4, <1>13, <1>14 DEF N

LEMMA RestoredTells ==
    ASSUME NEW S \in Node, NEW m \in PaxosCmd
    PROVE  LET x == RestoreValue(S, m) IN
           /\ x.from = m.from /\ x.to = m.to
           /\ Copy(x.local, m.local) /\ Copy(x.peer, m.peer)
<1> DEFINE restored(x) == IF x.id_only THEN RestoreValueInRecord(S.recs, x) ELSE x
           l == restored(m.local)
           p == restored(m.peer)
<1>1. m.local \in Record /\ m.peer \in Record
  BY DEF PaxosCmd
<1>2. ASSUME NEW u \in Record PROVE Copy(restored(u), u)
  <2> DEFINE h == {a \in Acceptors : S.recs[a].value_id = u.value_id}
             first == CHOOSE a \in h : \A b \in h : a <= b
             v == S.recs[first].value
             y == [u EXCEPT !.id_only = FALSE, !.value = v]
             z == [u EXCEPT !.id_only = FALSE, !.value = NoValue, !.chosen = FALSE]
  <2>1. restored(u) \in {u, y, z}
    BY DEF RestoreValueInRecord
  <2> HIDE DEF restored, v
  <2>2. Copy(y, u) /\ Copy(z, u) /\ Copy(u, u)
    BY DEF Copy, Record
  <2> HIDE DEF y, z
  <2> QED
    BY <2>1, <2>2
<1>3. RestoreValue(S, m) = [m EXCEPT !.local = l, !.peer = p]
  BY DEF RestoreValue
<1>4. Copy(l, m.local) /\ Copy(p, m.peer)
  BY <1>1, <1>2
<1> HIDE DEF l, p
<1>5. LET x == [m EXCEPT !.local = l, !.peer = p] IN
      x.from = m.from /\ x.to = m.to /\ x.local = l /\ x.peer = p
  BY DEF PaxosCmd
<1> QED
  BY <1>3, <1>4, <1>5

LEMMA ParkKnows ==
    ASSUME NEW H, NEW c, NEW i \in Acceptors, NEW S \in Node, NEW r,
           KnowsFrom(i, S, r, H, c), NEW m \in PaxosCmd, Reports(H, m),
           NEW a \in Acceptors
    PROVE  LET T == [S EXCEPT !.waiting_msgs = [S.waiting_msgs EXCEPT ![a] = {m}]] IN
           KnowsFrom(i, T, r, H, c)
<1> DEFINE w == [S.waiting_msgs EXCEPT ![a] = {m}]
           T == [S EXCEPT !.waiting_msgs = w]
<1>1. m.from \in Acceptors
  BY DEF PaxosCmd
<1>2. \A b \in Acceptors : \A x \in w[b] : x = m \/ x \in S.waiting_msgs[b]
  BY NodeFields
<1> HIDE DEF w
<1>3. /\ T.recs = S.recs /\ T.op = S.op /\ T.pre_auth = S.pre_auth /\ T.out = S.out
      /\ T.waiting_msg = S.waiting_msg /\ T.waiting_msgs = w
  BY DEF Node
<1> HIDE DEF T
<1>4. \A x \in Held(T) : x \in Held(S) \/ x = m
  BY <1>2, <1>3 DEF Held
<1>5. Counts(i, T, r) = Counts(i, S, r)
  BY <1>3 DEF Counts
<1>6. KnowsFrom(i, T, r, H, c)
  BY <1>1, <1>3, <1>4, <1>5, MoveKnows
<1> QED
  BY <1>6 DEF T, w

LEMMA HandleLoadedKnows ==
    ASSUME NEW H, NEW c \in [Acceptors -> Record], NEW i \in Acceptors, NEW S,
           NEW r \in Record, Holds(i, S, r, TRUE), KnowsFrom(i, S, r, H, c),
           S.loaded, S.op # "load",
           NEW m \in PaxosCmd, MsgOK(i, m), Reports(H, m), NEW cu
    PROVE  KnowsFrom(i, HandleLoadedPaxosCmd(i, S, m, r, TRUE, cu), r, H, c)
<1> DEFINE N == HandleLoadedPaxosCmd(i, S, m, r, TRUE, cu)
           L == LearnMaxChosen(S, m)
           mine == L.client.kind # "none" /\ L.client.uuid = m.uuid
           F == IF mine THEN FinishErr(L) ELSE L
           T == CreateEntryInfoIfMiss(L, TRUE)
           x == RestoreValue(T, m)
           P == [T EXCEPT !.waiting_msgs = [T.waiting_msgs EXCEPT ![m.from] = {x}]]
           C == Check(T, ~T.broadcast /\ T.peer_to_sync = NoPeer)
           M == UpdateMachineByPaxosCmd(i, C, x, TRUE)
<1>1. Holds(i, L, r, TRUE) /\ Steady(S, L) /\ L.op = S.op
  BY LearnHolds
<1>2. KnowsFrom(i, L, r, H, c)
  BY SameFields, SameKnows DEF Holds
<1>3. N = IF m.check_empty /\ Entry <= L.max_chosen THEN FastFail(L, m)
          ELSE IF m.fast_failed THEN TryCatchup(i, F, TRUE, cu)
          ELSE IF LocalChosen(i, L) THEN HandleIfLocalChosen(i, L, m, r)
          ELSE IF ~T.mem THEN L
          ELSE IF uncertain(T) THEN P
          ELSE TryCatchup(i, M, TRUE, cu)
  <2> HIDE DEF L
  <2>1. P = [T EXCEPT !.waiting_msgs = [@ EXCEPT ![m.from] = {x}]]
    OBVIOUS
  <2> HIDE DEF P
  <2> QED
    BY <2>1 DEF HandleLoadedPaxosCmd, EntryInfoAvailable, L
<1> HIDE DEF L, N
<1>4. L \in Node /\ L.loaded /\ L.op # "load" /\ m.from \in Acceptors
  BY <1>1 DEF Holds, Steady, PaxosCmd
<1>5. m.check_empty => KnowsFrom(i, FastFail(L, m), r, H, c)
  BY <1>2, <1>4, FastFailKnows
<1>6. KnowsFrom(i, TryCatchup(i, F, TRUE, cu), r, H, c)
  <2>1. Holds(i, FinishErr(L), r, TRUE) /\ Steady(L, FinishErr(L))
    BY <1>1, FinishHolds
  <2>2. KnowsFrom(i, FinishErr(L), r, H, c)
    BY <1>2, <1>4, SameFields, SameKnows
  <2>3. Holds(i, F, r, TRUE) /\ KnowsFrom(i, F, r, H, c) /\ F.loaded /\ F.op # "load"
    BY <1>1, <1>2, <1>4, <2>1, <2>2 DEF Steady
  <2> HIDE DEF F
  <2> QED
    BY <2>3, TryCatchupKnows
<1>7. LocalChosen(i, L) => KnowsFrom(i, HandleIfLocalChosen(i, L, m, r), r, H, c)
  BY <1>1, <1>2, <1>4, LocalChosenKnows
<1>8. CASE /\ ~(m.check_empty /\ Entry <= L.max_chosen) /\ ~m.fast_failed
           /\ ~LocalChosen(i, L)
  <2>1. L.max_cont = 0 /\ Shape(L)
    BY <1>1, <1>4, <1>8, EntryNumbers DEF LocalChosen, Node, Holds, Local
  <2>2. /\ Holds(i, T, r, TRUE) /\ Steady(L, T) /\ T.max_cont = 0
    BY <1>1, <1>4, <2>1, CreateHolds
  <2>3. KnowsFrom(i, T, r, H, c)
    BY <1>2, <1>4, <2>1, CreateKnows
  <2> HIDE DEF T
  <2>4. T \in Node /\ T.loaded /\ T.op # "load"
    BY <1>4, <2>2 DEF Holds, Steady
  <2>5. x \in PaxosCmd /\ MsgOK(i, x)
    BY <2>4, RestoredOK
  <2>6. x.from = m.from /\ Reports(H, x)
    BY <2>4, RestoredTells, CopyTells DEF Reports
  <2> HIDE DEF x
  <2>7. KnowsFrom(i, P, r, H, c)
    BY <1>4, <2>3, <2>4, <2>5, <2>6, ParkKnows
  <2> HIDE DEF P
  <2>8. CASE T.mem /\ ~uncertain(T)
    <3>1. T.op = "none"
      BY <2>4, <2>8 DEF uncertain, Node
    <3>2. C = T
      BY <2>2, <2>4, <3>1, CheckTrue DEF Holds, Local, Shape
    <3>3. M = UpdateMachineByPaxosCmd(i, T, x, TRUE)
      BY <3>2
    <3> HIDE DEF M
    <3>4. Holds(i, M, r, TRUE) /\ Steady(T, M)
      BY <2>2, <2>5, <2>8, <3>1, <3>3, UpdateMachineHolds
    <3>5. KnowsFrom(i, M, r, H, c)
      BY <2>2, <2>3, <2>5, <2>6, <2>8, <3>1, <3>3, UpdateMachineKnows
    <3>6. M.loaded /\ M.op # "load"
      BY <2>4, <3>4 DEF Steady
    <3>7. KnowsFrom(i, TryCatchup(i, M, TRUE, cu), r, H, c)
      BY <3>4, <3>5, <3>6, TryCatchupKnows
    <3> QED
      BY <1>3, <1>8, <2>8, <3>7 DEF N
  <2>9. CASE ~(T.mem /\ ~uncertain(T))
    BY <1>2, <1>3, <1>8, <2>7, <2>9 DEF N
  <2> QED
    BY <2>8, <2>9
<1> HIDE DEF F, T
<1> QED
  BY <1>3, <1>5, <1>6, <1>7, <1>8 DEF N

LEMMA HandlePaxosCmdKnows ==
    ASSUME NEW H, NEW c \in [Acceptors -> Record], NEW i \in Acceptors, NEW S,
           NEW r \in Record, Holds(i, S, r, TRUE), KnowsFrom(i, S, r, H, c),
           NEW m \in PaxosCmd, MsgOK(i, m), Reports(H, m), NEW cu
    PROVE  KnowsFrom(i, HandlePaxosCmd(i, S, m, r, TRUE, cu), r, H, c)
<1> DEFINE A == [S EXCEPT !.loaded = TRUE, !.op = "load", !.waiting_msg = {m}]
           B == [S EXCEPT !.waiting_msg = {m}]
<1>1. S \in Node /\ m.from \in Acceptors
  BY DEF Holds, PaxosCmd
<1>2. HandlePaxosCmd(i, S, m, r, TRUE, cu) =
          IF ~S.loaded THEN A
          ELSE IF loading(S) THEN B ELSE HandleLoadedPaxosCmd(i, S, m, r, TRUE, cu)
  BY DEF HandlePaxosCmd
<1>3. /\ A.recs = S.recs /\ A.op = "load" /\ A.pre_auth = S.pre_auth /\ A.out = S.out
      /\ A.waiting_msg = {m} /\ A.waiting_msgs = S.waiting_msgs
      /\ B.recs = S.recs /\ B.op = S.op /\ B.pre_auth = S.pre_auth /\ B.out = S.out
      /\ B.waiting_msg = {m} /\ B.waiting_msgs = S.waiting_msgs
  BY <1>1 DEF Node
<1> HIDE DEF A, B
<1>4. \A x \in Held(A) \cup Held(B) : x \in Held(S) \/ x = m
  BY <1>3 DEF Held
<1>5. Counts(i, B, r) = Counts(i, S, r) /\ (~S.loaded => Counts(i, A, r) = Counts(i, S, r))
  BY <1>3 DEF Counts, Holds, Local, Shape
<1>6. CASE ~S.loaded
  <2>1. KnowsFrom(i, A, r, H, c)
    BY <1>1, <1>3, <1>4, <1>5, <1>6, MoveKnows
  <2> QED
    BY <1>2, <1>6, <2>1
<1>7. CASE S.loaded /\ loading(S)
  <2>1. KnowsFrom(i, B, r, H, c)
    BY <1>1, <1>3, <1>4, <1>5, MoveKnows
  <2> QED
    BY <1>2, <1>7, <2>1
<1>8. CASE S.loaded /\ ~loading(S)
  BY <1>2, <1>8, HandleLoadedKnows DEF loading
<1> QED
  BY <1>6, <1>7, <1>8

-----------------------------------------------------------------------------
(* The loop of HandleWaitingMsg and the responses of the PlogWorker.       *)

LEMMA EndOfLoopKnows ==
    ASSUME NEW H, NEW c, NEW i \in Acceptors, NEW S, NEW r \in Record,
           Holds(i, S, r, TRUE), KnowsFrom(i, S, r, H, c), S.loaded, S.op # "load",
           NEW pushed \in BOOLEAN, NEW cu
    PROVE  KnowsFrom(i, EndOfLoop(i, S, pushed, cu), r, H, c)
<1> DEFINE T == [S EXCEPT !.drain = "no"]
<1>1. Holds(i, T, r, TRUE) /\ T.loaded /\ T.op # "load"
  BY DrainHolds
<1>2. KnowsFrom(i, T, r, H, c)
  BY SameFields, SameKnows DEF Holds
<1>3. EndOfLoop(i, S, pushed, cu) \in {S, TryCatchup(i, T, pushed, cu), T}
  BY DEF EndOfLoop
<1> HIDE DEF T
<1> QED
  BY <1>1, <1>2, <1>3, TryCatchupKnows

LEMMA UnparkKnows ==
    ASSUME NEW H, NEW c, NEW i \in Acceptors, NEW S \in Node, NEW r,
           KnowsFrom(i, S, r, H, c), NEW a \in Acceptors
    PROVE  LET T == [S EXCEPT !.waiting_msgs = [S.waiting_msgs EXCEPT ![a] = {}]] IN
           KnowsFrom(i, T, r, H, c)
<1> DEFINE w == [S.waiting_msgs EXCEPT ![a] = {}]
           T == [S EXCEPT !.waiting_msgs = w]
<1>1. \A b \in Acceptors : \A x \in w[b] : x \in S.waiting_msgs[b]
  BY NodeFields
<1> HIDE DEF w
<1>2. /\ T.recs = S.recs /\ T.op = S.op /\ T.pre_auth = S.pre_auth /\ T.out = S.out
      /\ T.waiting_msg = S.waiting_msg /\ T.waiting_msgs = w
  BY DEF Node
<1> HIDE DEF T
<1>3. \A x \in Held(T) : x \in Held(S)
  BY <1>1, <1>2 DEF Held
<1>4. Counts(i, T, r) = Counts(i, S, r)
  BY <1>2 DEF Counts
<1>5. KnowsFrom(i, T, r, H, c)
  BY <1>2, <1>3, <1>4, MoveKnows
<1> QED
  BY <1>5 DEF T, w

LEMMA HandleWaitingMsgKnows ==
    ASSUME NEW H, NEW c \in [Acceptors -> Record], NEW i \in Acceptors, NEW S,
           NEW r \in Record, Holds(i, S, r, TRUE), Known(i, S, r, H, c),
           S.drain # "no", S.waiting_msgs # NoWaiting, NEW cu
    PROVE  KnowsFrom(i, HandleWaitingMsg(i, S, r, TRUE, cu), r, H, c)
<1> DEFINE full == {a \in Acceptors : S.waiting_msgs[a] # {}}
           a == NextWaiting(S)
           m == CHOOSE x \in S.waiting_msgs[a] : TRUE
           T == [S EXCEPT !.waiting_msgs = [S.waiting_msgs EXCEPT ![a] = {}]]
           N == HandleLoadedPaxosCmd(i, T, m, r, TRUE, cu)
<1>1. /\ S \in Node /\ S.waiting_msgs \in [Acceptors -> Waiting]
      /\ S.loaded /\ S.op # "load"
  BY NodeFields DEF Holds, Local, Shape
<1>2. full # {}
  BY <1>1 DEF NoWaiting
<1>3. a \in Acceptors /\ S.waiting_msgs[a] # {}
  <2>1. \E b \in full : \A e \in full : b <= e
    BY <1>2, FirstAcceptor
  <2>2. NextWaiting(S) = CHOOSE b \in Acceptors :
              /\ S.waiting_msgs[b] # {}
              /\ \A e \in Acceptors : S.waiting_msgs[e] # {} => b <= e
    BY DEF NextWaiting
  <2> QED
    BY <2>1, <2>2
<1>4. HandleWaitingMsg(i, S, r, TRUE, cu) = EndOfLoop(i, N, TRUE, cu)
  <2>1. T = [S EXCEPT !.waiting_msgs = [@ EXCEPT ![a] = {}]]
    OBVIOUS
  <2> HIDE DEF T
  <2> QED
    BY <2>1 DEF HandleWaitingMsg
<1> HIDE DEF a
<1>5. m \in PaxosCmd /\ MsgOK(i, m) /\ Reports(H, m)
  <2>1. m \in S.waiting_msgs[a]
    BY <1>3
  <2>2. m \in Held(S)
    BY <1>3, <2>1 DEF Held
  <2> QED
    BY <1>1, <1>3, <2>1, <2>2 DEF Holds, Local, Parked, Waiting, Known
<1> HIDE DEF m
<1>6. Holds(i, T, r, TRUE) /\ Steady(S, T)
  BY <1>3, UnparkHolds
<1>7. KnowsFrom(i, T, r, H, c)
  BY <1>1, <1>3, KnownKnows, UnparkKnows
<1> HIDE DEF T
<1>8. T.loaded /\ T.op # "load"
  BY <1>1, <1>6 DEF Steady
<1>9. Holds(i, N, r, TRUE) /\ Steady(T, N)
  BY <1>5, <1>6, <1>8, HandleLoadedHolds
<1>10. KnowsFrom(i, N, r, H, c)
  BY <1>5, <1>6, <1>7, <1>8, HandleLoadedKnows
<1> HIDE DEF N
<1>11. N.loaded /\ N.op # "load"
  BY <1>8, <1>9 DEF Steady
<1> QED
  BY <1>4, <1>9, <1>10, <1>11, EndOfLoopKnows

(* The stored record counts as it did in memory.                           *)
LEMMA HandleSetKnows ==
    ASSUME NEW H, NEW c, NEW i \in Acceptors, NEW S, NEW s, Holds(i, S, s, TRUE),
           KnowsFrom(i, S, s, H, c), S.op = "set"
    PROVE  KnowsFrom(i, HandleSetFromPlog(i, S, TRUE), S.recs[i], H, c)
<1> DEFINE r == S.recs[i]
           U == [S EXCEPT !.op = "none"]
           V == UpdateByChosenEntry(i, U)
           W == FinishIfChosen(i, V)
           Y == SyncPersistent(i, W)
           X == [Reset(Y) EXCEPT !.drain = "set"]
           E == [X EXCEPT !.drain = "no"]
           O == [Y EXCEPT !.broadcast = FALSE, !.compensate = FALSE,
                          !.peer_to_sync = NoPeer, !.drain = "set"]
<1>1. S \in Node /\ S.peer_to_sync # i
  BY DEF Holds, Local, Parked
<1>2. KnowsFrom(i, S, r, H, c)
  BY DEF KnowsFrom, Known, Counts
<1>3. HandleSetFromPlog(i, S, TRUE) =
          IF ~W.broadcast /\ W.peer_to_sync = NoPeer THEN W
          ELSE EndOfLoop(i, O, TRUE, "none")
  BY DEF HandleSetFromPlog
<1>4. /\ U \in Node /\ U.peer_to_sync = S.peer_to_sync /\ U.op = "none"
      /\ U.recs = S.recs /\ U.pre_auth = S.pre_auth /\ U.out = S.out
      /\ U.waiting_msg = S.waiting_msg /\ U.waiting_msgs = S.waiting_msgs
  BY <1>1 DEF Node
<1> HIDE DEF U, r
<1>5. KnowsFrom(i, U, r, H, c)
  <2>1. Held(U) = Held(S) /\ Counts(i, U, r) = Counts(i, S, r)
    BY <1>4 DEF Held, Counts, r
  <2> QED
    BY <1>2, <1>4, <2>1, MoveKnows
<1>6. V \in Node /\ KnowsFrom(i, V, r, H, c)
  BY <1>4, <1>5, UpdateByChosenType, UpdateByChosenKnows DEF GoodNode
<1>7. V.peer_to_sync = S.peer_to_sync
  BY <1>4 DEF UpdateByChosenEntry, Node
<1> HIDE DEF V
<1>8. W \in Node /\ KnowsFrom(i, W, r, H, c) /\ W.peer_to_sync = S.peer_to_sync
  <2>1. FinishOk(V) \in Node /\ FinishOk(V).peer_to_sync = V.peer_to_sync
    BY <1>6, FinishType DEF GoodNode, FinishOk, Node
  <2>2. KnowsFrom(i, FinishOk(V), r, H, c)
    BY <1>6, SameFields, SameKnows
  <2>3. W = V \/ W = FinishOk(V)
    BY DEF FinishIfChosen
  <2> HIDE DEF W
  <2> QED
    BY <1>6, <1>7, <2>1, <2>2, <2>3
<1> HIDE DEF W
<1>9. CASE ~W.broadcast /\ W.peer_to_sync = NoPeer
  BY <1>3, <1>8, <1>9 DEF r
<1>10. CASE ~(~W.broadcast /\ W.peer_to_sync = NoPeer)
  <2>1. PICK P \in SUBSET Peers(i) : Y = SyncToPeers(i, W, P)
    BY <1>1, <1>8, <1>10, SyncPersistentFacts
  <2>2. P \in SUBSET Acceptors
    BY DEF Peers
  <2>3. Y \in Node /\ KnowsFrom(i, Y, r, H, c)
    BY <1>8, <2>1, <2>2, SyncToPeersType, SyncKnows DEF GoodNode
  <2> HIDE DEF Y
  <2>4. Reset(Y) \in Node /\ KnowsFrom(i, Reset(Y), r, H, c)
    BY <2>3, ResetFields, SameFields, SameKnows
  <2>5. O = X /\ X \in Node /\ X.drain = "set"
    BY <2>3 DEF Reset, Node
  <2>6. KnowsFrom(i, X, r, H, c)
    BY <2>4, SameFields, SameKnows
  <2> HIDE DEF O, X
  <2>7. KnowsFrom(i, E, r, H, c)
    BY <2>5, <2>6, SameFields, SameKnows
  <2>8. EndOfLoop(i, X, TRUE, "none") \in {X, E}
    BY <2>5 DEF EndOfLoop
  <2> QED
    BY <1>3, <1>10, <2>5, <2>6, <2>7, <2>8 DEF r
<1> QED
  BY <1>9, <1>10

(* The machine of an entry that was read from the plog.                    *)
LEMMA MachineRead ==
    ASSUME NEW i \in Acceptors, NEW r \in Record, UpdateAccepts(r)
    PROVE  LET q == Update(i, i, NewMachine, r) IN
           /\ q \in Machine /\ MachineInv(i, q) /\ q[i] = r
           /\ \A a \in Acceptors : a # i => q[a] = EmptyRecord
<1> DEFINE q == Update(i, i, NewMachine, r)
           p == [NewMachine EXCEPT ![i] = r]
<1>1. q \in Machine /\ MachineInv(i, q) /\ q[i] = r
  BY LoadFacts
<1>2. p \in Machine /\ \A a \in Acceptors : a # i => p[a] = EmptyRecord
  BY EmptyRecordType DEF Machine, NewMachine
<1>3. q = NewMachine \/ q = MarkChosen(i, p)
  BY DEF Update
<1> HIDE DEF q, p
<1>4. \A a \in Acceptors : a # i => MarkChosen(i, p)[a] = p[a]
  BY <1>2 DEF MarkChosen, Machine
<1>5. \A a \in Acceptors : a # i => q[a] = EmptyRecord
  BY <1>2, <1>3, <1>4 DEF NewMachine
<1> QED
  BY <1>1, <1>5 DEF q

LEMMA HandleGetKnows ==
    ASSUME NEW H, NEW c \in [Acceptors -> Record], NEW i \in Acceptors, NEW S,
           NEW r \in Record, Holds(i, S, r, TRUE), KnowsFrom(i, S, r, H, c),
           Settled(S), S.op = "get", NEW pushed \in BOOLEAN, NEW cu
    PROVE  KnowsFrom(i, HandleGetFromPlog(i, S, r, TRUE, pushed, cu), r, H, c)
<1> DEFINE U == [S EXCEPT !.op = "none"]
           q == Update(i, i, U.recs, r)
           V == [U EXCEPT !.recs = q]
           C == UpdateByChosenEntry(i, V)
           X == [C EXCEPT !.drain = "get"]
<1>1. S \in Node /\ S.recs = NewMachine /\ UpdateAccepts(r)
  BY DEF Holds, Local, Shape, Covered
<1>2. HandleGetFromPlog(i, S, r, TRUE, pushed, cu) = EndOfLoop(i, X, pushed, cu)
  BY <1>1 DEF HandleGetFromPlog
<1>3. X = RecordRead(i, S, r)
  BY DEF RecordRead
<1>4. Holds(i, X, r, TRUE) /\ X.loaded /\ X.op # "load" /\ Settled(X)
  <2> HIDE DEF X
  <2> QED
    BY <1>3, RecordReadHolds
<1>5. /\ U \in Node /\ U.op = "none" /\ U.recs = NewMachine /\ U.pre_auth = S.pre_auth
      /\ U.out = S.out /\ U.waiting_msg = S.waiting_msg /\ U.waiting_msgs = S.waiting_msgs
  BY <1>1 DEF Node
<1> HIDE DEF U
<1>6. q \in Machine /\ q[i] = r /\ \A a \in Acceptors : a # i => q[a] = EmptyRecord
  BY <1>1, <1>5, MachineRead
<1> HIDE DEF q
<1>7. /\ V \in Node /\ V.op = "none" /\ V.recs = q /\ V.pre_auth = S.pre_auth
      /\ V.out = S.out /\ V.waiting_msg = S.waiting_msg /\ V.waiting_msgs = S.waiting_msgs
  BY <1>5, <1>6 DEF Node
<1> HIDE DEF V
<1>8. KnowsFrom(i, V, r, H, c)
  <2> DEFINE d == [c EXCEPT ![i] = r]
  <2>1. Counts(i, S, r) = r /\ Counts(i, V, r) = r /\ Held(V) = Held(S) /\ d[i] = r
    BY <1>7 DEF Counts, Held
  <2>2. PICK G : Ext(H, G) /\ Known(i, S, r, G, d)
    BY <2>1 DEF KnowsFrom
  <2> HIDE DEF d
  <2>3. \A a \in Acceptors : Tells(G[a], q[a])
    BY <1>6, <2>1, <2>2 DEF Known, World, Past, Tells
  <2>4. Known(i, V, r, G, d)
    BY <1>7, <2>1, <2>2, <2>3 DEF Known
  <2> QED
    BY <2>1, <2>2, <2>4 DEF KnowsFrom, d
<1>9. C \in Node /\ KnowsFrom(i, C, r, H, c)
  BY <1>7, <1>8, UpdateByChosenType, UpdateByChosenKnows DEF GoodNode
<1> HIDE DEF C
<1>10. KnowsFrom(i, X, r, H, c)
  BY <1>9, SameFields, SameKnows
<1> HIDE DEF X
<1> QED
  BY <1>2, <1>4, <1>10, EndOfLoopKnows

LEMMA HandleLoadKnows ==
    ASSUME NEW H, NEW c \in [Acceptors -> Record], NEW i \in Acceptors, NEW S,
           NEW r \in Record, Holds(i, S, r, TRUE), Known(i, S, r, H, c),
           S.op = "load", NEW b \in BOOLEAN, b => r.chosen, NEW cu
    PROVE  KnowsFrom(i, HandleLoadFromPlog(i, S, r, b, TRUE, cu), r, H, c)
<1> DEFINE U == EntityLoaded(S, r, b)
           m == CHOOSE x \in S.waiting_msg : TRUE
           V == IF S.waiting_msg = {} THEN U
                ELSE HandleLoadedPaxosCmd(i, U, m, r, TRUE, cu)
<1>1. HandleLoadFromPlog(i, S, r, b, TRUE, cu) =
          IF V.client.kind = "none" THEN V ELSE DispatchClientCmd(i, V, TRUE, cu)
  BY DEF HandleLoadFromPlog, EntityLoaded
<1>2. Holds(i, U, r, TRUE) /\ U.loaded /\ U.op = "none"
  BY EntityLoadedHolds
<1>3. KnowsFrom(i, U, r, H, c)
  <2>1. S \in Node
    BY DEF Holds
  <2>2. /\ U.recs = S.recs /\ U.op = "none" /\ U.pre_auth = S.pre_auth /\ U.out = S.out
        /\ U.waiting_msg = {} /\ U.waiting_msgs = S.waiting_msgs
    BY <2>1 DEF EntityLoaded, UpdateByLoadFromPlog, Node
  <2> HIDE DEF U
  <2>3. (\A x \in Held(U) : x \in Held(S)) /\ Counts(i, U, r) = Counts(i, S, r)
    BY <2>2 DEF Held, Counts
  <2> QED
    BY <2>2, <2>3, KnownKnows, MoveKnows
<1> HIDE DEF U
<1>4. S.waiting_msg # {} => m \in PaxosCmd /\ MsgOK(i, m) /\ Reports(H, m)
  BY NodeFields DEF Holds, Local, Parked, Waiting, Known, Held
<1> HIDE DEF m
<1>5. Holds(i, V, r, TRUE) /\ KnowsFrom(i, V, r, H, c) /\ V.loaded /\ V.op # "load"
  <2>1. CASE S.waiting_msg = {}
    BY <1>2, <1>3, <2>1
  <2>2. CASE S.waiting_msg # {}
    <3> DEFINE N == HandleLoadedPaxosCmd(i, U, m, r, TRUE, cu)
    <3>1. Holds(i, N, r, TRUE) /\ Steady(U, N)
      BY <1>2, <1>4, <2>2, HandleLoadedHolds
    <3>2. KnowsFrom(i, N, r, H, c)
      BY <1>2, <1>3, <1>4, <2>2, HandleLoadedKnows
    <3>3. V = N
      BY <2>2
    <3> HIDE DEF N, V
    <3> QED
      BY <1>2, <3>1, <3>2, <3>3 DEF Steady
  <2> QED
    BY <2>1, <2>2
<1> HIDE DEF V
<1>6. Holds(i, FinishErr(V), r, TRUE) /\ V \in Node
  BY <1>5, FinishHolds DEF Holds
<1>7. KnowsFrom(i, DispatchClientCmd(i, V, TRUE, cu), r, H, c)
  BY <1>5, <1>6, DispatchKnows
<1> QED
  BY <1>1, <1>5, <1>7

-----------------------------------------------------------------------------
(* The steps of the system.                                                *)

(* The entry leaves the memory, or the process stops.                      *)
LEMMA DestroyKnows ==
    ASSUME NEW H, NEW c, NEW i \in Acceptors, NEW S \in Node, NEW r,
           KnowsFrom(i, S, r, H, c), S.op # "set"
    PROVE  KnowsFrom(i, DestroyEntryInfo(S), r, H, c)
<1> DEFINE T == DestroyEntryInfo(S)
<1>1. /\ T.recs = NewMachine /\ T.op = S.op /\ T.pre_auth = S.pre_auth /\ T.out = S.out
      /\ T.waiting_msg = S.waiting_msg /\ T.waiting_msgs = NoWaiting
  BY DEF DestroyEntryInfo, Node
<1> HIDE DEF T
<1>2. Counts(i, T, r) = Counts(i, S, r)
  BY <1>1 DEF Counts
<1>3. \A m \in Held(T) : m \in Held(S)
  BY <1>1 DEF Held, NoWaiting
<1>4. KnowsFrom(i, T, r, H, c)
  BY <1>1, <1>2, <1>3, MoveKnows
<1> QED
  BY <1>4 DEF T

LEMMA AbsentKnows ==
    ASSUME NEW H, NEW c, NEW i \in Acceptors, NEW r, World(H, c), c[i] = r
    PROVE  LET A == EntityAbsent(i)
               T == [A EXCEPT !.loaded = TRUE] IN
           Known(i, A, r, H, c) /\ Known(i, T, r, H, c)
<1> DEFINE A == EntityAbsent(i)
           T == [A EXCEPT !.loaded = TRUE]
<1>1. A \in Node
  BY EntityAbsentType
<1>2. /\ A.recs = NewMachine /\ A.op = "none" /\ (A.pre_auth = 0 => i = 0) /\ A.out = {}
      /\ A.waiting_msg = {} /\ A.waiting_msgs = NoWaiting
  BY DEF EntityAbsent, NoEntry
<1> HIDE DEF A
<1>3. /\ T.recs = NewMachine /\ T.op = "none" /\ (T.pre_auth = 0 => i = 0) /\ T.out = {}
      /\ T.waiting_msg = {} /\ T.waiting_msgs = NoWaiting
  BY <1>1, <1>2 DEF Node
<1> HIDE DEF T
<1>4. Held(A) = {} /\ Held(T) = {} /\ Counts(i, A, r) = r /\ Counts(i, T, r) = r
  BY <1>2, <1>3 DEF Held, Counts, NoWaiting
<1>5. \A a \in Acceptors : Tells(H[a], NewMachine[a])
  BY DEF World, Past, Tells, NewMachine
<1> QED
  BY <1>2, <1>3, <1>4, <1>5 DEF Known, A, T

(* The histories account for every replica and every message under way.    *)
Accounts(H, c) ==
    /\ World(H, c)
    /\ \A i \in Acceptors : Known(i, node[i], plog[i], H, c)
    /\ \A m \in net : Reports(H, m)

AgreementInv == Undamaged => \E H, c : Accounts(H, c)

LEMMA AccountsBefore ==
    ASSUME AgreementInv, Undamaged', NoFault' => NoFault, CleanStops \/ crashes' = crashes
    PROVE  \E H : \E c \in [Acceptors -> Record] : Accounts(H, c)
BY DEF AgreementInv, Accounts, Undamaged, NoFault, World

LEMMA GoKnows ==
    ASSUME TypeInv, NEW H, NEW c \in [Acceptors -> Record], Accounts(H, c),
           NEW i \in Acceptors, NEW S \in Node, NEW N0, Go(i, S, N0), N0 \subseteq net,
           \A j \in Acceptors : j # i => plog'[j] = plog[j],
           KnowsFrom(i, S, plog'[i], H, c)
    PROVE  AgreementInv'
<1> DEFINE T == [S EXCEPT !.out = {}, !.done = NoCmd]
           d == [c EXCEPT ![i] = Counts(i, S, plog'[i])]
<1>1. PICK G : Ext(H, G) /\ Known(i, S, plog'[i], G, d)
  BY DEF KnowsFrom
<1>2. World(G, d) /\ \A j \in Acceptors : j # i => d[j] = c[j]
  BY <1>1 DEF Known
<1> HIDE DEF d
<1>3. /\ T.op = S.op /\ T.recs = S.recs /\ T.pre_auth = S.pre_auth /\ T.out = {}
      /\ T.waiting_msg = S.waiting_msg /\ T.waiting_msgs = S.waiting_msgs
  BY DEF Node
<1>4. node' = [node EXCEPT ![i] = T] /\ net' = N0 \cup S.out
  BY DEF Go
<1>5. node'[i] = T /\ \A j \in Acceptors : j # i => node'[j] = node[j]
  BY <1>4 DEF TypeInv, TypeOK
<1> HIDE DEF T
<1>6. Known(i, T, plog'[i], G, d)
  <2>1. Counts(i, T, plog'[i]) = Counts(i, S, plog'[i]) /\ Held(T) \subseteq Held(S)
    BY <1>3 DEF Counts, Held
  <2> QED
    BY <1>1, <1>3, <2>1 DEF Known
<1>7. ASSUME NEW j \in Acceptors, j # i PROVE Known(j, node[j], plog[j], G, d)
  <2>1. Known(j, node[j], plog[j], H, c) /\ node[j] \in Node
    BY DEF Accounts, TypeInv, TypeOK
  <2>2. \A a \in Acceptors : Tells(G[a], node[j].recs[a])
    BY <1>1, <2>1, TellsMore DEF Known
  <2>3. \A m \in Held(node[j]) : Reports(G, m)
    BY <1>1, <2>1, HeldType, ReportsMore DEF Known
  <2> QED
    BY <1>2, <1>7, <2>1, <2>2, <2>3 DEF Known
<1>8. \A j \in Acceptors : Known(j, node'[j], plog'[j], G, d)
  BY <1>5, <1>6, <1>7
<1>9. ASSUME NEW m \in net' PROVE Reports(G, m)
  <2>1. CASE m \in net
    BY <1>1, <2>1, ReportsMore DEF Accounts, TypeInv, TypeOK
  <2>2. CASE m \in S.out
    BY <1>1, <2>2 DEF Known, Held
  <2> QED
    BY <1>4, <2>1, <2>2
<1> QED
  BY <1>2, <1>8, <1>9 DEF AgreementInv, Accounts

LEMMA ClientAgrees ==
    ASSUME TypeInv, DurableInv, AgreementInv, Undamaged', NEW i \in Acceptors,
           NEW cmd \in ClientCmd, cmd.kind # "none", Idle(i),
           NEW pushed \in BOOLEAN, NEW cu, PlogQueue(pushed),
           Go(i, HandleClientCmd(i, node[i], cmd, pushed, cu), net),
           UNCHANGED <<plog, evictions, crashes>>
    PROVE  AgreementInv'
<1>1. NoFault' /\ NoFault /\ pushed = TRUE
  BY QueueFault DEF Undamaged, NoFault
<1>2. PICK H : \E c \in [Acceptors -> Record] : Accounts(H, c)
  BY <1>1, AccountsBefore
<1>3. PICK c \in [Acceptors -> Record] : Accounts(H, c)
  BY <1>2
<1>4. Holds(i, node[i], plog[i], TRUE) /\ Settled(node[i]) /\ plog[i] \in Record
  BY <1>1, NodeHolds
<1>5. KnowsFrom(i, node[i], plog[i], H, c)
  BY <1>3, KnownKnows DEF Accounts
<1> DEFINE N == HandleClientCmd(i, node[i], cmd, TRUE, cu)
<1>6. N \in Node
  BY <1>4, HandleClientCmdHolds DEF Idle, Holds
<1>7. KnowsFrom(i, N, plog'[i], H, c)
  BY <1>4, <1>5, HandleClientCmdKnows
<1>8. Go(i, N, net)
  BY <1>1
<1> HIDE DEF N
<1> QED
  BY <1>3, <1>6, <1>7, <1>8, GoKnows

LEMMA ReceiveAgrees ==
    ASSUME TypeInv, DurableInv, AgreementInv, Undamaged', NEW m \in net, ReceivePaxosCmd(m)
    PROVE  AgreementInv'
<1> DEFINE i == m.to
           N0 == IF Duplicates THEN net ELSE net \ {m}
<1>1. i \in Acceptors /\ m \in PaxosCmd /\ MsgOK(i, m) /\ N0 \subseteq net
  BY DEF DurableInv, TypeInv, TypeOK, PaxosCmd
<1> HIDE DEF N0
<1>2. PICK pushed \in BOOLEAN, cu \in CatchupChoicesAt(i, m.max_chosen) :
        PlogQueue(pushed) /\ Go(i, HandlePaxosCmd(i, node[i], m, plog[i], pushed, cu), N0)
  BY DEF ReceivePaxosCmd, N0
<1>3. UNCHANGED <<plog, evictions, crashes>> /\ Idle(i)
  BY DEF ReceivePaxosCmd
<1> HIDE DEF i
<1>4. NoFault' /\ NoFault /\ pushed = TRUE
  BY <1>2, <1>3, QueueFault DEF Undamaged, NoFault
<1>5. PICK H : \E c \in [Acceptors -> Record] : Accounts(H, c)
  BY <1>3, <1>4, AccountsBefore
<1>6. PICK c \in [Acceptors -> Record] : Accounts(H, c)
  BY <1>5
<1>7. Holds(i, node[i], plog[i], TRUE) /\ Settled(node[i]) /\ plog[i] \in Record
  BY <1>1, <1>4, NodeHolds
<1>8. KnowsFrom(i, node[i], plog[i], H, c) /\ Reports(H, m)
  BY <1>1, <1>6, KnownKnows DEF Accounts
<1> DEFINE N == HandlePaxosCmd(i, node[i], m, plog[i], TRUE, cu)
<1>9. N \in Node
  BY <1>1, <1>3, <1>7, HandlePaxosCmdHolds DEF Idle, Holds
<1>10. KnowsFrom(i, N, plog'[i], H, c)
  BY <1>1, <1>3, <1>7, <1>8, HandlePaxosCmdKnows
<1>11. Go(i, N, N0)
  BY <1>2, <1>4
<1> HIDE DEF N
<1> QED
  BY <1>1, <1>3, <1>6, <1>9, <1>10, <1>11, GoKnows

LEMMA TimeoutAgrees ==
    ASSUME TypeInv, DurableInv, AgreementInv, Undamaged', NEW i \in Acceptors,
           ClientTimeout(i)
    PROVE  AgreementInv'
<1>1. /\ plog' = plog /\ evictions' = evictions /\ plogErrors' = plogErrors
      /\ crashes' = crashes /\ Go(i, FinishErr(node[i]), net)
  BY DEF ClientTimeout
<1>2. NoFault' => NoFault
  BY <1>1 DEF NoFault
<1>3. PICK H : \E c \in [Acceptors -> Record] : Accounts(H, c)
  BY <1>1, <1>2, AccountsBefore
<1>4. PICK c \in [Acceptors -> Record] : Accounts(H, c)
  BY <1>3
<1>5. node[i] \in Node
  BY DEF TypeInv, TypeOK
<1>6. KnowsFrom(i, node[i], plog[i], H, c)
  BY <1>4, KnownKnows DEF Accounts
<1>7. FinishErr(node[i]) \in Node
  BY <1>5, NoCmdType DEF FinishErr, Node
<1>8. KnowsFrom(i, FinishErr(node[i]), plog[i], H, c)
  BY <1>5, <1>6, SameFields, SameKnows
<1> QED
  BY <1>1, <1>4, <1>7, <1>8, GoKnows

LEMMA SetAgrees ==
    ASSUME TypeInv, DurableInv, AgreementInv, Undamaged', NEW i \in Acceptors,
           PlogSetRecord(i)
    PROVE  AgreementInv'
<1>1. PICK success \in BOOLEAN, written \in BOOLEAN :
        /\ PlogResult(success) /\ (success => written)
        /\ plog' = IF written THEN [plog EXCEPT ![i] = node[i].recs[i]] ELSE plog
        /\ Go(i, HandleSetFromPlog(i, node[i], success), net)
  BY DEF PlogSetRecord
<1>2. crashes' = crashes /\ evictions' = evictions /\ node[i].op = "set"
  BY DEF PlogSetRecord
<1>3. NoFault' /\ NoFault /\ success = TRUE
  BY <1>1, <1>2, QueueFault DEF Undamaged, NoFault, PlogResult
<1>4. PICK H : \E c \in [Acceptors -> Record] : Accounts(H, c)
  BY <1>2, <1>3, AccountsBefore
<1>5. PICK c \in [Acceptors -> Record] : Accounts(H, c)
  BY <1>4
<1>6. /\ \A j \in Acceptors : j # i => plog'[j] = plog[j]
      /\ plog'[i] = node[i].recs[i] /\ plog'[i] \in Record
  BY <1>1, <1>2, <1>3, WrittenPlog
<1>7. /\ Holds(i, node[i], plog[i], TRUE) /\ Settled(node[i]) /\ node[i].out = {}
      /\ plog[i] \in Record
  BY <1>3, NodeHolds
<1>8. KnowsFrom(i, node[i], plog[i], H, c)
  BY <1>5, KnownKnows DEF Accounts
<1> DEFINE N == HandleSetFromPlog(i, node[i], TRUE)
<1>9. N \in Node
  BY <1>2, <1>6, <1>7, HandleSetHolds DEF Holds
<1>10. KnowsFrom(i, N, plog'[i], H, c)
  BY <1>2, <1>6, <1>7, <1>8, HandleSetKnows
<1>11. Go(i, N, net)
  BY <1>1, <1>3
<1> HIDE DEF N
<1> QED
  BY <1>5, <1>6, <1>9, <1>10, <1>11, GoKnows

LEMMA GetAgrees ==
    ASSUME TypeInv, DurableInv, AgreementInv, Undamaged', NEW i \in Acceptors,
           PlogGetRecord(i)
    PROVE  AgreementInv'
<1>1. PICK success \in BOOLEAN, pushed \in BOOLEAN, cu \in CatchupChoices :
        /\ PlogResult(success /\ pushed)
        /\ Go(i, HandleGetFromPlog(i, node[i], plog[i], success, pushed, cu), net)
  BY DEF PlogGetRecord
<1>2. /\ plog' = plog /\ evictions' = evictions /\ crashes' = crashes
      /\ node[i].op = "get"
  BY DEF PlogGetRecord
<1>3. NoFault' /\ NoFault /\ success = TRUE
  BY <1>1, <1>2, QueueFault DEF Undamaged, NoFault, PlogResult
<1>4. PICK H : \E c \in [Acceptors -> Record] : Accounts(H, c)
  BY <1>2, <1>3, AccountsBefore
<1>5. PICK c \in [Acceptors -> Record] : Accounts(H, c)
  BY <1>4
<1>6. Holds(i, node[i], plog[i], TRUE) /\ Settled(node[i]) /\ plog[i] \in Record
  BY <1>3, NodeHolds
<1>7. KnowsFrom(i, node[i], plog[i], H, c)
  BY <1>5, KnownKnows DEF Accounts
<1> DEFINE N == HandleGetFromPlog(i, node[i], plog[i], TRUE, pushed, cu)
<1>8. N \in Node
  BY <1>2, <1>6, HandleGetHolds DEF Holds
<1>9. KnowsFrom(i, N, plog'[i], H, c)
  BY <1>2, <1>6, <1>7, HandleGetKnows
<1>10. Go(i, N, net)
  BY <1>1, <1>3
<1> HIDE DEF N
<1> QED
  BY <1>2, <1>5, <1>8, <1>9, <1>10, GoKnows

LEMMA LoadAgrees ==
    ASSUME TypeInv, DurableInv, AgreementInv, Undamaged', NEW i \in Acceptors, PlogLoad(i)
    PROVE  AgreementInv'
<1> DEFINE b == i \in db
<1>1. PICK success \in BOOLEAN, pushed \in BOOLEAN, cu \in CatchupChoices :
        /\ PlogResult(success /\ pushed)
        /\ Go(i, IF success
                 THEN HandleLoadFromPlog(i, node[i], plog[i], b, pushed, cu)
                 ELSE EntityAbsent(i), net)
  BY DEF PlogLoad
<1>2. /\ plog' = plog /\ evictions' = evictions /\ crashes' = crashes
      /\ node[i].op = "load"
  BY DEF PlogLoad
<1>3. NoFault' /\ NoFault /\ success = TRUE /\ pushed = TRUE
  BY <1>1, <1>2, QueueFault DEF Undamaged, NoFault, PlogResult
<1>4. b \in BOOLEAN /\ (b => plog[i].chosen)
  <2>1. b => plog[i].chosen
    BY <1>3 DEF DurableInv
  <2> QED
    BY <2>1
<1> HIDE DEF b
<1>5. PICK H : \E c \in [Acceptors -> Record] : Accounts(H, c)
  BY <1>2, <1>3, AccountsBefore
<1>6. PICK c \in [Acceptors -> Record] : Accounts(H, c)
  BY <1>5
<1>7. Holds(i, node[i], plog[i], TRUE) /\ plog[i] \in Record
  BY <1>3, NodeHolds
<1> DEFINE N == HandleLoadFromPlog(i, node[i], plog[i], b, TRUE, cu)
<1>8. N \in Node
  BY <1>2, <1>4, <1>7, HandleLoadHolds DEF Holds
<1>9. KnowsFrom(i, N, plog'[i], H, c)
  <2>1. Known(i, node[i], plog[i], H, c)
    BY <1>6 DEF Accounts
  <2> QED
    BY <1>2, <1>4, <1>7, <2>1, HandleLoadKnows
<1>10. Go(i, N, net)
  BY <1>1, <1>3
<1> HIDE DEF N
<1> QED
  BY <1>2, <1>6, <1>8, <1>9, <1>10, GoKnows

LEMMA DrainAgrees ==
    ASSUME TypeInv, DurableInv, AgreementInv, Undamaged', NEW i \in Acceptors,
           DrainWaitingMsg(i)
    PROVE  AgreementInv'
<1>1. PICK pushed \in BOOLEAN, cu \in CatchupChoices :
        PlogQueue(pushed) /\ Go(i, HandleWaitingMsg(i, node[i], plog[i], pushed, cu), net)
  BY DEF DrainWaitingMsg
<1>2. /\ plog' = plog /\ evictions' = evictions /\ crashes' = crashes
      /\ node[i].drain # "no" /\ node[i].waiting_msgs # NoWaiting
  BY DEF DrainWaitingMsg, Idle, TypeInv, DrainInv, Draining
<1>3. NoFault' /\ NoFault /\ pushed = TRUE
  BY <1>1, <1>2, QueueFault DEF Undamaged, NoFault
<1>4. PICK H : \E c \in [Acceptors -> Record] : Accounts(H, c)
  BY <1>2, <1>3, AccountsBefore
<1>5. PICK c \in [Acceptors -> Record] : Accounts(H, c)
  BY <1>4
<1>6. Holds(i, node[i], plog[i], TRUE) /\ Settled(node[i]) /\ plog[i] \in Record
  BY <1>3, NodeHolds
<1> DEFINE N == HandleWaitingMsg(i, node[i], plog[i], TRUE, cu)
<1>7. N \in Node
  BY <1>2, <1>6, HandleWaitingMsgHolds DEF Holds
<1>8. KnowsFrom(i, N, plog'[i], H, c)
  <2>1. Known(i, node[i], plog[i], H, c)
    BY <1>5 DEF Accounts
  <2> QED
    BY <1>2, <1>6, <2>1, HandleWaitingMsgKnows
<1>9. Go(i, N, net)
  BY <1>1, <1>3
<1> HIDE DEF N
<1> QED
  BY <1>2, <1>5, <1>7, <1>8, <1>9, GoKnows

LEMMA CatchupAgrees ==
    ASSUME TypeInv, DurableInv, AgreementInv, Undamaged', NEW i \in Acceptors,
           IterateAndCatchup(i)
    PROVE  AgreementInv'
<1>1. PICK pushed \in BOOLEAN, cu \in CatchupChoices :
        PlogQueue(pushed) /\ Go(i, TryCatchup(i, node[i], pushed, cu), net)
  BY DEF IterateAndCatchup
<1>2. /\ plog' = plog /\ evictions' = evictions /\ crashes' = crashes /\ node[i].loaded
      /\ node[i].max_cont # node[i].max_chosen
  BY DEF IterateAndCatchup
<1>3. NoFault' /\ NoFault
  BY <1>1, <1>2, QueueFault DEF Undamaged, NoFault
<1>4. PICK H : \E c \in [Acceptors -> Record] : Accounts(H, c)
  BY <1>2, <1>3, AccountsBefore
<1>5. PICK c \in [Acceptors -> Record] : Accounts(H, c)
  BY <1>4
<1>6. Holds(i, node[i], plog[i], TRUE) /\ plog[i] \in Record
  BY <1>3, NodeHolds
<1>7. node[i].op # "load"
  BY <1>2, <1>6 DEF Holds, Local, Shape
<1>8. KnowsFrom(i, node[i], plog[i], H, c)
  BY <1>5, KnownKnows DEF Accounts
<1> DEFINE N == TryCatchup(i, node[i], pushed, cu)
<1>9. N \in Node
  BY <1>2, <1>6, <1>7, TryCatchupHolds DEF Holds
<1>10. KnowsFrom(i, N, plog'[i], H, c)
  BY <1>2, <1>6, <1>7, <1>8, TryCatchupKnows
<1>11. Go(i, N, net)
  BY <1>1
<1> HIDE DEF N
<1> QED
  BY <1>2, <1>5, <1>9, <1>10, <1>11, GoKnows

LEMMA CleanupAgrees ==
    ASSUME TypeInv, DurableInv, AgreementInv, Undamaged', NEW i \in Acceptors,
           CleanupExpiredChosenEntry(i)
    PROVE  AgreementInv'
<1>1. /\ node[i].mem /\ node[i].old /\ plog' = plog /\ crashes' = crashes
      /\ plogErrors' = plogErrors /\ evictions' = evictions
      /\ Go(i, DestroyEntryInfo(Check(node[i], ~uncertain(node[i]))), net)
  BY DEF CleanupExpiredChosenEntry
<1>2. NoFault' => NoFault
  BY <1>1 DEF NoFault
<1>3. PICK H : \E c \in [Acceptors -> Record] : Accounts(H, c)
  BY <1>1, <1>2, AccountsBefore
<1>4. PICK c \in [Acceptors -> Record] : Accounts(H, c)
  BY <1>3
<1>5. Holds(i, node[i], plog[i], FALSE) /\ node[i] \in Node
  BY NodeHolds
<1>6. node[i].op = "none"
  BY <1>1, <1>5, EntryNumbers DEF Holds, Local, Shape, Node
<1>7. Check(node[i], ~uncertain(node[i])) = node[i]
  BY <1>5, <1>6, CheckTrue DEF uncertain, Holds, Local
<1>8. KnowsFrom(i, node[i], plog[i], H, c)
  BY <1>4, KnownKnows DEF Accounts
<1>9. KnowsFrom(i, DestroyEntryInfo(node[i]), plog[i], H, c)
  BY <1>5, <1>6, <1>8, DestroyKnows
<1>10. DestroyEntryInfo(node[i]) \in Node
  BY <1>5, DestroyType DEF GoodNode
<1> QED
  BY <1>1, <1>4, <1>7, <1>9, <1>10, GoKnows

LEMMA CrashAgrees ==
    ASSUME TypeInv, DurableInv, AgreementInv, Undamaged', NEW i \in Acceptors, Crash(i)
    PROVE  AgreementInv'
<1>1. /\ Go(i, EntityAbsent(i), net) /\ plogErrors' = plogErrors /\ evictions' = evictions
      /\ crashes' = crashes + 1 /\ (CleanStops => node[i].op # "set")
  BY DEF Crash
<1>2. NoFault' => NoFault
  BY <1>1 DEF NoFault
<1>3. CleanStops /\ node[i].op # "set"
  BY <1>1, BoundsAssumption DEF Undamaged, TypeInv, TypeOK
<1>4. plog' = plog
  BY <1>3 DEF Crash
<1>5. PICK H : \E c \in [Acceptors -> Record] : Accounts(H, c)
  BY <1>2, <1>3, AccountsBefore
<1>6. PICK c \in [Acceptors -> Record] : Accounts(H, c)
  BY <1>5
<1>7. World(H, c) /\ c[i] = plog[i]
  BY <1>3, <1>6 DEF Accounts, Known, Counts
<1>8. KnowsFrom(i, EntityAbsent(i), plog[i], H, c)
  BY <1>7, AbsentKnows, KnownKnows
<1>9. EntityAbsent(i) \in Node
  BY EntityAbsentType
<1> QED
  BY <1>1, <1>4, <1>6, <1>8, <1>9, GoKnows

(* At first nobody has anything.                                           *)
LEMMA InitAgrees == Init => AgreementInv
<1> SUFFICES ASSUME Init PROVE \E H, c : Accounts(H, c)
  BY DEF AgreementInv
<1> DEFINE H == [a \in Acceptors |-> {EmptyRecord}]
           c == [a \in Acceptors |-> EmptyRecord]
<1>1. EmptyRecord \in Record /\ IsValidRecord(EmptyRecord)
  BY EmptyRecordType, NewMachineInv, AcceptorNumAssumption DEF Acceptors, UpdateAccepts
<1>2. /\ EmptyRecord.promised = 0 /\ EmptyRecord.accepted = 0 /\ EmptyRecord.prepared = 0
      /\ ~EmptyRecord.chosen
  BY DEF EmptyRecord
<1>3. /\ H \in [Acceptors -> SUBSET Record] /\ c \in [Acceptors -> Record]
      /\ \A a \in Acceptors : H[a] = {EmptyRecord} /\ c[a] = EmptyRecord
  BY <1>1
<1> HIDE DEF H, c
<1>4. World(H, c)
  <2>1. ASSUME NEW a \in Acceptors PROVE Past(H[a], c[a])
    BY <1>1, <1>2, <1>3 DEF Past
  <2>2. ASSUME NEW a \in Acceptors, NEW s \in H[a] PROVE Justified(H, c, a, s)
    BY <1>2, <1>3 DEF Justified
  <2>3. OneId(H)
    BY <1>3 DEF OneId
  <2> QED
    BY <1>2, <1>3, <2>1, <2>2, <2>3 DEF World
<1>5. ASSUME NEW i \in Acceptors PROVE Known(i, node[i], plog[i], H, c)
  <2>1. node[i] = [EntityAbsent(i) EXCEPT !.loaded = TRUE] /\ plog[i] = EmptyRecord
    BY DEF Init
  <2> QED
    BY <1>3, <1>4, <2>1, AbsentKnows
<1>6. net = {}
  BY DEF Init
<1> QED
  BY <1>4, <1>5, <1>6 DEF Accounts

LEMMA StepAgrees ==
    ASSUME TypeInv, DurableInv, AgreementInv, [Next]_vars
    PROVE  AgreementInv'
<1> SUFFICES ASSUME Undamaged' PROVE AgreementInv'
  BY DEF AgreementInv
<1>1. ASSUME NEW i \in Writers, NEW v \in Values, ClientWrite(i, v) PROVE AgreementInv'
  <2> DEFINE cmd == [NoCmd EXCEPT !.kind = "write", !.value = v]
  <2>1. cmd \in ClientCmd /\ cmd.kind # "none"
    BY DEF NoCmd, ClientCmd
  <2>2. PICK pushed \in BOOLEAN, cu \in CatchupChoices :
          PlogQueue(pushed) /\ Go(i, HandleClientCmd(i, node[i], cmd, pushed, cu), net)
    BY <1>1 DEF ClientWrite
  <2>3. UNCHANGED <<plog, evictions, crashes>> /\ Idle(i) /\ i \in Acceptors
    BY <1>1, BoundsAssumption DEF ClientWrite
  <2> HIDE DEF cmd
  <2> QED
    BY <2>1, <2>2, <2>3, ClientAgrees
<1>2. ASSUME NEW i \in Readers, ClientRead(i) PROVE AgreementInv'
  <2> DEFINE cmd == [NoCmd EXCEPT !.kind = "read", !.uuid = reads + 1,
                                  !.stale = acked # {}]
  <2>1. cmd \in ClientCmd /\ cmd.kind # "none"
    <3>1. reads + 1 \in Nat /\ (acked # {}) \in BOOLEAN
      BY BoundsAssumption DEF TypeInv, TypeOK
    <3> QED
      BY <3>1 DEF NoCmd, ClientCmd
  <2>2. PICK pushed \in BOOLEAN, cu \in CatchupChoices :
          PlogQueue(pushed) /\ Go(i, HandleClientCmd(i, node[i], cmd, pushed, cu), net)
    BY <1>2 DEF ClientRead
  <2>3. UNCHANGED <<plog, evictions, crashes>> /\ Idle(i) /\ i \in Acceptors
    BY <1>2, BoundsAssumption DEF ClientRead
  <2> HIDE DEF cmd
  <2> QED
    BY <2>1, <2>2, <2>3, ClientAgrees
<1>3. ASSUME NEW m \in net, ReceivePaxosCmd(m) PROVE AgreementInv'
  BY <1>3, ReceiveAgrees
<1>4. ASSUME NEW m \in net, LoseMessage(m) PROVE AgreementInv'
  <2>1. /\ node' = node /\ plog' = plog /\ net' \subseteq net /\ crashes' = crashes
        /\ evictions' = evictions /\ plogErrors' = plogErrors
    BY <1>4 DEF LoseMessage
  <2>2. PICK H : \E c \in [Acceptors -> Record] : Accounts(H, c)
    BY <2>1, AccountsBefore DEF NoFault
  <2>3. PICK c \in [Acceptors -> Record] : Accounts(H, c)
    BY <2>2
  <2> QED
    BY <2>1, <2>3 DEF AgreementInv, Accounts
<1>5. ASSUME NEW i \in Acceptors, ClientTimeout(i) PROVE AgreementInv'
  BY <1>5, TimeoutAgrees
<1>6. ASSUME NEW i \in Acceptors, PlogSetRecord(i) PROVE AgreementInv'
  BY <1>6, SetAgrees
<1>7. ASSUME NEW i \in Acceptors, PlogGetRecord(i) PROVE AgreementInv'
  BY <1>7, GetAgrees
<1>8. ASSUME NEW i \in Acceptors, PlogLoad(i) PROVE AgreementInv'
  BY <1>8, LoadAgrees
<1>9. ASSUME NEW i \in Acceptors, DrainWaitingMsg(i) PROVE AgreementInv'
  BY <1>9, DrainAgrees
<1>10. ASSUME NEW i \in Acceptors, IterateAndCatchup(i) PROVE AgreementInv'
  BY <1>10, CatchupAgrees
<1>11. ASSUME NEW i \in Acceptors, CleanupExpiredChosenEntry(i) PROVE AgreementInv'
  BY <1>11, CleanupAgrees
<1>12. ASSUME NEW i \in Acceptors, MakeEnoughRoom(i) PROVE AgreementInv'
  <2>1. evictions' = evictions + 1 /\ plogErrors' = plogErrors
    BY <1>12 DEF MakeEnoughRoom
  <2> QED
    BY <2>1, BoundsAssumption DEF Undamaged, TypeInv, TypeOK
<1>13. ASSUME NEW i \in Acceptors, Crash(i) PROVE AgreementInv'
  BY <1>13, CrashAgrees
<1>14. ASSUME UNCHANGED vars PROVE AgreementInv'
  BY <1>14 DEF vars, AgreementInv, Accounts, Undamaged
<1> QED
  BY <1>1, <1>2, <1>3, <1>4, <1>5, <1>6, <1>7, <1>8, <1>9, <1>10, <1>11, <1>12,
     <1>13, <1>14 DEF Next

(* What a replica takes for chosen is in the histories.                    *)
LEMMA ChosenInHistory ==
    ASSUME TypeInv, DurableInv, NoFault, NEW H, NEW c, Accounts(H, c),
           NEW i \in Acceptors, NEW r \in ChosenAt(i)
    PROVE  \E s \in H[i] : s.chosen /\ s.value_id = r.value_id
<1>1. Known(i, node[i], plog[i], H, c) /\ World(H, c)
  BY DEF Accounts
<1>2. r.chosen /\ (r = node[i].recs[i] \/ r = plog[i])
  BY DEF ChosenAt
<1>3. Intact(i, node[i], plog[i])
  BY DEF DurableInv, Local
<1>4. CASE r = node[i].recs[i] \/ node[i].op # "set"
  <2>1. CASE r = node[i].recs[i]
    BY <1>1, <1>2, <2>1 DEF Known, Tells
  <2>2. CASE r = plog[i] /\ node[i].op # "set"
    BY <1>1, <1>2, <2>2 DEF Known, Counts, World, Past
  <2> QED
    BY <1>2, <1>4, <2>1, <2>2
<1>5. CASE r = plog[i] /\ node[i].op = "set"
  <2>1. r = node[i].recs[i]
    BY <1>2, <1>3, <1>5 DEF Intact, Advance
  <2> QED
    BY <1>4, <2>1
<1> QED
  BY <1>2, <1>4, <1>5

LEMMA Agreed == Spec => [](TypeInv /\ DurableInv /\ AgreementInv)
<1>1. Init => AgreementInv
  BY InitAgrees
<1>2. TypeInv /\ DurableInv /\ AgreementInv /\ [Next]_vars => AgreementInv'
  BY StepAgrees
<1> QED
  BY <1>1, <1>2, Durable, PTL DEF Spec

LEMMA OneIdNow ==
    ASSUME TypeInv, DurableInv, AgreementInv
    PROVE  ChosenIdsAgree
<1> SUFFICES ASSUME Undamaged, NEW i \in Acceptors, NEW j \in Acceptors,
                    NEW r \in ChosenAt(i), NEW s \in ChosenAt(j)
             PROVE  r.value_id = s.value_id
  BY DEF ChosenIdsAgree
<1>1. PICK H, c : Accounts(H, c)
  BY DEF AgreementInv
<1>2. NoFault /\ World(H, c)
  BY <1>1 DEF Accounts, Undamaged, NoFault
<1>3. PICK x \in H[i] : x.chosen /\ x.value_id = r.value_id
  BY <1>1, <1>2, ChosenInHistory
<1>4. PICK y \in H[j] : y.chosen /\ y.value_id = s.value_id
  BY <1>1, <1>2, ChosenInHistory
<1> QED
  BY <1>2, <1>3, <1>4, OneChosen

(* With any number of replicas, and however proposals race, messages are   *)
(* lost, repeated or overtake each other and processes restart: as long as *)
(* no entry is evicted, no plog operation fails and no process stops in    *)
(* the middle of a plog write, everything the replicas take for chosen has *)
(* one value id.                                                           *)
THEOREM IdsAgree == Spec => []ChosenIdsAgree
<1>1. TypeInv /\ DurableInv /\ AgreementInv => ChosenIdsAgree
  BY OneIdNow
<1> QED
  BY <1>1, Agreed, PTL

-----------------------------------------------------------------------------
(* Parked messages.  As long as nothing is damaged, a message never claims *)
(* to know a newer record of its receiver than the receiver has stored.    *)
(* So whoever stores a record because of a message owes its sender an      *)
(* answer, and HandleSetFromPlog, which returns early when it has nobody   *)
(* to send to, reaches the loop over the parked messages.                  *)

(* What a peer knows of the record x.                                      *)
Below(p, x) ==
    x.chosen \/ (~p.chosen /\ p.promised <= x.promised /\ p.accepted <= x.accepted)

LEMMA PeerBelow ==
    ASSUME NEW H, NEW c \in [Acceptors -> Record], NEW i \in Acceptors, NEW S, NEW r,
           KnowsFrom(i, S, r, H, c), NEW m \in PaxosCmd, m.to = i, Reports(H, m)
    PROVE  Below(m.peer, Counts(i, S, r))
<1> DEFINE x == Counts(i, S, r)
           d == [c EXCEPT ![i] = x]
<1>1. PICK G : Ext(H, G) /\ Known(i, S, r, G, d)
  BY DEF KnowsFrom
<1>2. d[i] = x
  OBVIOUS
<1> HIDE DEF d, x
<1>3. Past(G[i], x)
  BY <1>1, <1>2 DEF Known, World
<1>4. Tells(G[i], m.peer)
  BY <1>1, TellsMore DEF Reports
<1>5. PICK s \in G[i] : /\ s.promised = m.peer.promised /\ s.accepted = m.peer.accepted
                        /\ m.peer.chosen => s.chosen
  BY <1>4 DEF Tells
<1>6. s.promised <= x.promised /\ (s.accepted <= x.accepted \/ x.chosen)
      /\ (s.chosen => x.chosen)
  BY <1>3 DEF Past
<1> QED
  BY <1>5, <1>6 DEF Below, x

(* Nobody waits at an entry that is not there, a record is stored for      *)
(* somebody, and outside the loop nobody waits at an entry that is not     *)
(* uncertain.                                                              *)
Neat(S) ==
    /\ ~S.mem => S.waiting_msgs = NoWaiting
    /\ S.op = "set" => S.broadcast \/ S.peer_to_sync # NoPeer

Tidy(S) ==
    Neat(S) /\ (S.drain = "no" /\ ~uncertain(S) => S.waiting_msgs = NoWaiting)

(* What most calls of a handler leave alone.                               *)
Still(S, T) ==
    /\ T.mem = S.mem /\ T.op = S.op /\ T.broadcast = S.broadcast
    /\ T.peer_to_sync = S.peer_to_sync /\ T.waiting_msgs = S.waiting_msgs
    /\ T.drain = S.drain

LEMMA StillTidy ==
    ASSUME NEW S, NEW T, Still(S, T), Tidy(S)
    PROVE  Tidy(T)
BY DEF Still, Tidy, Neat, uncertain

LEMMA StillTrans ==
    ASSUME NEW S, NEW T, NEW U, Still(S, T), Still(T, U)
    PROVE  Still(S, U)
BY DEF Still

LEMMA StillSelf == \A S : Still(S, S)
BY DEF Still

LEMMA StillFields ==
    ASSUME NEW i, NEW S \in Node, NEW b, NEW m, NEW P
    PROVE  /\ Still(S, FinishErr(S)) /\ Still(S, FinishOk(S)) /\ Still(S, Check(S, b))
           /\ Still(S, Send(S, m)) /\ Still(S, SyncToPeers(i, S, P))
           /\ Still(S, BroadcastCheckEmpty(i, S))
<1>1. Still(S, FinishErr(S)) /\ Still(S, FinishOk(S))
  BY DEF Still, FinishErr, FinishOk, Node
<1>2. Still(S, Check(S, b))
  BY DEF Still, Check, Node
<1>3. Still(S, Send(S, m)) /\ Still(S, SyncToPeers(i, S, P))
  BY DEF Still, Send, SyncToPeers, Node
<1>4. Still(S, BroadcastCheckEmpty(i, S))
  BY DEF Still, BroadcastCheckEmpty, Node
<1> QED
  BY <1>1, <1>2, <1>3, <1>4

LEMMA CountEmptyStill ==
    ASSUME NEW i, NEW S \in Node, NEW m \in PaxosCmd
    PROVE  Still(S, CountEmpty(i, S, m))
<1> DEFINE T == [S EXCEPT !.empty_flags = S.empty_flags \cup {m.from}]
           N == CountEmpty(i, S, m)
<1>1. N = S \/ N = FinishErr(S) \/ N = T \/ N = FinishOk(T)
  BY DEF CountEmpty
<1>2. T \in Node /\ Still(S, T)
  BY DEF Still, Node, PaxosCmd
<1> HIDE DEF T, N
<1>3. Still(S, FinishOk(T))
  BY <1>2, StillFields, StillTrans
<1> QED
  BY <1>1, <1>2, <1>3, StillFields, StillSelf DEF N

LEMMA LearnStill ==
    ASSUME NEW S \in Node, NEW m
    PROVE  Still(S, LearnMaxChosen(S, m))
BY DEF Still, LearnMaxChosen, Node

LEMMA AnswerStill ==
    ASSUME NEW i, NEW S \in Node, NEW m, NEW r
    PROVE  Still(S, FastFail(S, m)) /\ Still(S, HandleIfLocalChosen(i, S, m, r))
<1>1. \A x : Still(S, Send(S, x))
  BY StillFields
<1>2. Still(S, FastFail(S, m))
  BY <1>1 DEF FastFail
<1>3. Still(S, HandleIfLocalChosen(i, S, m, r))
  BY <1>1, StillSelf DEF HandleIfLocalChosen
<1> QED
  BY <1>2, <1>3

LEMMA UpdateByChosenStill ==
    ASSUME NEW i, NEW S \in Node
    PROVE  Still(S, UpdateByChosenEntry(i, S))
<1> DEFINE auth == IF HasAcceptedMyProposal(i, S.recs, i) THEN Entry ELSE S.pre_auth
           next == S.max_cont + 1 = Entry
           old == S.old \/ next
           committing == S.committing \/ next
           U == [S EXCEPT !.max_chosen = Entry, !.pre_auth = auth, !.max_cont = Entry,
                          !.old = old, !.committing = committing]
<1>1. UpdateByChosenEntry(i, S) = S \/ UpdateByChosenEntry(i, S) = U
  BY DEF UpdateByChosenEntry
<1> HIDE DEF auth, old, committing
<1>2. Still(S, U)
  BY DEF Still, Node
<1> HIDE DEF U
<1> QED
  BY <1>1, <1>2, StillSelf

(* The EntryInfo is created: nobody waits at it yet.                       *)
LEMMA CreateTidy ==
    ASSUME NEW S \in Node, Shape(S), Tidy(S), NEW pushed \in BOOLEAN
    PROVE  Tidy(CreateEntryInfoIfMiss(S, pushed))
<1> DEFINE op == IF S.max_plog < Entry THEN S.op ELSE "get"
           T == [S EXCEPT !.mem = TRUE, !.op = op]
<1>1. CreateEntryInfoIfMiss(S, pushed) = S \/ (~S.mem /\ CreateEntryInfoIfMiss(S, pushed) = T)
  BY DEF CreateEntryInfoIfMiss
<1>2. op = S.op \/ op = "get"
  OBVIOUS
<1> HIDE DEF op
<1>3. T.op = op /\ T.waiting_msgs = S.waiting_msgs
  BY DEF Node
<1> HIDE DEF T
<1>4. ~S.mem => S.op # "set" /\ S.waiting_msgs = NoWaiting
  BY DEF Shape, Tidy, Neat
<1> QED
  BY <1>1, <1>2, <1>3, <1>4 DEF Tidy, Neat

LEMMA TryCatchupTidy ==
    ASSUME NEW i \in Acceptors, NEW S, NEW r \in Record, Holds(i, S, r, TRUE), Tidy(S),
           S.loaded, S.op # "load", NEW pushed \in BOOLEAN, NEW cu
    PROVE  Tidy(TryCatchup(i, S, pushed, cu))
<1> DEFINE T == CreateEntryInfoIfMiss(S, pushed)
<1>1. CASE S.max_cont = S.max_chosen \/ (~S.mem /\ cu = "none")
  BY <1>1 DEF TryCatchup
<1>2. CASE ~(S.max_cont = S.max_chosen \/ (~S.mem /\ cu = "none"))
  <2>1. Shape(S) /\ S \in Node /\ S.max_cont \in 0 .. Entry /\ S.max_chosen \in 0 .. Entry
    BY HoldsNode DEF Holds, Local
  <2>2. S.max_cont = 0
    BY <1>2, <2>1, EntryNumbers DEF Shape
  <2>3. T \in Node
    BY <2>2, CreateHolds, HoldsNode
  <2>4. Tidy(T)
    BY <2>1, CreateTidy
  <2>5. \/ TryCatchup(i, S, pushed, cu) = T
        \/ TryCatchup(i, S, pushed, cu) = UpdateByChosenEntry(i, T)
        \/ TryCatchup(i, S, pushed, cu) = SyncToPeers(i, T, {T.active_peer})
    BY <1>2 DEF TryCatchup
  <2> HIDE DEF T
  <2>6. Tidy(UpdateByChosenEntry(i, T))
    BY <2>3, <2>4, UpdateByChosenStill, StillTidy
  <2>7. Tidy(SyncToPeers(i, T, {T.active_peer}))
    BY <2>3, <2>4, StillFields, StillTidy
  <2> QED
    BY <2>4, <2>5, <2>6, <2>7
<1> QED
  BY <1>1, <1>2

(* A command of a client: its record is broadcast.                         *)
LEMMA HandleWriteTidy ==
    ASSUME NEW i \in Acceptors, NEW S \in Node, Tidy(S), S.op = "none", S.mem
    PROVE  Tidy(HandleWriteCmd(i, S, TRUE))
<1> DEFINE pre_auth == EnablePreAuth /\ S.pre_auth # NoEntry
                                     /\ S.pre_auth + 1 = Entry
           promised == Promise(i, S.recs, pre_auth)
           cmd == [S.client EXCEPT !.value_id = promised[i].promised]
           P == [S EXCEPT !.recs = promised, !.client = cmd]
           accepted == Accept(i, promised, P.client.value, P.client.value_id)
           B == [P EXCEPT !.recs = accepted]
           A == Check(B, PreparedValueAccepted(promised))
           Q == IF IsLocalAcceptable(i, promised)
                THEN Check(A, state(i, A) = "AcceptLocal") ELSE P
           T == [StoreEntryInfo(Q) EXCEPT !.broadcast = TRUE]
           E == FinishErr(P)
<1>1. HandleWriteCmd(i, S, TRUE) = T \/ HandleWriteCmd(i, S, TRUE) = E
  BY DEF HandleWriteCmd
<1> HIDE DEF promised, cmd, accepted
<1>2. Still(S, E)
  BY DEF Still, Node, FinishErr
<1>3. T.op = "set" /\ T.broadcast /\ T.mem = S.mem
  BY DEF Node, StoreEntryInfo, Check
<1> HIDE DEF T, E
<1>4. Tidy(T)
  BY <1>3 DEF Tidy, Neat, uncertain
<1> QED
  BY <1>1, <1>2, <1>4, StillTidy

LEMMA HandleReadTidy ==
    ASSUME NEW i \in Acceptors, NEW S \in Node, Tidy(S), S.op = "none", S.mem
    PROVE  Tidy(HandleReadCmd(i, S, TRUE))
<1> DEFINE F == [S EXCEPT !.empty_flags = {i}]
<1>1. F \in Node /\ Still(S, F)
  BY DEF Node, Still
<1>2. HandleReadCmd(i, S, TRUE) \in {HandleWriteCmd(i, S, TRUE), BroadcastCheckEmpty(i, F)}
  BY DEF HandleReadCmd
<1> HIDE DEF F
<1>3. Tidy(BroadcastCheckEmpty(i, F))
  BY <1>1, StillFields, StillTidy
<1> QED
  BY <1>2, <1>3, HandleWriteTidy

LEMMA DispatchTidy ==
    ASSUME NEW i \in Acceptors, NEW S \in Node, NEW r \in Record,
           Holds(i, FinishErr(S), r, TRUE), Tidy(S), S.loaded, S.op # "load", NEW cu
    PROVE  Tidy(DispatchClientCmd(i, S, TRUE, cu))
<1> DEFINE E == FinishErr(S)
           T == CreateEntryInfoIfMiss(S, TRUE)
<1>1. /\ E \in Node /\ E.loaded = S.loaded /\ E.op = S.op /\ E.mem = S.mem
      /\ E.max_chosen = S.max_chosen /\ E.max_cont = S.max_cont
      /\ E.recs = S.recs /\ E.old = S.old /\ E.max_plog = S.max_plog
      /\ E.drain = S.drain /\ E.broadcast = S.broadcast /\ E.peer_to_sync = S.peer_to_sync
  BY FinishErrFields
<1>2. Tidy(E)
  BY StillFields, StillTidy
<1>3. Holds(i, E, r, TRUE)
  OBVIOUS
<1>4. CASE Entry # S.max_chosen + 1
  <2>1. DispatchClientCmd(i, S, TRUE, cu) = TryCatchup(i, E, TRUE, cu)
    BY <1>4 DEF DispatchClientCmd
  <2> HIDE DEF E
  <2> QED
    BY <1>1, <1>2, <1>3, <2>1, TryCatchupTidy
<1>5. CASE Entry = S.max_chosen + 1
  <2>1. DispatchClientCmd(i, S, TRUE, cu) \in
            {E, FinishErr(T)} \cup (IF T.mem /\ ~uncertain(T)
                THEN {HandleWriteCmd(i, T, TRUE), HandleReadCmd(i, T, TRUE)} ELSE {})
    BY <1>5 DEF DispatchClientCmd, EntryInfoAvailable
  <2>2. T \in Node
    BY CreateType DEF GoodNode
  <2>3. Shape(S)
    <3> HIDE DEF E
    <3>1. Shape(E)
      BY <1>3 DEF Holds, Local
    <3> QED
      BY <1>1, <3>1 DEF Shape
  <2>4. Tidy(T)
    BY <2>3, CreateTidy
  <2>5. Tidy(FinishErr(T))
    BY <2>2, <2>4, StillFields, StillTidy
  <2>6. T.op # "load"
    BY DEF CreateEntryInfoIfMiss, Node
  <2> HIDE DEF T, E
  <2>7. T.mem /\ ~uncertain(T) => T.op = "none"
    BY <2>2, <2>6 DEF uncertain, Node
  <2> QED
    BY <1>2, <2>1, <2>2, <2>4, <2>5, <2>7, HandleWriteTidy, HandleReadTidy
<1> QED
  BY <1>4, <1>5

LEMMA HandleClientCmdTidy ==
    ASSUME NEW i \in Acceptors, NEW S, NEW r \in Record, Holds(i, S, r, TRUE), Tidy(S),
           NEW cmd \in ClientCmd, NEW cu
    PROVE  Tidy(HandleClientCmd(i, S, cmd, TRUE, cu))
<1> DEFINE T == [S EXCEPT !.client = cmd]
           L == [T EXCEPT !.loaded = TRUE, !.op = "load"]
<1>1. S \in Node /\ T \in Node /\ Still(S, T) /\ T.loaded = S.loaded
  BY DEF Holds, Node, Still
<1>2. FinishErr(T) = FinishErr(S)
  BY <1>1 DEF FinishErr, Node
<1>3. HandleClientCmd(i, S, cmd, TRUE, cu) =
          IF ~S.loaded THEN L
          ELSE IF loading(S) THEN T ELSE DispatchClientCmd(i, T, TRUE, cu)
  BY DEF HandleClientCmd
<1>4. L.op = "load" /\ L.waiting_msgs = S.waiting_msgs
  BY <1>1 DEF Node
<1> HIDE DEF T, L
<1>5. Tidy(T)
  BY <1>1, StillTidy
<1>6. ~S.loaded => ~S.mem
  BY DEF Holds, Local, Shape
<1>7. ~S.loaded => Tidy(L)
  BY <1>4, <1>6 DEF Tidy, Neat
<1>8. Holds(i, FinishErr(T), r, TRUE)
  BY <1>2, FinishHolds
<1>9. S.loaded /\ ~loading(S) => Tidy(DispatchClientCmd(i, T, TRUE, cu))
  BY <1>1, <1>5, <1>8, DispatchTidy DEF loading, Still
<1> QED
  BY <1>3, <1>5, <1>7, <1>9

(* A message: a record that follows from it is newer than what the sender  *)
(* knows, so the sender is the peer to sync.                               *)
LEMMA NewerThanKnown ==
    ASSUME NEW x \in Record, NEW y \in Record, NEW p \in Record, Below(p, x),
           y.prepared = x.prepared, IsRecordNewer(x, y)
    PROVE  IsRecordNewer(p, y)
<1>1. /\ x.promised \in Nat /\ y.promised \in Nat /\ p.promised \in Nat
      /\ x.accepted \in Nat /\ y.accepted \in Nat /\ p.accepted \in Nat
      /\ x.prepared \in Nat
  BY DEF Record
<1> QED
  BY <1>1 DEF Below, IsRecordNewer

LEMMA UpdateMachineTidy ==
    ASSUME NEW i \in Acceptors, NEW S, NEW r \in Record, Holds(i, S, r, TRUE), Tidy(S),
           S.op = "none", S.mem, NEW m \in PaxosCmd, MsgOK(i, m), Below(m.peer, r)
    PROVE  Tidy(UpdateMachineByPaxosCmd(i, S, m, TRUE))
<1> DEFINE N == UpdateMachineByPaxosCmd(i, S, m, TRUE)
           q == Update(i, m.from, S.recs, m.local)
           U == [S EXCEPT !.recs = q]
           A == AcceptIfPromised(i, U)
           T == Check(A, CalcAsserts(q[i]))
           compensate == /\ state(i, U) # state(i, S)
                         /\ state(i, U) \in {"MajorityPromise", "Chosen"}
           need_sync == IsRecordNewer(m.peer, T.recs[i])
           O == StoreEntryInfo(T)
           sync == IF need_sync THEN m.from ELSE O.peer_to_sync
           comp == IF need_sync THEN compensate ELSE O.compensate
           X == [O EXCEPT !.peer_to_sync = sync, !.compensate = comp]
           Y == SyncToPeers(i, T, {m.from})
           V == Check(T, IsLocalEmpty(i, T.recs))
           answer == [SendBack(m) EXCEPT !.check_empty = FALSE]
<1>1. /\ S \in Node /\ S.recs \in Machine /\ MachineInv(i, S.recs) /\ S.ok
      /\ Numbered(i, S) /\ m.from \in Acceptors /\ m.from # i /\ m.local \in Record
      /\ m.peer \in Record /\ S.recs[i] \in Record /\ S.recs[i] = r
  BY NodeFields, MachineFields DEF Holds, Local, MsgOK, PaxosCmd, Intact
<1>2. q \in Machine /\ MachineInv(i, q) /\ q[i].prepared = S.recs[i].prepared
  BY <1>1, UpdateFacts, ZenonT(40)
<1>3. \/ N = S
      \/ IsRecordNewer(S.recs[i], T.recs[i]) /\ N = CountEmpty(i, X, m)
      \/ N = CountEmpty(i, Y, m) \/ N = Send(V, answer) \/ N = CountEmpty(i, T, m)
  <2>1. U.recs = q
    BY <1>1 DEF Node
  <2>2. X = [StoreEntryInfo(T) EXCEPT !.peer_to_sync = IF need_sync THEN m.from ELSE @,
                                      !.compensate = IF need_sync THEN compensate ELSE @]
    OBVIOUS
  <2>3. N = IF ~UpdateAccepts(m.local) THEN S
            ELSE IF IsRecordNewer(S.recs[i], T.recs[i]) THEN CountEmpty(i, X, m)
            ELSE IF need_sync THEN CountEmpty(i, Y, m)
            ELSE IF m.check_empty THEN Send(V, answer)
            ELSE CountEmpty(i, T, m)
    <3> HIDE DEF X
    <3> QED
      BY <2>1, <2>2, SMTT(30) DEF UpdateMachineByPaxosCmd
  <2> HIDE DEF N, T, X, Y, V, answer, need_sync
  <2> QED
    BY <2>3
<1> HIDE DEF q, N
<1>4. /\ U \in Node /\ U.recs = q /\ Still(S, U) /\ U.client = S.client /\ U.ok = S.ok
  BY <1>1, <1>2 DEF Node, Still
<1> HIDE DEF U
<1>5. Numbered(i, U)
  BY <1>1, <1>2, <1>4 DEF Numbered
<1>6. A \in Node /\ Still(U, A) /\ A.recs[i].prepared = q[i].prepared
  BY <1>1, <1>2, <1>4, <1>5, AcceptIfPromisedFacts DEF Still
<1> HIDE DEF A
<1>7. CalcAsserts(q[i]) \in BOOLEAN
  BY <1>2, MachineFields DEF CalcAsserts
<1>8. T \in Node /\ Still(A, T) /\ T.recs = A.recs
  BY <1>6, <1>7 DEF Check, Node, Still
<1> HIDE DEF T
<1>9. Tidy(T) /\ T.mem = S.mem
  BY <1>4, <1>6, <1>8, StillTidy DEF Still
<1>10. IsRecordNewer(S.recs[i], T.recs[i]) => need_sync
  <2>1. T.recs[i] \in Record /\ T.recs[i].prepared = S.recs[i].prepared
    BY <1>2, <1>6, <1>8, NodeFields, MachineFields
  <2> QED
    BY <1>1, <2>1, NewerThanKnown
<1>11. IsRecordNewer(S.recs[i], T.recs[i]) => Tidy(CountEmpty(i, X, m))
  <2>1. /\ sync \in Acceptors \cup {NoPeer} /\ comp \in BOOLEAN
        /\ need_sync => sync = m.from
    BY <1>1, <1>8 DEF Node, StoreEntryInfo, Check
  <2>2. O \in Node /\ O.op = "set" /\ O.mem = S.mem
    <3> DEFINE Z == Check(T, ~uncertain(T))
    <3>1. Z \in Node /\ Z.mem = T.mem
      BY <1>8, CheckType, StillFields DEF GoodNode, uncertain, Still
    <3>2. O = [Z EXCEPT !.op = "set"]
      BY DEF StoreEntryInfo
    <3> HIDE DEF Z
    <3> QED
      BY <1>9, <3>1, <3>2 DEF Node
  <2> HIDE DEF sync, comp, O
  <2>3. X \in Node /\ X.op = "set" /\ X.mem = S.mem /\ X.peer_to_sync = sync
    BY <2>1, <2>2, ZenonT(40) DEF Node
  <2> HIDE DEF X, need_sync
  <2>4. m.from # NoPeer
    BY <1>1 DEF Acceptors, NoPeer
  <2>5. need_sync => Tidy(X)
    BY <2>1, <2>3, <2>4 DEF Tidy, Neat, uncertain
  <2> QED
    BY <1>10, <2>3, <2>5, CountEmptyStill, StillTidy
<1>12. Tidy(CountEmpty(i, T, m))
  BY <1>8, <1>9, CountEmptyStill, StillTidy
<1>13. Tidy(CountEmpty(i, Y, m))
  <2>1. Y \in Node /\ Tidy(Y)
    BY <1>1, <1>8, <1>9, SyncToPeersType, StillFields, StillTidy DEF GoodNode
  <2> HIDE DEF Y
  <2> QED
    BY <2>1, CountEmptyStill, StillTidy
<1>14. Tidy(Send(V, answer))
  <2>1. V \in Node /\ Tidy(V)
    BY <1>8, <1>9, CheckType, StillFields, StillTidy DEF GoodNode, IsLocalEmpty
  <2> HIDE DEF V
  <2> QED
    BY <2>1, StillFields, StillTidy
<1> QED
  BY <1>3, <1>11, <1>12, <1>13, <1>14 DEF N

(* A message is parked only at an uncertain entry.                         *)
LEMMA HandleLoadedTidy ==
    ASSUME NEW i \in Acceptors, NEW S, NEW r \in Record, Holds(i, S, r, TRUE), Tidy(S),
           S.loaded, S.op # "load", NEW m \in PaxosCmd, MsgOK(i, m),
           Below(m.peer, Counts(i, S, r)), NEW cu
    PROVE  Tidy(HandleLoadedPaxosCmd(i, S, m, r, TRUE, cu))
<1> DEFINE N == HandleLoadedPaxosCmd(i, S, m, r, TRUE, cu)
           L == LearnMaxChosen(S, m)
           mine == L.client.kind # "none" /\ L.client.uuid = m.uuid
           F == IF mine THEN FinishErr(L) ELSE L
           T == CreateEntryInfoIfMiss(L, TRUE)
           c == RestoreValue(T, m)
           P == [T EXCEPT !.waiting_msgs = [T.waiting_msgs EXCEPT ![m.from] = {c}]]
           C == Check(T, ~T.broadcast /\ T.peer_to_sync = NoPeer)
           M == UpdateMachineByPaxosCmd(i, C, c, TRUE)
<1>1. Holds(i, L, r, TRUE) /\ Steady(S, L) /\ L.op = S.op
  BY LearnHolds
<1>2. Tidy(L)
  BY LearnStill, StillTidy DEF Holds
<1>3. N = IF m.check_empty /\ Entry <= L.max_chosen THEN FastFail(L, m)
          ELSE IF m.fast_failed THEN TryCatchup(i, F, TRUE, cu)
          ELSE IF LocalChosen(i, L) THEN HandleIfLocalChosen(i, L, m, r)
          ELSE IF ~T.mem THEN L
          ELSE IF uncertain(T) THEN P
          ELSE TryCatchup(i, M, TRUE, cu)
  <2> HIDE DEF L
  <2>1. P = [T EXCEPT !.waiting_msgs = [@ EXCEPT ![m.from] = {c}]]
    OBVIOUS
  <2> HIDE DEF P
  <2> QED
    BY <2>1 DEF HandleLoadedPaxosCmd, EntryInfoAvailable, L
<1> HIDE DEF L
<1>4. L \in Node /\ L.loaded /\ L.op # "load"
  BY <1>1 DEF Holds, Steady
<1>5. Tidy(FastFail(L, m)) /\ Tidy(HandleIfLocalChosen(i, L, m, r))
  BY <1>2, <1>4, AnswerStill, StillTidy
<1>6. Tidy(TryCatchup(i, F, TRUE, cu))
  <2>1. Holds(i, FinishErr(L), r, TRUE) /\ Steady(L, FinishErr(L)) /\ Tidy(FinishErr(L))
    BY <1>1, <1>2, <1>4, FinishHolds, StillFields, StillTidy
  <2>2. Holds(i, F, r, TRUE) /\ Steady(L, F) /\ Tidy(F)
    <3>1. CASE mine
      BY <2>1, <3>1
    <3>2. CASE ~mine
      BY <1>1, <1>2, <3>2 DEF Steady
    <3> QED
      BY <3>1, <3>2
  <2> HIDE DEF F
  <2>3. F.loaded /\ F.op # "load"
    BY <1>4, <2>2 DEF Steady
  <2> QED
    BY <2>2, <2>3, TryCatchupTidy
<1>7. CASE ~LocalChosen(i, L)
  <2>1. L.max_cont = 0
    BY <1>4, <1>7, EntryNumbers DEF LocalChosen, Node
  <2>2. Holds(i, T, r, TRUE) /\ Steady(L, T) /\ T.max_cont = 0
    BY <1>1, <1>4, <2>1, CreateHolds
  <2>3. Tidy(T)
    BY <1>1, <1>2, <1>4, CreateTidy DEF Holds, Local
  <2>4. T.mem /\ ~uncertain(T) => L.op # "set"
    BY <1>4 DEF CreateEntryInfoIfMiss, uncertain, Node
  <2> HIDE DEF T, N
  <2>5. T \in Node /\ T.loaded /\ T.op # "load"
    BY <1>4, <2>2 DEF Holds, Steady
  <2>6. c \in PaxosCmd /\ MsgOK(i, c) /\ Copy(c.peer, m.peer)
    BY <2>5, RestoredOK, RestoredTells
  <2> HIDE DEF c
  <2>7. T.mem /\ uncertain(T) => Tidy(P)
    <3>1. P.mem = T.mem /\ P.op = T.op /\ P.broadcast = T.broadcast
          /\ P.peer_to_sync = T.peer_to_sync
      BY <2>5 DEF Node
    <3> HIDE DEF P
    <3> QED
      BY <2>3, <3>1 DEF Tidy, Neat, uncertain
  <2>8. CASE T.mem /\ ~uncertain(T)
    <3>1. T.op = "none"
      BY <2>5, <2>8 DEF uncertain, Node
    <3>2. C = T
      BY <2>2, <2>5, <3>1, CheckTrue DEF Holds, Local, Shape
    <3>3. M = UpdateMachineByPaxosCmd(i, T, c, TRUE)
      BY <3>2
    <3>4. Below(c.peer, r)
      BY <1>1, <2>4, <2>6, <2>8 DEF Below, Copy, Counts
    <3> HIDE DEF M
    <3>5. Holds(i, M, r, TRUE) /\ Steady(T, M)
      BY <2>2, <2>6, <2>8, <3>1, <3>3, UpdateMachineHolds
    <3>6. Tidy(M)
      BY <2>2, <2>3, <2>6, <2>8, <3>1, <3>3, <3>4, UpdateMachineTidy
    <3>7. M.loaded /\ M.op # "load"
      BY <2>5, <3>5 DEF Steady
    <3>8. Tidy(TryCatchup(i, M, TRUE, cu))
      BY <3>5, <3>6, <3>7, TryCatchupTidy
    <3> HIDE DEF P
    <3> QED
      BY <1>2, <1>3, <1>5, <1>6, <2>7, <2>8, <3>8 DEF N
  <2> HIDE DEF P, M
  <2> QED
    BY <1>2, <1>3, <1>5, <1>6, <2>7, <2>8 DEF N
<1> HIDE DEF N, P, M, F, T
<1> QED
  BY <1>3, <1>5, <1>6, <1>7 DEF N

LEMMA HandlePaxosCmdTidy ==
    ASSUME NEW i \in Acceptors, NEW S, NEW r \in Record, Holds(i, S, r, TRUE), Tidy(S),
           NEW m \in PaxosCmd, MsgOK(i, m), Below(m.peer, Counts(i, S, r)), NEW cu
    PROVE  Tidy(HandlePaxosCmd(i, S, m, r, TRUE, cu))
<1> DEFINE L == [S EXCEPT !.loaded = TRUE, !.op = "load", !.waiting_msg = {m}]
           W == [S EXCEPT !.waiting_msg = {m}]
           N == HandleLoadedPaxosCmd(i, S, m, r, TRUE, cu)
<1>1. S \in Node /\ (~S.loaded => ~S.mem)
  BY DEF Holds, Local, Shape
<1>2. HandlePaxosCmd(i, S, m, r, TRUE, cu) =
          IF ~S.loaded THEN L ELSE IF loading(S) THEN W ELSE N
  BY DEF HandlePaxosCmd
<1>3. L.op = "load" /\ L.waiting_msgs = S.waiting_msgs /\ Still(S, W)
  BY <1>1 DEF Node, Still
<1> HIDE DEF L, W
<1>4. Tidy(W) /\ (~S.loaded => Tidy(L))
  BY <1>1, <1>3, StillTidy DEF Tidy, Neat
<1>5. S.loaded /\ ~loading(S) => Tidy(N)
  BY HandleLoadedTidy DEF loading
<1> HIDE DEF N
<1> QED
  BY <1>2, <1>4, <1>5

(* The loop over the parked messages ends when nobody waits any more, or   *)
(* the entry is uncertain again or gone.                                   *)
LEMMA EndOfLoopTidy ==
    ASSUME NEW i \in Acceptors, NEW S, NEW r \in Record, Holds(i, S, r, TRUE), Neat(S),
           S.drain # "no", S.loaded, S.op # "load", NEW pushed \in BOOLEAN, NEW cu
    PROVE  Tidy(EndOfLoop(i, S, pushed, cu))
<1> DEFINE T == [S EXCEPT !.drain = "no"]
           on == S.mem /\ ~uncertain(S) /\ S.waiting_msgs # NoWaiting
<1>1. Holds(i, T, r, TRUE) /\ T.loaded /\ T.op # "load"
  BY DrainHolds
<1>2. EndOfLoop(i, S, pushed, cu) =
          IF on THEN S
          ELSE IF S.drain = "get" THEN TryCatchup(i, T, pushed, cu) ELSE T
  BY DEF EndOfLoop
<1>3. /\ T.mem = S.mem /\ T.op = S.op /\ T.broadcast = S.broadcast
      /\ T.peer_to_sync = S.peer_to_sync /\ T.waiting_msgs = S.waiting_msgs
  BY DEF Holds, Node
<1> HIDE DEF T
<1>4. ~on => Tidy(T)
  BY <1>3 DEF Tidy, Neat, uncertain
<1>5. on => Tidy(S)
  BY DEF Tidy
<1> HIDE DEF on
<1>6. ~on => Tidy(TryCatchup(i, T, pushed, cu))
  BY <1>1, <1>4, TryCatchupTidy
<1> QED
  BY <1>2, <1>4, <1>5, <1>6

LEMMA HandleWaitingMsgTidy ==
    ASSUME NEW i \in Acceptors, NEW S, NEW r \in Record, Holds(i, S, r, TRUE), Tidy(S),
           \A m \in Held(S) : Below(m.peer, Counts(i, S, r)),
           S.drain # "no", S.waiting_msgs # NoWaiting, NEW cu
    PROVE  Tidy(HandleWaitingMsg(i, S, r, TRUE, cu))
<1> DEFINE full == {a \in Acceptors : S.waiting_msgs[a] # {}}
           a == NextWaiting(S)
           m == CHOOSE x \in S.waiting_msgs[a] : TRUE
           w == [S.waiting_msgs EXCEPT ![a] = {}]
           T == [S EXCEPT !.waiting_msgs = w]
           N == HandleLoadedPaxosCmd(i, T, m, r, TRUE, cu)
<1>1. /\ S \in Node /\ S.waiting_msgs \in [Acceptors -> Waiting]
      /\ S.loaded /\ S.op # "load" /\ S.mem
  BY NodeFields DEF Holds, Local, Shape, Tidy, Neat
<1>2. full # {}
  BY <1>1 DEF NoWaiting
<1>3. a \in Acceptors /\ S.waiting_msgs[a] # {}
  <2>1. \E b \in full : \A e \in full : b <= e
    BY <1>2, FirstAcceptor
  <2>2. NextWaiting(S) = CHOOSE b \in Acceptors :
              /\ S.waiting_msgs[b] # {}
              /\ \A e \in Acceptors : S.waiting_msgs[e] # {} => b <= e
    BY DEF NextWaiting
  <2> QED
    BY <2>1, <2>2
<1>4. HandleWaitingMsg(i, S, r, TRUE, cu) = EndOfLoop(i, N, TRUE, cu)
  <2>1. T = [S EXCEPT !.waiting_msgs = [@ EXCEPT ![a] = {}]]
    OBVIOUS
  <2> HIDE DEF T
  <2> QED
    BY <2>1 DEF HandleWaitingMsg
<1> HIDE DEF a
<1>5. m \in PaxosCmd /\ MsgOK(i, m) /\ m \in Held(S)
  <2>1. m \in S.waiting_msgs[a]
    BY <1>3
  <2> QED
    BY <1>1, <1>3, <2>1 DEF Holds, Local, Parked, Waiting, Held
<1> HIDE DEF m
<1>6. Holds(i, T, r, TRUE) /\ Steady(S, T)
  BY <1>3, UnparkHolds
<1> HIDE DEF w
<1>7. /\ T.mem = S.mem /\ T.op = S.op /\ T.broadcast = S.broadcast /\ T.recs = S.recs
      /\ T.peer_to_sync = S.peer_to_sync /\ T.drain = S.drain /\ T.loaded = S.loaded
  BY <1>1 DEF Node
<1> HIDE DEF T
<1>8. Tidy(T) /\ Counts(i, T, r) = Counts(i, S, r)
  BY <1>1, <1>7 DEF Tidy, Neat, Counts
<1>9. Below(m.peer, Counts(i, T, r))
  BY <1>5, <1>8
<1>10. Holds(i, N, r, TRUE) /\ Steady(T, N) /\ Tidy(N)
  BY <1>1, <1>5, <1>6, <1>7, <1>8, <1>9, HandleLoadedHolds, HandleLoadedTidy
<1> HIDE DEF N
<1>11. N.loaded /\ N.op # "load" /\ N.drain # "no" /\ Neat(N)
  BY <1>1, <1>7, <1>10 DEF Steady, Tidy
<1> QED
  BY <1>4, <1>10, <1>11, EndOfLoopTidy

(* The record was stored for somebody: HandleSetFromPlog reaches the loop. *)
LEMMA HandleSetTidy ==
    ASSUME NEW i \in Acceptors, NEW S, NEW s, Holds(i, S, s, TRUE), Tidy(S), S.op = "set"
    PROVE  Tidy(HandleSetFromPlog(i, S, TRUE))
<1> DEFINE U == [S EXCEPT !.op = "none"]
           V == UpdateByChosenEntry(i, U)
           W == FinishIfChosen(i, V)
           Y == SyncPersistent(i, W)
           O == [Y EXCEPT !.broadcast = FALSE, !.compensate = FALSE,
                          !.peer_to_sync = NoPeer, !.drain = "set"]
           E == [O EXCEPT !.drain = "no"]
<1>1. S \in Node /\ S.peer_to_sync # i /\ S.mem
  BY DEF Holds, Local, Parked, Shape
<1>2. HandleSetFromPlog(i, S, TRUE) =
          IF ~W.broadcast /\ W.peer_to_sync = NoPeer THEN W
          ELSE EndOfLoop(i, O, TRUE, "none")
  BY DEF HandleSetFromPlog
<1>3. /\ U \in Node /\ U.peer_to_sync = S.peer_to_sync /\ U.op = "none"
      /\ U.broadcast = S.broadcast /\ U.mem
  BY <1>1 DEF Node
<1> HIDE DEF U
<1>4. V \in Node /\ Still(U, V)
  BY <1>3, UpdateByChosenType, UpdateByChosenStill DEF GoodNode
<1> HIDE DEF V
<1>5. W \in Node /\ Still(U, W)
  <2>1. FinishOk(V) \in Node /\ Still(V, FinishOk(V))
    BY <1>4, FinishType, StillFields DEF GoodNode
  <2>2. W = V \/ W = FinishOk(V)
    BY DEF FinishIfChosen
  <2> HIDE DEF W
  <2> QED
    BY <1>4, <2>1, <2>2, StillTrans
<1> HIDE DEF W
<1>6. W.broadcast \/ W.peer_to_sync # NoPeer
  BY <1>3, <1>5 DEF Still, Tidy, Neat
<1>7. PICK P \in SUBSET Peers(i) : Y = SyncToPeers(i, W, P)
  BY <1>1, <1>3, <1>5, <1>6, SyncPersistentFacts DEF Still
<1>8. Y \in Node /\ Still(W, Y)
  BY <1>5, <1>7, SyncToPeersType, StillFields DEF GoodNode, Peers
<1> HIDE DEF Y
<1>9. O.op = Y.op /\ O.mem = Y.mem /\ O.drain = "set" /\ O \in Node
  BY <1>8 DEF Node
<1> HIDE DEF O
<1>10. O.op = "none" /\ O.mem
  BY <1>3, <1>5, <1>8, <1>9 DEF Still
<1>11. /\ E.op = "none" /\ E.mem /\ E.waiting_msgs = O.waiting_msgs
  BY <1>9, <1>10 DEF Node
<1> HIDE DEF E
<1>12. EndOfLoop(i, O, TRUE, "none") = IF O.waiting_msgs # NoWaiting THEN O ELSE E
  BY <1>9, <1>10 DEF EndOfLoop, uncertain, E
<1> QED
  BY <1>2, <1>6, <1>9, <1>10, <1>11, <1>12 DEF Tidy, Neat

LEMMA HandleGetTidy ==
    ASSUME NEW i \in Acceptors, NEW S, NEW r \in Record, Holds(i, S, r, TRUE), Tidy(S),
           Settled(S), S.op = "get", NEW pushed \in BOOLEAN, NEW cu
    PROVE  Tidy(HandleGetFromPlog(i, S, r, TRUE, pushed, cu))
<1> DEFINE U == [S EXCEPT !.op = "none"]
           q == Update(i, i, U.recs, r)
           V == [U EXCEPT !.recs = q]
           C == UpdateByChosenEntry(i, V)
           X == [C EXCEPT !.drain = "get"]
<1>1. S \in Node /\ S.recs = NewMachine /\ UpdateAccepts(r) /\ S.mem
  BY DEF Holds, Local, Shape, Covered
<1>2. HandleGetFromPlog(i, S, r, TRUE, pushed, cu) = EndOfLoop(i, X, pushed, cu)
  BY <1>1 DEF HandleGetFromPlog
<1>3. X = RecordRead(i, S, r)
  BY DEF RecordRead
<1>4. Holds(i, X, r, TRUE) /\ X.loaded /\ X.op # "load"
  <2> HIDE DEF X
  <2> QED
    BY <1>3, RecordReadHolds
<1>5. U \in Node /\ U.op = "none" /\ U.recs = NewMachine /\ U.mem
  BY <1>1 DEF Node
<1> HIDE DEF U
<1>6. q \in Machine
  BY <1>1, <1>5, MachineRead
<1> HIDE DEF q
<1>7. V \in Node /\ V.op = "none" /\ V.mem
  BY <1>5, <1>6 DEF Node
<1> HIDE DEF V
<1>8. C \in Node /\ C.op = "none" /\ C.mem
  BY <1>7, UpdateByChosenType, UpdateByChosenStill DEF GoodNode, Still
<1> HIDE DEF C
<1>9. X.op = "none" /\ X.mem /\ X.drain = "get"
  BY <1>8 DEF Node
<1> HIDE DEF X
<1>10. Neat(X)
  BY <1>9 DEF Neat
<1> QED
  BY <1>2, <1>4, <1>9, <1>10, EndOfLoopTidy

LEMMA HandleLoadTidy ==
    ASSUME NEW i \in Acceptors, NEW S, NEW r \in Record, Holds(i, S, r, TRUE), Tidy(S),
           \A m \in Held(S) : Below(m.peer, Counts(i, S, r)),
           S.op = "load", NEW b \in BOOLEAN, b => r.chosen, NEW cu
    PROVE  Tidy(HandleLoadFromPlog(i, S, r, b, TRUE, cu))
<1> DEFINE U == EntityLoaded(S, r, b)
           m == CHOOSE x \in S.waiting_msg : TRUE
           V == IF S.waiting_msg = {} THEN U
                ELSE HandleLoadedPaxosCmd(i, U, m, r, TRUE, cu)
<1>1. HandleLoadFromPlog(i, S, r, b, TRUE, cu) =
          IF V.client.kind = "none" THEN V ELSE DispatchClientCmd(i, V, TRUE, cu)
  BY DEF HandleLoadFromPlog, EntityLoaded
<1>2. Holds(i, U, r, TRUE) /\ U.loaded /\ U.op = "none"
  BY EntityLoadedHolds
<1>3. S \in Node /\ ~S.mem /\ S.waiting_msgs = NoWaiting
  BY DEF Holds, Local, Shape, Tidy, Neat
<1>4. U.waiting_msgs = S.waiting_msgs
  BY <1>3 DEF EntityLoaded, UpdateByLoadFromPlog, Node
<1> HIDE DEF U
<1>5. Tidy(U)
  BY <1>2, <1>3, <1>4 DEF Tidy, Neat
<1>6. S.waiting_msg # {} => /\ m \in PaxosCmd /\ MsgOK(i, m)
                            /\ Below(m.peer, Counts(i, U, r))
  BY <1>2, NodeFields DEF Holds, Local, Parked, Waiting, Held, Counts
<1> HIDE DEF m
<1>7. Holds(i, V, r, TRUE) /\ Tidy(V) /\ V.loaded /\ V.op # "load"
  <2>1. CASE S.waiting_msg = {}
    BY <1>2, <1>5, <2>1
  <2>2. CASE S.waiting_msg # {}
    <3> DEFINE N == HandleLoadedPaxosCmd(i, U, m, r, TRUE, cu)
    <3>1. Holds(i, N, r, TRUE) /\ Steady(U, N) /\ Tidy(N)
      BY <1>2, <1>5, <1>6, <2>2, HandleLoadedHolds, HandleLoadedTidy
    <3>2. V = N
      BY <2>2
    <3> HIDE DEF N, V
    <3> QED
      BY <1>2, <3>1, <3>2 DEF Steady
  <2> QED
    BY <2>1, <2>2
<1> HIDE DEF V
<1>8. Holds(i, FinishErr(V), r, TRUE) /\ V \in Node
  BY <1>7, FinishHolds DEF Holds
<1>9. Tidy(DispatchClientCmd(i, V, TRUE, cu))
  BY <1>7, <1>8, DispatchTidy
<1> QED
  BY <1>1, <1>7, <1>9

LEMMA DestroyTidy ==
    ASSUME NEW S \in Node, S.op = "none"
    PROVE  Tidy(DestroyEntryInfo(S))
<1> DEFINE T == DestroyEntryInfo(S)
<1>1. T.op = "none" /\ T.waiting_msgs = NoWaiting
  BY DEF DestroyEntryInfo, Node
<1> HIDE DEF T
<1>2. Tidy(T)
  BY <1>1 DEF Tidy, Neat
<1> QED
  BY <1>2 DEF T

(* The inductive invariant.                                                *)
ParkedInv == Undamaged => \A i \in Acceptors : Tidy(node[i])

(* As long as nothing is damaged, what waits at a replica or comes to it   *)
(* knows nothing newer of it than what counts there.                       *)
LEMMA ToldBelow ==
    ASSUME TypeInv, DurableInv, AgreementInv, Undamaged, NEW i \in Acceptors
    PROVE  /\ \A m \in Held(node[i]) : Below(m.peer, Counts(i, node[i], plog[i]))
           /\ \A m \in net : m.to = i => Below(m.peer, Counts(i, node[i], plog[i]))
<1>1. PICK H : \E c \in [Acceptors -> Record] : Accounts(H, c)
  BY DEF AgreementInv, Accounts, World
<1>2. PICK c \in [Acceptors -> Record] : Accounts(H, c)
  BY <1>1
<1>3. Known(i, node[i], plog[i], H, c) /\ node[i] \in Node
  BY <1>2 DEF Accounts, TypeInv, TypeOK
<1>4. KnowsFrom(i, node[i], plog[i], H, c)
  BY <1>3, KnownKnows
<1>5. ASSUME NEW m \in Held(node[i])
      PROVE  m \in PaxosCmd /\ m.to = i /\ Reports(H, m)
  <2>1. m \in PaxosCmd /\ Reports(H, m)
    BY <1>3, HeldType DEF Known
  <2>2. node[i].out = {} /\ Parked(i, node[i])
    BY DEF DurableInv, Local
  <2>3. MsgOK(i, m)
    BY <2>2 DEF Held, Parked
  <2> QED
    BY <2>1, <2>3 DEF MsgOK
<1>6. \A m \in Held(node[i]) : Below(m.peer, Counts(i, node[i], plog[i]))
  BY <1>4, <1>5, PeerBelow
<1>7. \A m \in net : m.to = i => Below(m.peer, Counts(i, node[i], plog[i]))
  BY <1>2, <1>4, PeerBelow DEF Accounts, TypeInv, TypeOK
<1> QED
  BY <1>6, <1>7

LEMMA GoTidy ==
    ASSUME TypeInv, ParkedInv, Undamaged, NEW i \in Acceptors, NEW S \in Node, NEW N0,
           Go(i, S, N0), Tidy(S)
    PROVE  ParkedInv'
<1> DEFINE T == [S EXCEPT !.out = {}, !.done = NoCmd]
<1>1. node' = [node EXCEPT ![i] = T]
  BY DEF Go
<1>2. Still(S, T)
  BY DEF Still, Node
<1> HIDE DEF T
<1>3. Tidy(T)
  BY <1>2, StillTidy
<1>4. \A j \in Acceptors : node'[j] = T \/ node'[j] = node[j]
  BY <1>1 DEF TypeInv, TypeOK
<1> QED
  BY <1>3, <1>4 DEF ParkedInv

LEMMA ClientTidy ==
    ASSUME TypeInv, DurableInv, ParkedInv, Undamaged, NoFault', NEW i \in Acceptors,
           NEW cmd \in ClientCmd, cmd.kind # "none", Idle(i),
           NEW pushed \in BOOLEAN, NEW cu, PlogQueue(pushed), evictions' = evictions,
           Go(i, HandleClientCmd(i, node[i], cmd, pushed, cu), net)
    PROVE  ParkedInv'
<1>1. NoFault /\ pushed = TRUE
  BY QueueFault
<1>2. Holds(i, node[i], plog[i], TRUE) /\ Settled(node[i]) /\ plog[i] \in Record
  BY <1>1, NodeHolds
<1> DEFINE N == HandleClientCmd(i, node[i], cmd, TRUE, cu)
<1>3. N \in Node
  BY <1>2, HandleClientCmdHolds DEF Idle, Holds
<1>4. Tidy(N)
  BY <1>2, HandleClientCmdTidy DEF ParkedInv
<1>5. Go(i, N, net)
  BY <1>1
<1> HIDE DEF N
<1> QED
  BY <1>3, <1>4, <1>5, GoTidy

LEMMA ReceiveTidy ==
    ASSUME TypeInv, DurableInv, AgreementInv, ParkedInv, Undamaged, NoFault',
           NEW m \in net, ReceivePaxosCmd(m)
    PROVE  ParkedInv'
<1> DEFINE i == m.to
           N0 == IF Duplicates THEN net ELSE net \ {m}
<1>1. i \in Acceptors /\ m \in PaxosCmd /\ MsgOK(i, m)
  BY DEF DurableInv, TypeInv, TypeOK, PaxosCmd
<1> HIDE DEF N0
<1>2. PICK pushed \in BOOLEAN, cu \in CatchupChoicesAt(i, m.max_chosen) :
        PlogQueue(pushed) /\ Go(i, HandlePaxosCmd(i, node[i], m, plog[i], pushed, cu), N0)
  BY DEF ReceivePaxosCmd, N0
<1>3. evictions' = evictions /\ Idle(i)
  BY DEF ReceivePaxosCmd
<1>4. Below(m.peer, Counts(i, node[i], plog[i]))
  BY <1>1, ToldBelow
<1> HIDE DEF i
<1>5. NoFault /\ pushed = TRUE
  BY <1>2, <1>3, QueueFault
<1>6. Holds(i, node[i], plog[i], TRUE) /\ Settled(node[i]) /\ plog[i] \in Record
  BY <1>1, <1>5, NodeHolds
<1> DEFINE N == HandlePaxosCmd(i, node[i], m, plog[i], TRUE, cu)
<1>7. N \in Node
  BY <1>1, <1>3, <1>6, HandlePaxosCmdHolds DEF Idle, Holds
<1>8. Tidy(N)
  BY <1>1, <1>4, <1>6, HandlePaxosCmdTidy DEF ParkedInv
<1>9. Go(i, N, N0)
  BY <1>2, <1>5
<1> HIDE DEF N
<1> QED
  BY <1>1, <1>7, <1>8, <1>9, GoTidy

LEMMA SetTidy ==
    ASSUME TypeInv, DurableInv, ParkedInv, Undamaged, NoFault', NEW i \in Acceptors,
           PlogSetRecord(i)
    PROVE  ParkedInv'
<1>1. PICK success \in BOOLEAN :
        PlogResult(success) /\ Go(i, HandleSetFromPlog(i, node[i], success), net)
  BY DEF PlogSetRecord
<1>2. evictions' = evictions /\ node[i].op = "set"
  BY DEF PlogSetRecord
<1>3. NoFault /\ success = TRUE
  BY <1>1, <1>2, QueueFault DEF PlogResult
<1>4. /\ Holds(i, node[i], plog[i], TRUE) /\ Settled(node[i]) /\ plog[i] \in Record
      /\ node[i].out = {} /\ node[i] \in Node
  BY <1>3, NodeHolds
<1>5. node[i].recs[i] \in Record
  BY <1>4, HoldsNode
<1> DEFINE N == HandleSetFromPlog(i, node[i], TRUE)
<1>6. N \in Node
  BY <1>2, <1>4, <1>5, HandleSetHolds DEF Holds
<1>7. Tidy(N)
  BY <1>2, <1>4, HandleSetTidy DEF ParkedInv
<1>8. Go(i, N, net)
  BY <1>1, <1>3
<1> HIDE DEF N
<1> QED
  BY <1>6, <1>7, <1>8, GoTidy

LEMMA GetTidy ==
    ASSUME TypeInv, DurableInv, ParkedInv, Undamaged, NoFault', NEW i \in Acceptors,
           PlogGetRecord(i)
    PROVE  ParkedInv'
<1>1. PICK success \in BOOLEAN, pushed \in BOOLEAN, cu \in CatchupChoices :
        /\ PlogResult(success /\ pushed)
        /\ Go(i, HandleGetFromPlog(i, node[i], plog[i], success, pushed, cu), net)
  BY DEF PlogGetRecord
<1>2. evictions' = evictions /\ node[i].op = "get"
  BY DEF PlogGetRecord
<1>3. NoFault /\ success = TRUE
  BY <1>1, <1>2, QueueFault DEF PlogResult
<1>4. Holds(i, node[i], plog[i], TRUE) /\ Settled(node[i]) /\ plog[i] \in Record
  BY <1>3, NodeHolds
<1> DEFINE N == HandleGetFromPlog(i, node[i], plog[i], TRUE, pushed, cu)
<1>5. N \in Node
  BY <1>2, <1>4, HandleGetHolds DEF Holds
<1>6. Tidy(N)
  BY <1>2, <1>4, HandleGetTidy DEF ParkedInv
<1>7. Go(i, N, net)
  BY <1>1, <1>3
<1> HIDE DEF N
<1> QED
  BY <1>5, <1>6, <1>7, GoTidy

LEMMA LoadTidy ==
    ASSUME TypeInv, DurableInv, AgreementInv, ParkedInv, Undamaged, NoFault',
           NEW i \in Acceptors, PlogLoad(i)
    PROVE  ParkedInv'
<1> DEFINE b == i \in db
<1>1. PICK success \in BOOLEAN, pushed \in BOOLEAN, cu \in CatchupChoices :
        /\ PlogResult(success /\ pushed)
        /\ Go(i, IF success
                 THEN HandleLoadFromPlog(i, node[i], plog[i], b, pushed, cu)
                 ELSE EntityAbsent(i), net)
  BY DEF PlogLoad
<1>2. evictions' = evictions /\ node[i].op = "load"
  BY DEF PlogLoad
<1>3. NoFault /\ success = TRUE /\ pushed = TRUE
  BY <1>1, <1>2, QueueFault DEF PlogResult
<1>4. b \in BOOLEAN /\ (b => plog[i].chosen)
  <2>1. b => plog[i].chosen
    BY <1>3 DEF DurableInv
  <2> QED
    BY <2>1
<1> HIDE DEF b
<1>5. Holds(i, node[i], plog[i], TRUE) /\ plog[i] \in Record
  BY <1>3, NodeHolds
<1> DEFINE N == HandleLoadFromPlog(i, node[i], plog[i], b, TRUE, cu)
<1>6. N \in Node
  BY <1>2, <1>4, <1>5, HandleLoadHolds DEF Holds
<1>7. Tidy(N)
  BY <1>2, <1>4, <1>5, ToldBelow, HandleLoadTidy DEF ParkedInv
<1>8. Go(i, N, net)
  BY <1>1, <1>3
<1> HIDE DEF N
<1> QED
  BY <1>6, <1>7, <1>8, GoTidy

LEMMA DrainTidy ==
    ASSUME TypeInv, DurableInv, AgreementInv, ParkedInv, Undamaged, NoFault',
           NEW i \in Acceptors, DrainWaitingMsg(i)
    PROVE  ParkedInv'
<1>1. PICK pushed \in BOOLEAN, cu \in CatchupChoices :
        PlogQueue(pushed) /\ Go(i, HandleWaitingMsg(i, node[i], plog[i], pushed, cu), net)
  BY DEF DrainWaitingMsg
<1>2. evictions' = evictions /\ node[i].drain # "no" /\ node[i].waiting_msgs # NoWaiting
  BY DEF DrainWaitingMsg, Idle, TypeInv, DrainInv, Draining
<1>3. NoFault /\ pushed = TRUE
  BY <1>1, <1>2, QueueFault
<1>4. Holds(i, node[i], plog[i], TRUE) /\ Settled(node[i]) /\ plog[i] \in Record
  BY <1>3, NodeHolds
<1> DEFINE N == HandleWaitingMsg(i, node[i], plog[i], TRUE, cu)
<1>5. N \in Node
  BY <1>2, <1>4, HandleWaitingMsgHolds DEF Holds
<1>6. Tidy(N)
  BY <1>2, <1>4, ToldBelow, HandleWaitingMsgTidy DEF ParkedInv
<1>7. Go(i, N, net)
  BY <1>1, <1>3
<1> HIDE DEF N
<1> QED
  BY <1>5, <1>6, <1>7, GoTidy

LEMMA CatchupTidy ==
    ASSUME TypeInv, DurableInv, ParkedInv, Undamaged, NoFault', NEW i \in Acceptors,
           IterateAndCatchup(i)
    PROVE  ParkedInv'
<1>1. PICK pushed \in BOOLEAN, cu \in CatchupChoices :
        PlogQueue(pushed) /\ Go(i, TryCatchup(i, node[i], pushed, cu), net)
  BY DEF IterateAndCatchup
<1>2. /\ evictions' = evictions /\ node[i].loaded
      /\ node[i].max_cont # node[i].max_chosen
  BY DEF IterateAndCatchup
<1>3. NoFault
  BY <1>1, <1>2, QueueFault
<1>4. Holds(i, node[i], plog[i], TRUE) /\ plog[i] \in Record
  BY <1>3, NodeHolds
<1>5. node[i].op # "load"
  BY <1>2, <1>4 DEF Holds, Local, Shape
<1> DEFINE N == TryCatchup(i, node[i], pushed, cu)
<1>6. N \in Node
  BY <1>2, <1>4, <1>5, TryCatchupHolds DEF Holds
<1>7. Tidy(N)
  BY <1>2, <1>4, <1>5, TryCatchupTidy DEF ParkedInv
<1>8. Go(i, N, net)
  BY <1>1
<1> HIDE DEF N
<1> QED
  BY <1>6, <1>7, <1>8, GoTidy

LEMMA CleanupTidy ==
    ASSUME TypeInv, DurableInv, ParkedInv, Undamaged, NEW i \in Acceptors,
           CleanupExpiredChosenEntry(i)
    PROVE  ParkedInv'
<1>1. /\ node[i].mem /\ node[i].old
      /\ Go(i, DestroyEntryInfo(Check(node[i], ~uncertain(node[i]))), net)
  BY DEF CleanupExpiredChosenEntry
<1>2. Holds(i, node[i], plog[i], FALSE) /\ node[i] \in Node
  BY NodeHolds
<1>3. node[i].op = "none"
  BY <1>1, <1>2, EntryNumbers DEF Holds, Local, Shape, Node
<1>4. Check(node[i], ~uncertain(node[i])) = node[i]
  BY <1>2, <1>3, CheckTrue DEF uncertain, Holds, Local
<1>5. DestroyEntryInfo(node[i]) \in Node /\ Tidy(DestroyEntryInfo(node[i]))
  BY <1>2, <1>3, DestroyType, DestroyTidy DEF GoodNode
<1> QED
  BY <1>1, <1>4, <1>5, GoTidy

LEMMA AbsentTidy ==
    ASSUME NEW i \in Acceptors
    PROVE  LET A == EntityAbsent(i) IN Tidy(A) /\ Tidy([A EXCEPT !.loaded = TRUE])
BY DEF Tidy, Neat, EntityAbsent

(* Damage is never undone.                                                 *)
LEMMA DamageStays ==
    ASSUME TypeInv, [Next]_vars, Undamaged'
    PROVE  Undamaged /\ NoFault'
<1>1. /\ evictions \in Nat /\ plogErrors \in Nat /\ crashes \in Nat
  BY BoundsAssumption DEF TypeInv, TypeOK
<1>2. NoFault' /\ (CleanStops \/ crashes' = 0)
  BY DEF Undamaged, NoFault
<1>3. CASE /\ evictions' = evictions \/ evictions' = evictions + 1
           /\ plogErrors' = plogErrors \/ plogErrors' = plogErrors + 1
           /\ crashes' = crashes \/ crashes' = crashes + 1
  <2>1. evictions' + plogErrors' = 0
    BY <1>2 DEF NoFault
  <2>2. evictions + plogErrors = 0 /\ (crashes' = 0 => crashes = 0)
    BY <1>1, <1>3, <2>1
  <2> QED
    BY <1>2, <2>2 DEF Undamaged
<1>4. \A pushed : PlogQueue(pushed) =>
        plogErrors' = plogErrors \/ plogErrors' = plogErrors + 1
  BY DEF PlogQueue
<1>5. ASSUME NEW i, NEW v, ClientWrite(i, v) PROVE Undamaged
  BY <1>3, <1>4, <1>5 DEF ClientWrite
<1>6. ASSUME NEW i, ClientRead(i) PROVE Undamaged
  BY <1>3, <1>4, <1>6 DEF ClientRead
<1>7. ASSUME NEW m, ReceivePaxosCmd(m) \/ LoseMessage(m) PROVE Undamaged
  BY <1>3, <1>4, <1>7 DEF ReceivePaxosCmd, LoseMessage
<1>8. ASSUME NEW i, \/ ClientTimeout(i) \/ CleanupExpiredChosenEntry(i)
                    \/ MakeEnoughRoom(i) \/ Crash(i)
      PROVE  Undamaged
  BY <1>3, <1>8 DEF ClientTimeout, CleanupExpiredChosenEntry, MakeEnoughRoom, Crash
<1>9. ASSUME NEW i, PlogSetRecord(i) \/ PlogGetRecord(i) \/ PlogLoad(i) PROVE Undamaged
  BY <1>3, <1>4, <1>9 DEF PlogSetRecord, PlogGetRecord, PlogLoad, PlogResult
<1>10. ASSUME NEW i, DrainWaitingMsg(i) \/ IterateAndCatchup(i) PROVE Undamaged
  BY <1>3, <1>4, <1>10 DEF DrainWaitingMsg, IterateAndCatchup
<1>11. CASE UNCHANGED vars
  BY <1>3, <1>11 DEF vars
<1> QED
  BY <1>2, <1>5, <1>6, <1>7, <1>8, <1>9, <1>10, <1>11 DEF Next

LEMMA StepTidy ==
    ASSUME TypeInv, DurableInv, AgreementInv, ParkedInv, [Next]_vars
    PROVE  ParkedInv'
<1> SUFFICES ASSUME Undamaged' PROVE ParkedInv'
  BY DEF ParkedInv
<1>0. Undamaged /\ NoFault'
  BY DamageStays
<1>1. ASSUME NEW i \in Writers, NEW v \in Values, ClientWrite(i, v) PROVE ParkedInv'
  <2> DEFINE cmd == [NoCmd EXCEPT !.kind = "write", !.value = v]
  <2>1. cmd \in ClientCmd /\ cmd.kind # "none"
    BY DEF NoCmd, ClientCmd
  <2>2. PICK pushed \in BOOLEAN, cu \in CatchupChoices :
          PlogQueue(pushed) /\ Go(i, HandleClientCmd(i, node[i], cmd, pushed, cu), net)
    BY <1>1 DEF ClientWrite
  <2>3. evictions' = evictions /\ Idle(i) /\ i \in Acceptors
    BY <1>1, BoundsAssumption DEF ClientWrite
  <2> HIDE DEF cmd
  <2> QED
    BY <1>0, <2>1, <2>2, <2>3, ClientTidy
<1>2. ASSUME NEW i \in Readers, ClientRead(i) PROVE ParkedInv'
  <2> DEFINE cmd == [NoCmd EXCEPT !.kind = "read", !.uuid = reads + 1,
                                  !.stale = acked # {}]
  <2>1. cmd \in ClientCmd /\ cmd.kind # "none"
    <3>1. reads + 1 \in Nat /\ (acked # {}) \in BOOLEAN
      BY BoundsAssumption DEF TypeInv, TypeOK
    <3> QED
      BY <3>1 DEF NoCmd, ClientCmd
  <2>2. PICK pushed \in BOOLEAN, cu \in CatchupChoices :
          PlogQueue(pushed) /\ Go(i, HandleClientCmd(i, node[i], cmd, pushed, cu), net)
    BY <1>2 DEF ClientRead
  <2>3. evictions' = evictions /\ Idle(i) /\ i \in Acceptors
    BY <1>2, BoundsAssumption DEF ClientRead
  <2> HIDE DEF cmd
  <2> QED
    BY <1>0, <2>1, <2>2, <2>3, ClientTidy
<1>3. ASSUME NEW m \in net, ReceivePaxosCmd(m) PROVE ParkedInv'
  BY <1>0, <1>3, ReceiveTidy
<1>4. ASSUME NEW m \in net, LoseMessage(m) PROVE ParkedInv'
  BY <1>0, <1>4 DEF LoseMessage, ParkedInv
<1>5. ASSUME NEW i \in Acceptors, ClientTimeout(i) PROVE ParkedInv'
  <2>1. Go(i, FinishErr(node[i]), net)
    BY <1>5 DEF ClientTimeout
  <2>2. node[i] \in Node /\ Tidy(node[i])
    BY <1>0 DEF TypeInv, TypeOK, ParkedInv
  <2>3. FinishErr(node[i]) \in Node /\ Tidy(FinishErr(node[i]))
    BY <2>2, FinishType, StillFields, StillTidy DEF GoodNode
  <2> QED
    BY <1>0, <2>1, <2>3, GoTidy
<1>6. ASSUME NEW i \in Acceptors, PlogSetRecord(i) PROVE ParkedInv'
  BY <1>0, <1>6, SetTidy
<1>7. ASSUME NEW i \in Acceptors, PlogGetRecord(i) PROVE ParkedInv'
  BY <1>0, <1>7, GetTidy
<1>8. ASSUME NEW i \in Acceptors, PlogLoad(i) PROVE ParkedInv'
  BY <1>0, <1>8, LoadTidy
<1>9. ASSUME NEW i \in Acceptors, DrainWaitingMsg(i) PROVE ParkedInv'
  BY <1>0, <1>9, DrainTidy
<1>10. ASSUME NEW i \in Acceptors, IterateAndCatchup(i) PROVE ParkedInv'
  BY <1>0, <1>10, CatchupTidy
<1>11. ASSUME NEW i \in Acceptors, CleanupExpiredChosenEntry(i) PROVE ParkedInv'
  BY <1>0, <1>11, CleanupTidy
<1>12. ASSUME NEW i \in Acceptors, MakeEnoughRoom(i) PROVE ParkedInv'
  <2>1. evictions' = evictions + 1 /\ plogErrors' = plogErrors
    BY <1>12 DEF MakeEnoughRoom
  <2> QED
    BY <1>0, <2>1, BoundsAssumption DEF NoFault, TypeInv, TypeOK
<1>13. ASSUME NEW i \in Acceptors, Crash(i) PROVE ParkedInv'
  <2>1. Go(i, EntityAbsent(i), net)
    BY <1>13 DEF Crash
  <2> QED
    BY <1>0, <2>1, EntityAbsentType, AbsentTidy, GoTidy
<1>14. ASSUME UNCHANGED vars PROVE ParkedInv'
  BY <1>0, <1>14 DEF vars, ParkedInv
<1> QED
  BY <1>1, <1>2, <1>3, <1>4, <1>5, <1>6, <1>7, <1>8, <1>9, <1>10, <1>11, <1>12,
     <1>13, <1>14 DEF Next

(* With any number of replicas: as long as no entry is evicted, no plog    *)
(* operation fails and no process is stopped with a plog write open, no    *)
(* message stays parked at an entry that is not uncertain any more: a      *)
(* record is only stored when somebody is to be told of it, so the early   *)
(* return of HandleSetFromPlog is not taken and the loop over the parked   *)
(* messages follows.                                                       *)
THEOREM ParkedAreHandled == Spec => [](Undamaged => NoParkedMsg)
<1>1. Init => ParkedInv
  BY AbsentTidy DEF Init, ParkedInv
<1>2. TypeInv /\ DurableInv /\ AgreementInv /\ ParkedInv /\ [Next]_vars => ParkedInv'
  BY StepTidy
<1>3. ParkedInv => (Undamaged => NoParkedMsg)
  BY DEF ParkedInv, NoParkedMsg, Tidy, Idle
<1> QED
  BY <1>1, <1>2, <1>3, Agreed, PTL DEF Spec
=============================================================================
