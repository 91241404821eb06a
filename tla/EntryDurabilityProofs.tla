----------------------- MODULE EntryDurabilityProofs ------------------------
(***************************************************************************)
(* What one replica guarantees by itself, whatever its peers send and      *)
(* whatever fails: the assertions of EntityHelper hold, nothing is sent    *)
(* before it is stored, and, as long as no entry is evicted and no plog    *)
(* operation fails, its plog never goes back.                              *)
(*                                                                         *)
(* The invariant is one of a replica: Local(i, S, r, f) for its state S    *)
(* and its plog record r, where f says that nothing has been evicted or    *)
(* failed.  Every handler keeps it, and keeps Sent(i, S, r) for the        *)
(* messages it adds.                                                       *)
(***************************************************************************)
EXTENDS CertainEntryProofs, FiniteSetTheorems

(* The machine of an entry: every record is well formed, and a replica     *)
(* that does not know of a choice has followed what it has seen.           *)
WellFormed(recs) == \A a \in Acceptors : UpdateAccepts(recs[a])

Follows(i, recs) ==
    \A a \in Acceptors :
        /\ recs[a].promised <= recs[i].promised
        /\ recs[a].accepted = recs[i].promised => recs[i].accepted = recs[i].promised

MachineInv(i, recs) ==
    /\ WellFormed(recs)
    /\ ~recs[i].chosen =>
        /\ Follows(i, recs)
        /\ ~(recs[i].accepted > 0 /\ IsMajority(AcceptedSame(i, recs)))

(* The fields of the EntityInfo and the EntryInfo fit together.            *)
Shape(S) ==
    /\ S.op = "load" => S.loaded
    /\ ~S.loaded \/ S.op = "load" =>
        ~S.mem /\ S.max_chosen = 0 /\ S.max_cont = 0 /\ S.max_plog = 0
    /\ ~S.loaded => S.op = "none"
    /\ S.drain # "no" => S.loaded /\ S.op # "load"
    /\ S.op \in {"get", "set"} => S.mem /\ S.max_cont = 0
    /\ S.op = "get" => S.max_plog = Entry
    /\ ~S.mem => ~S.old
    /\ S.op = "get" \/ ~S.mem => S.recs = NewMachine
    /\ S.op # "set" => ~S.broadcast /\ S.peer_to_sync = NoPeer
    /\ S.old => S.max_cont = Entry
    /\ S.max_cont = Entry => S.max_chosen = Entry

(* A command of a client gets its value id from the promise made for it.   *)
Numbered(i, S) ==
    S.client.kind # "none" /\ S.client.value_id = 0 => S.recs[i].prepared = 0

(* ... and one that has none, a read that waits for empty replies, is not  *)
(* there when a record is loaded from the plog.                            *)
Settled(S) ==
    S.client.kind # "none" /\ S.client.value_id = 0 /\ S.op # "load" => S.max_plog = 0

(* Messages that wait, or are under way to replica i, and the peers it     *)
(* will send to.                                                           *)
MsgOK(i, m) ==
    /\ m.to = i /\ m.from # i
    /\ m.check_empty =>
        /\ m.peer = EmptyRecord
        /\ m.local = EmptyRecord \/ (m.local.chosen /\ ~m.local.id_only)

Parked(i, S) ==
    /\ S.active_peer # i /\ S.peer_to_sync # i
    /\ \A m \in S.waiting_msg : MsgOK(i, m)
    /\ \A a \in Acceptors : \A m \in S.waiting_msgs[a] : MsgOK(i, m)

(* The memory and the plog.                                                *)
Covered(i, S, r) ==
    /\ UpdateAccepts(r)
    /\ S.op # "set" => ~IsRecordNewer(r, S.recs[i])
    /\ S.op = "set" => S.recs[i].promised > 0
    /\ S.max_plog = Entry /\ S.max_cont = 0 =>
        /\ r.promised > 0
        /\ S.mem /\ S.op = "none" => S.recs[i].promised > 0

(* A replica that has stored the chosen record has told its entity.        *)
ChosenKnown(i, S) ==
    S.mem /\ S.op = "none" /\ S.recs[i].chosen => S.max_cont = Entry

(* The record s may follow the record r in the plog.                       *)
Advance(r, s) ==
    /\ r.promised <= s.promised
    /\ r.prepared <= s.prepared
    /\ r.chosen => s = r
    /\ r.accepted <= s.accepted \/ s.chosen

(* Nothing was evicted and nothing has failed.                             *)
Intact(i, S, r) ==
    /\ S.mem /\ S.op = "none" => S.recs[i] = r
    /\ S.op = "set" => Advance(r, S.recs[i])
    /\ S.loaded /\ S.op # "load" /\ ~S.mem /\ S.max_cont = 0 /\ S.max_plog = 0
        => r = EmptyRecord
    /\ S.max_cont = Entry \/ S.committing => r.chosen

Local(i, S, r, f) ==
    /\ MachineInv(i, S.recs) /\ Shape(S) /\ Numbered(i, S) /\ Parked(i, S)
    /\ S.ok /\ Covered(i, S, r)
    /\ f => Intact(i, S, r)

(* What replica i with the record r in its plog may send.                  *)
MaySend(i, m, r) ==
    /\ m.from = i /\ MsgOK(m.to, m)
    /\ m.local.chosen \/ ~IsRecordNewer(r, m.local)

Sent(i, S, r) == \A m \in S.out : MaySend(i, m, r)

(* The state S of replica i, between two calls in a handler.               *)
Holds(i, S, r, f) ==
    S \in Node /\ Local(i, S, r, f) /\ ChosenKnown(i, S) /\ Sent(i, S, r)

(* What no call in a handler of a loaded entity changes.                   *)
Steady(S, T) ==
    /\ T.drain = S.drain /\ T.loaded = S.loaded /\ T.max_plog = S.max_plog
    /\ S.op # "load" => T.op # "load"
    /\ T.client = S.client \/ T.client.kind = "none" \/ T.client.value_id # 0

(* The inductive invariant.                                                *)
NoFault == evictions + plogErrors = 0

DurableInv ==
    /\ \A i \in Acceptors :
        /\ Local(i, node[i], plog[i], NoFault) /\ ChosenKnown(i, node[i])
        /\ Settled(node[i])
        /\ node[i].out = {}
        /\ NoFault /\ i \in db => plog[i].chosen
    /\ \A m \in net : MsgOK(m.to, m)

-----------------------------------------------------------------------------
(* The machine.                                                            *)

LEMMA OneIsNoMajority ==
    ASSUME NEW i
    PROVE  ~IsMajority({i})
<1>1. Cardinality({i}) = 1
  BY FS_Singleton
<1>2. AcceptorNum \div 2 + 1 >= 2
  BY AcceptorNumAssumption
<1> QED
  BY <1>1, <1>2, AcceptorNumAssumption DEF IsMajority

LEMMA MachineFields ==
    ASSUME NEW recs \in Machine, NEW a \in Acceptors
    PROVE  /\ recs[a] \in Record
           /\ recs[a].prepared \in Nat /\ recs[a].promised \in Nat
           /\ recs[a].accepted \in Nat /\ recs[a].value_id \in Nat
           /\ recs[a].chosen \in BOOLEAN /\ recs[a].id_only \in BOOLEAN
BY DEF Machine, Record

LEMMA MarkChosenFacts ==
    ASSUME NEW i \in Acceptors, NEW recs \in Machine
    PROVE  LET q == MarkChosen(i, recs) IN
           /\ q \in Machine
           /\ \A a \in Acceptors : a # i => q[a] = recs[a]
           /\ \/ q = recs
              \/ q[i] = [recs[i] EXCEPT !.chosen = TRUE] /\ recs[i].accepted > 0
           /\ ~q[i].chosen =>
                q = recs /\ ~(recs[i].accepted > 0 /\ IsMajority(AcceptedSame(i, recs)))
<1> DEFINE marked == [recs[i] EXCEPT !.chosen = TRUE]
<1>1. recs[i] \in Record /\ marked \in Record /\ marked.chosen
  BY MachineFields DEF Record
<1>2. MarkChosen(i, recs) = IF recs[i].accepted > 0 /\ IsMajority(AcceptedSame(i, recs))
                            THEN [recs EXCEPT ![i] = marked] ELSE recs
  BY DEF MarkChosen
<1> HIDE DEF marked
<1>3. [recs EXCEPT ![i] = marked] \in Machine /\ [recs EXCEPT ![i] = marked][i] = marked
  BY <1>1 DEF Machine
<1>4. \A a \in Acceptors : a # i => [recs EXCEPT ![i] = marked][a] = recs[a]
  BY DEF Machine
<1> QED
  BY <1>1, <1>2, <1>3, <1>4 DEF marked

LEMMA MarkedInv ==
    ASSUME NEW i \in Acceptors, NEW recs \in Machine, WellFormed(recs),
           ~recs[i].chosen => Follows(i, recs)
    PROVE  MachineInv(i, MarkChosen(i, recs))
<1> DEFINE q == MarkChosen(i, recs)
<1>1. /\ q \in Machine
      /\ \A a \in Acceptors : a # i => q[a] = recs[a]
      /\ \/ q = recs
         \/ q[i] = [recs[i] EXCEPT !.chosen = TRUE] /\ recs[i].accepted > 0
      /\ ~q[i].chosen =>
            q = recs /\ ~(recs[i].accepted > 0 /\ IsMajority(AcceptedSame(i, recs)))
  BY MarkChosenFacts
<1> HIDE DEF q
<1>2. recs[i] \in Record /\ UpdateAccepts(recs[i])
  BY MachineFields DEF WellFormed
<1>3. recs[i].accepted > 0 => UpdateAccepts([recs[i] EXCEPT !.chosen = TRUE])
  BY <1>2 DEF UpdateAccepts, IsValidRecord, Record
<1>4. WellFormed(q)
  BY <1>1, <1>3 DEF WellFormed
<1>5. ~q[i].chosen => ~recs[i].chosen
  BY <1>1
<1> QED
  BY <1>1, <1>4, <1>5 DEF MachineInv, q

LEMMA NewMachineInv ==
    ASSUME NEW i \in Acceptors
    PROVE  MachineInv(i, NewMachine) /\ UpdateAccepts(EmptyRecord)
<1>1. UpdateAccepts(EmptyRecord)
  BY DEF UpdateAccepts, IsValidRecord, EmptyRecord
<1>2. \A a \in Acceptors : NewMachine[a] = EmptyRecord
  BY DEF NewMachine
<1>3. Follows(i, NewMachine)
  BY <1>2 DEF Follows, EmptyRecord
<1>4. ~(NewMachine[i].accepted > 0)
  BY <1>2 DEF EmptyRecord
<1> QED
  BY <1>1, <1>2, <1>3, <1>4 DEF MachineInv, WellFormed

(* A proposal number of the first round is made only by an acceptor that   *)
(* has promised nothing.                                                   *)
LEMMA FirstRound ==
    ASSUME NEW i \in Acceptors, NEW pn \in Nat, NEW pre_auth \in BOOLEAN,
           NextProposal(i, pn, pre_auth) <= AcceptorNum
    PROVE  pn = 0
<1> DEFINE N == AcceptorNum
           q == (pn + N - 1) \div N
           b == q * N + i + 1
<1>1. N \in Nat /\ N > 0 /\ i \in Nat /\ pn + N - 1 \in Nat
  BY AcceptorNumAssumption DEF Acceptors
<1>2. q \in Nat /\ q * N \in Nat /\ q * N >= pn
  BY <1>1
<1>3. NextProposal(i, pn, pre_auth) = IF ~pre_auth /\ b <= N THEN b + N ELSE b
  BY DEF NextProposal
<1> HIDE DEF q
<1>4. b <= N
  BY <1>1, <1>2, <1>3
<1>5. q * N < N
  BY <1>1, <1>2, <1>4
<1>6. q = 0
  <2> SUFFICES ASSUME q >= 1 PROVE FALSE
    BY <1>2
  <2>1. PICK d \in Nat : q = d + 1
    <3>1. q - 1 \in Nat /\ q = (q - 1) + 1
      BY <1>2
    <3> QED
      BY <3>1
  <2>2. q * N = d * N + N /\ d * N \in Nat
    BY <1>1, <2>1
  <2> QED
    BY <1>1, <1>5, <2>2
<1> QED
  BY <1>1, <1>2, <1>6

(* Promise: the machine prepares a proposal above everything it has seen.  *)
LEMMA PromiseFacts ==
    ASSUME NEW i \in Acceptors, NEW recs \in Machine, NEW pre_auth \in BOOLEAN,
           MachineInv(i, recs), ~recs[i].chosen
    PROVE  LET q == Promise(i, recs, pre_auth) IN
           /\ q \in Machine /\ MachineInv(i, q)
           /\ \A a \in Acceptors : a # i => q[a] = recs[a]
           /\ ~q[i].chosen /\ q[i].promised = q[i].prepared
           /\ q[i].promised > recs[i].promised /\ q[i].accepted = recs[i].accepted
           /\ recs[i].prepared < q[i].prepared
           /\ q[i].promised <= AcceptorNum => recs[i].promised = 0
           /\ entry_state(i, q) = "PromiseLocal"
<1> DEFINE b == NextProposal(i, recs[i].promised, pre_auth)
           mine == [recs[i] EXCEPT !.prepared = b, !.promised = b]
           p == [recs EXCEPT ![i] = mine]
           q == Promise(i, recs, pre_auth)
<1>1. /\ recs[i] \in Record /\ recs[i].promised \in Nat /\ recs[i].prepared \in Nat
      /\ recs[i].accepted \in Nat /\ UpdateAccepts(recs[i])
  BY MachineFields DEF MachineInv, WellFormed
<1>2. b \in Nat /\ b > recs[i].promised /\ (b <= AcceptorNum => recs[i].promised = 0)
  BY <1>1, NextProposalFacts, FirstRound
<1>3. q = MarkChosen(i, p)
  BY DEF Promise
<1> HIDE DEF b, q
<1>4. /\ mine \in Record /\ mine.prepared = b /\ mine.promised = b
      /\ mine.accepted = recs[i].accepted /\ ~mine.chosen
  BY <1>1, <1>2 DEF Record
<1>5. UpdateAccepts(mine)
  BY <1>1, <1>2 DEF UpdateAccepts, IsValidRecord, Record
<1> HIDE DEF mine
<1>6. p \in Machine /\ p[i] = mine /\ \A a \in Acceptors : a # i => p[a] = recs[a]
  BY <1>4 DEF Machine
<1> HIDE DEF p
<1>7. \A a \in Acceptors : recs[a].promised <= recs[i].promised
  BY DEF MachineInv, Follows
<1>8. \A a \in Acceptors : recs[a].promised \in Nat /\ recs[a].accepted \in Nat
                           /\ recs[a].accepted <= recs[a].promised
  BY MachineFields DEF MachineInv, WellFormed, UpdateAccepts, IsValidRecord
<1>9. \A a \in Acceptors : a # i => p[a].promised < b /\ p[a].accepted < b
  BY <1>1, <1>2, <1>6, <1>7, <1>8
<1>10. p[i].accepted < b
  BY <1>1, <1>2, <1>4, <1>6, <1>8
<1>11. Follows(i, p)
  <2> SUFFICES ASSUME NEW a \in Acceptors
               PROVE /\ p[a].promised <= p[i].promised
                     /\ p[a].accepted = p[i].promised => p[i].accepted = p[i].promised
    BY DEF Follows
  <2>1. CASE a = i
    BY <1>2, <1>4, <1>6, <2>1
  <2>2. CASE a # i
    BY <1>2, <1>4, <1>6, <1>8, <1>9, <2>2
  <2> QED
    BY <2>1, <2>2
<1>12. WellFormed(p)
  BY <1>5, <1>6 DEF WellFormed, MachineInv
<1>13. MachineInv(i, q)
  BY <1>3, <1>6, <1>11, <1>12, MarkedInv
<1>14. ~(p[i].accepted > 0 /\ IsMajority(AcceptedSame(i, p)))
  <2>1. AcceptedSame(i, p) = AcceptedSame(i, recs)
    BY <1>4, <1>6 DEF AcceptedSame
  <2> QED
    BY <1>4, <1>6, <2>1 DEF MachineInv
<1>15. q = p
  BY <1>3, <1>14 DEF MarkChosen
<1>16. entry_state(i, p) = "PromiseLocal"
  <2>1. PromisedSame(i, p) = {i}
    BY <1>4, <1>6, <1>8, <1>9 DEF PromisedSame
  <2>2. ~IsMajority(PromisedSame(i, p))
    BY <2>1, OneIsNoMajority
  <2>3. /\ ~p[i].chosen /\ p[i].promised <= p[i].prepared /\ p[i].promised # 0
        /\ ~(p[i].promised > p[i].prepared) /\ p[i].accepted # p[i].promised
    BY <1>1, <1>2, <1>4, <1>6, <1>10
  <2> QED
    BY <2>2, <2>3 DEF entry_state
<1>17. recs[i].prepared < p[i].prepared
  BY <1>1, <1>2, <1>4, <1>6 DEF UpdateAccepts, IsValidRecord
<1> QED
  BY <1>2, <1>4, <1>6, <1>13, <1>15, <1>16, <1>17 DEF q

(* Accept: the prepared proposal is accepted, and it alone does not make a *)
(* majority.                                                               *)
LEMMA AcceptFacts ==
    ASSUME NEW i \in Acceptors, NEW recs \in Machine, MachineInv(i, recs),
           NEW value \in Values \cup {NoValue}, NEW value_id \in Nat \ {0},
           ~recs[i].chosen, recs[i].promised = recs[i].prepared,
           recs[i].accepted < recs[i].promised
    PROVE  LET q == Accept(i, recs, value, value_id) IN
           /\ q \in Machine /\ MachineInv(i, q)
           /\ \A a \in Acceptors : a # i => q[a] = recs[a]
           /\ ~q[i].chosen /\ q[i].promised = recs[i].promised
           /\ q[i].prepared = recs[i].prepared /\ q[i].accepted = recs[i].promised
           /\ entry_state(i, q) = "AcceptLocal"
<1> DEFINE own == PreparedValueAccepted(recs)
           from == recs[Selected(recs)]
           val == IF own THEN value ELSE from.value
           id == IF own THEN value_id ELSE from.value_id
           mine == [recs[i] EXCEPT !.accepted = recs[i].promised,
                                   !.value = val, !.value_id = id]
           p == [recs EXCEPT ![i] = mine]
           q == Accept(i, recs, value, value_id)
<1>1. /\ recs[i] \in Record /\ recs[i].promised \in Nat /\ recs[i].accepted \in Nat
      /\ recs[i].prepared \in Nat /\ UpdateAccepts(recs[i])
  BY MachineFields DEF MachineInv, WellFormed
<1>2. val \in Values \cup {NoValue} /\ id \in Nat /\ id # 0
  <2>1. /\ Selected(recs) \in Acceptors /\ MaxAccepted(recs) \in Nat
        /\ from.accepted = MaxAccepted(recs)
    BY SelectedFacts, MaxAcceptedFacts
  <2>2. from \in Record /\ UpdateAccepts(from)
    BY <2>1 DEF MachineInv, WellFormed, Machine
  <2>3. ~own => from.accepted # 0
    BY <2>1 DEF PreparedValueAccepted
  <2>4. ~own => from.value_id # 0
    BY <2>2, <2>3 DEF UpdateAccepts, IsValidRecord
  <2>5. from.value \in Values \cup {NoValue} /\ from.value_id \in Nat
    BY <2>2 DEF Record
  <2> HIDE DEF own, from
  <2> QED
    BY <2>4, <2>5
<1>3. q = MarkChosen(i, p)
  BY DEF Accept
<1> HIDE DEF val, id, q
<1>4. /\ mine \in Record /\ mine.prepared = recs[i].prepared
      /\ mine.promised = recs[i].promised /\ mine.accepted = recs[i].promised
      /\ ~mine.chosen
  BY <1>1, <1>2 DEF Record
<1>5. UpdateAccepts(mine)
  BY <1>1, <1>2 DEF UpdateAccepts, IsValidRecord, Record
<1> HIDE DEF mine
<1>6. p \in Machine /\ p[i] = mine /\ \A a \in Acceptors : a # i => p[a] = recs[a]
  BY <1>4 DEF Machine
<1> HIDE DEF p
<1>7. Follows(i, p)
  <2> SUFFICES ASSUME NEW a \in Acceptors PROVE p[a].promised <= p[i].promised
    BY <1>4, <1>6 DEF Follows
  <2> QED
    BY <1>1, <1>4, <1>6 DEF MachineInv, Follows
<1>8. WellFormed(p)
  BY <1>5, <1>6 DEF WellFormed, MachineInv
<1>9. MachineInv(i, q)
  BY <1>3, <1>6, <1>7, <1>8, MarkedInv
<1>10. AcceptedSame(i, p) = {i}
  <2>1. \A a \in Acceptors : recs[a].accepted # recs[i].promised
    BY <1>1 DEF MachineInv, Follows
  <2> QED
    BY <1>4, <1>6, <2>1 DEF AcceptedSame
<1>11. q = p
  BY <1>3, <1>10, OneIsNoMajority DEF MarkChosen
<1>12. entry_state(i, p) = "AcceptLocal"
  <2>1. /\ ~p[i].chosen /\ p[i].promised <= p[i].prepared /\ p[i].promised # 0
        /\ ~(p[i].promised > p[i].prepared) /\ p[i].accepted = p[i].promised
    BY <1>1, <1>4, <1>6
  <2> QED
    BY <2>1 DEF entry_state
<1> QED
  BY <1>4, <1>6, <1>9, <1>11, <1>12 DEF q

(* FollowPeer: the local record after a record of a peer.                  *)
LEMMA FollowFacts ==
    ASSUME NEW local \in Record, NEW r \in Record, UpdateAccepts(local),
           UpdateAccepts(r), ~local.chosen
    PROVE  LET g == FollowPeer(local, r) IN
           /\ g \in Record /\ UpdateAccepts(g) /\ Advance(local, g)
           /\ g.prepared = local.prepared
           /\ g.promised >= local.promised /\ g.promised >= r.promised
           /\ ~g.chosen => g.accepted >= local.accepted
           /\ ~g.chosen /\ r.accepted = g.promised => g.accepted = g.promised
           /\ ~IsRecordNewer(local, g) => g = local
<1> DEFINE promised == IF local.promised < r.promised THEN r.promised ELSE local.promised
           base == [local EXCEPT !.promised = promised]
           moved == [base EXCEPT !.accepted = r.accepted, !.chosen = r.chosen]
           taken == [moved EXCEPT !.value_id = r.value_id, !.value = r.value]
           g == FollowPeer(local, r)
<1>1. /\ local.promised \in Nat /\ local.prepared \in Nat /\ local.accepted \in Nat
      /\ r.promised \in Nat /\ r.prepared \in Nat /\ r.accepted \in Nat
      /\ local.value_id \in Nat /\ r.value_id \in Nat
  BY DEF Record
<1>2. /\ promised \in Nat /\ promised >= local.promised /\ promised >= r.promised
      /\ promised = local.promised \/ promised > local.promised
  BY <1>1
<1>3. g = IF ~Adopts(local, promised, r) THEN base
          ELSE IF local.value_id = r.value_id THEN moved ELSE taken
  BY DEF FollowPeer
<1>v. /\ local.prepared <= local.promised /\ local.accepted <= local.promised
      /\ r.accepted <= r.promised /\ ~local.id_only /\ ~r.id_only
      /\ (local.accepted = 0) <=> (local.value_id = 0)
      /\ (r.accepted = 0) <=> (r.value_id = 0)
      /\ local.value_id = 0 => local.value = NoValue
      /\ r.value_id = 0 => r.value = NoValue /\ ~r.chosen
  BY DEF UpdateAccepts, IsValidRecord
<1> HIDE DEF promised, g
<1>4. CASE ~Adopts(local, promised, r)
  <2>1. g = base
    BY <1>3, <1>4
  <2>2. /\ base \in Record /\ base.promised = promised /\ base.prepared = local.prepared
        /\ base.accepted = local.accepted /\ base.chosen = local.chosen
        /\ base.value_id = local.value_id /\ base.value = local.value
        /\ base.id_only = local.id_only
    BY <1>2 DEF Record
  <2>3. promised = local.promised => base = local
    BY DEF Record
  <2> HIDE DEF base
  <2>4. UpdateAccepts(base) /\ Advance(local, base)
    BY <1>1, <1>2, <1>v, <2>2 DEF UpdateAccepts, IsValidRecord, Advance
  <2>5. r.accepted = promised => local.accepted = promised
    BY <1>1, <1>2, <1>4, <1>v DEF Adopts
  <2>6. ~IsRecordNewer(local, base) => promised = local.promised
    BY <1>1, <1>2, <2>2 DEF IsRecordNewer
  <2> QED
    BY <1>1, <1>2, <2>1, <2>2, <2>3, <2>4, <2>5, <2>6 DEF g
<1>5. CASE Adopts(local, promised, r)
  <2> DEFINE a == IF local.value_id = r.value_id THEN moved ELSE taken
  <2>1. g = a
    BY <1>3, <1>5
  <2>2. base \in Record
    BY <1>2 DEF Record
  <2>3. moved \in Record
    BY <2>2 DEF Record
  <2>4. /\ a \in Record /\ a.promised = promised /\ a.prepared = local.prepared
        /\ a.accepted = r.accepted /\ a.chosen = r.chosen /\ a.id_only = local.id_only
        /\ a.value_id = r.value_id
        /\ a.value = IF local.value_id = r.value_id THEN local.value ELSE r.value
    BY <1>2, <2>2, <2>3 DEF Record
  <2> HIDE DEF a
  <2>5. UpdateAccepts(a)
    BY <1>1, <1>2, <1>v, <2>4 DEF UpdateAccepts, IsValidRecord
  <2>6. r.chosen \/ local.accepted < r.accepted
    BY <1>5 DEF Adopts
  <2>7. Advance(local, a) /\ IsRecordNewer(local, a)
    BY <1>1, <1>2, <2>4, <2>6 DEF Advance, IsRecordNewer
  <2> QED
    BY <1>1, <1>2, <2>1, <2>4, <2>5, <2>6, <2>7 DEF g
<1> QED
  BY <1>4, <1>5

(* Update with a record of a peer.                                         *)
LEMMA UpdateFacts ==
    ASSUME NEW i \in Acceptors, NEW peer \in Acceptors, peer # i, NEW recs \in Machine,
           MachineInv(i, recs), NEW r \in Record
    PROVE  LET q == Update(i, peer, recs, r) IN
           /\ q \in Machine /\ MachineInv(i, q) /\ Advance(recs[i], q[i])
           /\ q[i].prepared = recs[i].prepared
           /\ ~IsRecordNewer(recs[i], q[i]) => q[i] = recs[i]
<1> DEFINE q == Update(i, peer, recs, r)
           seen == [recs EXCEPT ![peer] = r]
           g == FollowPeer(recs[i], r)
           p == [seen EXCEPT ![i] = g]
<1>1. /\ recs[i] \in Record /\ UpdateAccepts(recs[i]) /\ recs[i].accepted \in Nat
      /\ recs[i].promised \in Nat /\ recs[i].prepared \in Nat /\ recs[i].chosen \in BOOLEAN
  BY MachineFields DEF MachineInv, WellFormed
<1>2. Advance(recs[i], recs[i])
  BY <1>1 DEF Advance
<1>3. CASE ~UpdateAccepts(r) \/ ~IsRecordNewer(recs[peer], r)
  <2>1. q = recs
    BY <1>3 DEF Update
  <2> QED
    BY <1>2, <2>1
<1>4. CASE UpdateAccepts(r) /\ IsRecordNewer(recs[peer], r) /\ recs[i].chosen
  <2>1. q = seen
    BY <1>4 DEF Update
  <2>2. /\ seen \in Machine /\ seen[i] = recs[i] /\ seen[peer] = r
        /\ \A a \in Acceptors : a # peer => seen[a] = recs[a]
    BY DEF Machine
  <2>3. MachineInv(i, seen)
    BY <1>4, <2>2 DEF MachineInv, WellFormed
  <2> QED
    BY <1>2, <2>1, <2>2, <2>3
<1>5. CASE UpdateAccepts(r) /\ IsRecordNewer(recs[peer], r) /\ ~recs[i].chosen
  <2>1. /\ g \in Record /\ UpdateAccepts(g) /\ Advance(recs[i], g)
        /\ g.prepared = recs[i].prepared
        /\ g.promised >= recs[i].promised /\ g.promised >= r.promised
        /\ ~g.chosen => g.accepted >= recs[i].accepted
        /\ ~g.chosen /\ r.accepted = g.promised => g.accepted = g.promised
        /\ ~IsRecordNewer(recs[i], g) => g = recs[i]
    BY <1>1, <1>5, FollowFacts
  <2>2. q = MarkChosen(i, p)
    <3>1. seen[i] = recs[i]
      BY DEF Machine
    <3> QED
      BY <1>5, <3>1 DEF Update
  <2> HIDE DEF g, q
  <2>3. /\ p \in Machine /\ p[i] = g /\ p[peer] = r
        /\ \A a \in Acceptors : a # peer /\ a # i => p[a] = recs[a]
    BY <2>1 DEF Machine
  <2> HIDE DEF p
  <2>4. WellFormed(p)
    BY <1>5, <2>1, <2>3 DEF MachineInv, WellFormed
  <2>5. ~g.chosen => Follows(i, p)
    <3> SUFFICES ASSUME ~g.chosen, NEW a \in Acceptors
                 PROVE /\ p[a].promised <= g.promised
                       /\ p[a].accepted = g.promised => g.accepted = g.promised
      BY <2>3 DEF Follows
    <3>1. g.promised \in Nat /\ g.accepted \in Nat /\ g.accepted <= g.promised
      BY <2>1 DEF Record, UpdateAccepts, IsValidRecord
    <3>2. CASE a = peer
      BY <2>1, <2>3, <3>2
    <3>3. CASE a = i
      BY <2>3, <3>1, <3>3
    <3>4. CASE a # peer /\ a # i
      <4>1. /\ recs[a].promised \in Nat /\ recs[a].accepted \in Nat
            /\ recs[a].accepted <= recs[a].promised
            /\ recs[a].promised <= recs[i].promised
            /\ recs[a].accepted = recs[i].promised => recs[i].accepted = recs[i].promised
        BY <1>5, MachineFields
        DEF MachineInv, Follows, WellFormed, UpdateAccepts, IsValidRecord
      <4> QED
        BY <1>1, <2>1, <2>3, <3>1, <3>4, <4>1
    <3> QED
      BY <3>2, <3>3, <3>4
  <2>6. MachineInv(i, q)
    BY <2>2, <2>3, <2>4, <2>5, MarkedInv
  <2>7. /\ q \in Machine
        /\ q = p \/ (q[i] = [p[i] EXCEPT !.chosen = TRUE] /\ p[i].accepted > 0)
    BY <2>2, <2>3, MarkChosenFacts
  <2>8. CASE q = p
    BY <2>1, <2>3, <2>6, <2>7, <2>8 DEF q
  <2>9. CASE q[i] = [g EXCEPT !.chosen = TRUE]
    <3>1. /\ q[i].chosen /\ q[i].promised = g.promised /\ q[i].prepared = g.prepared
      BY <2>1, <2>9 DEF Record
    <3>2. Advance(recs[i], q[i]) /\ IsRecordNewer(recs[i], q[i])
      BY <1>1, <1>5, <2>1, <3>1 DEF Advance, IsRecordNewer
    <3> QED
      BY <2>1, <2>6, <2>7, <3>1, <3>2 DEF q
  <2> QED
    BY <2>3, <2>7, <2>8, <2>9
<1> QED
  BY <1>1, <1>3, <1>4, <1>5

(* Update of a new machine with the record of the plog.                    *)
LEMMA LoadFacts ==
    ASSUME NEW i \in Acceptors, NEW r \in Record, UpdateAccepts(r)
    PROVE  LET q == Update(i, i, NewMachine, r) IN
           q \in Machine /\ MachineInv(i, q) /\ q[i] = r
<1> DEFINE q == Update(i, i, NewMachine, r)
           p == [NewMachine EXCEPT ![i] = r]
<1>1. NewMachine \in Machine /\ \A a \in Acceptors : NewMachine[a] = EmptyRecord
  BY EmptyRecordType DEF NewMachine
<1>2. /\ r.promised \in Nat /\ r.prepared \in Nat /\ r.accepted \in Nat
      /\ r.prepared <= r.promised /\ r.accepted <= r.promised
  BY DEF Record, UpdateAccepts, IsValidRecord
<1>3. CASE ~IsRecordNewer(EmptyRecord, r)
  <2>1. q = NewMachine
    BY <1>1, <1>3 DEF Update
  <2>2. ~r.chosen /\ r.prepared = 0 /\ r.promised = 0 /\ r.accepted = 0
    BY <1>2, <1>3 DEF IsRecordNewer, EmptyRecord
  <2>3. r.value_id = 0 /\ r.value = NoValue /\ ~r.id_only
    BY <2>2 DEF UpdateAccepts, IsValidRecord
  <2>4. r = EmptyRecord
    BY <2>2, <2>3 DEF Record, EmptyRecord
  <2> QED
    BY <1>1, <2>1, <2>4, NewMachineInv
<1>4. CASE IsRecordNewer(EmptyRecord, r)
  <2>1. q = MarkChosen(i, p)
    BY <1>1, <1>4 DEF Update
  <2>2. p \in Machine /\ p[i] = r /\ \A a \in Acceptors : a # i => p[a] = EmptyRecord
    BY <1>1 DEF Machine
  <2> HIDE DEF p, q
  <2>3. WellFormed(p)
    BY <2>2, NewMachineInv DEF WellFormed
  <2>4. Follows(i, p)
    BY <1>2, <2>2 DEF Follows, EmptyRecord
  <2>5. MachineInv(i, q)
    BY <2>1, <2>2, <2>3, <2>4, MarkedInv
  <2>6. r.accepted > 0 => AcceptedSame(i, p) = {i}
    BY <1>2, <2>2 DEF AcceptedSame, EmptyRecord
  <2>7. q = p
    BY <2>1, <2>2, <2>6, OneIsNoMajority DEF MarkChosen
  <2> QED
    BY <2>2, <2>5, <2>7 DEF q
<1> QED
  BY <1>3, <1>4

-----------------------------------------------------------------------------
(* The calls of a handler, one by one.                                     *)

LEMMA EntryNumbers == Entry = 1 /\ 0 .. Entry = {0, 1} /\ NoPeer = -1
BY DEF Entry, NoPeer

(* Local is about these fields only.                                       *)
LEMMA LocalFrame ==
    ASSUME NEW i, NEW S, NEW T, NEW r, NEW f, Local(i, S, r, f),
           T.loaded = S.loaded, T.op = S.op, T.max_chosen = S.max_chosen,
           T.max_cont = S.max_cont, T.max_plog = S.max_plog,
           T.active_peer = S.active_peer, T.waiting_msg = S.waiting_msg,
           T.mem = S.mem, T.old = S.old, T.recs = S.recs, T.broadcast = S.broadcast,
           T.peer_to_sync = S.peer_to_sync, T.waiting_msgs = S.waiting_msgs,
           T.drain = S.drain, T.committing = S.committing, T.ok = S.ok,
           T.client = S.client \/ T.client.kind = "none" \/ T.client.value_id # 0
    PROVE  Local(i, T, r, f) /\ (ChosenKnown(i, S) => ChosenKnown(i, T))
<1>1. Shape(T) /\ Parked(i, T) /\ Covered(i, T, r) /\ (f => Intact(i, T, r))
  BY DEF Local, Shape, Parked, Covered, Intact
<1>2. Numbered(i, T) /\ (ChosenKnown(i, S) => ChosenKnown(i, T))
  BY DEF Local, Numbered, ChosenKnown
<1> QED
  BY <1>1, <1>2 DEF Local

LEMMA SteadyTrans ==
    ASSUME NEW S, NEW T, NEW U, Steady(S, T), Steady(T, U)
    PROVE  Steady(S, U)
BY DEF Steady

LEMMA FinishHolds ==
    ASSUME NEW i, NEW S, NEW r, NEW f, Holds(i, S, r, f)
    PROVE  /\ Holds(i, FinishErr(S), r, f) /\ Steady(S, FinishErr(S))
           /\ Holds(i, FinishOk(S), r, f) /\ Steady(S, FinishOk(S))
           /\ FinishErr(S).client.kind = "none"
<1> DEFINE E == FinishErr(S)
           O == FinishOk(S)
<1>1. S \in Node /\ E \in Node /\ O \in Node
  BY FinishType DEF Holds, GoodNode
<1>2. /\ E.client.kind = "none" /\ O.client.kind = "none"
      /\ E.out = S.out /\ O.out = S.out
  BY <1>1 DEF FinishErr, FinishOk, NoCmd, Node
<1>3. Local(i, E, r, f) /\ ChosenKnown(i, E)
  <2>1. E = [S EXCEPT !.client = NoCmd]
    BY DEF FinishErr
  <2> QED
    BY <1>1, <1>2, <2>1, LocalFrame DEF Holds, Node
<1>4. Local(i, O, r, f) /\ ChosenKnown(i, O)
  <2>1. O = [S EXCEPT !.done = S.client, !.client = NoCmd]
    BY DEF FinishOk
  <2> QED
    BY <1>1, <1>2, <2>1, LocalFrame DEF Holds, Node
<1>5. Steady(S, E) /\ Steady(S, O)
  BY <1>1, <1>2 DEF Steady, FinishErr, FinishOk, Node
<1> QED
  BY <1>1, <1>2, <1>3, <1>4, <1>5 DEF Holds, Sent

(* A check that holds changes nothing.                                     *)
LEMMA CheckTrue ==
    ASSUME NEW S \in Node, S.ok, NEW b \in BOOLEAN, b
    PROVE  Check(S, b) = S
BY DEF Check, Node

(* A handler that only sends.                                              *)
LEMMA SendHolds ==
    ASSUME NEW i, NEW S, NEW r, NEW f, Holds(i, S, r, f), NEW M \in SUBSET PaxosCmd,
           \A m \in M : MaySend(i, m, r)
    PROVE  LET T == [S EXCEPT !.out = S.out \cup M] IN Holds(i, T, r, f) /\ Steady(S, T)
<1> DEFINE T == [S EXCEPT !.out = S.out \cup M]
<1>1. S \in Node /\ T \in Node /\ T.out = S.out \cup M
  BY DEF Holds, Node
<1>2. Local(i, T, r, f) /\ ChosenKnown(i, T)
  BY <1>1, LocalFrame DEF Holds, Node
<1>3. Sent(i, T, r)
  BY <1>1 DEF Holds, Sent
<1>4. Steady(S, T)
  BY <1>1 DEF Steady, Node
<1> QED
  BY <1>1, <1>2, <1>3, <1>4 DEF Holds

LEMMA RemoveValueFacts ==
    ASSUME NEW m \in PaxosCmd
    PROVE  LET x == RemoveValueInRecord(m) IN
           /\ x.from = m.from /\ x.to = m.to /\ x.check_empty = m.check_empty
           /\ x.local.chosen = m.local.chosen
           /\ x.local.prepared = m.local.prepared
           /\ x.local.promised = m.local.promised
           /\ x.local.accepted = m.local.accepted
           /\ m.peer.value_id = 0 => x = m
<1> DEFINE bare(r) == [r EXCEPT !.value = NoValue, !.id_only = TRUE]
           local == IF m.local.value_id = m.peer.value_id THEN bare(m.local) ELSE m.local
           peer == bare(m.peer)
           x == RemoveValueInRecord(m)
<1>1. m.local \in Record /\ m.peer \in Record
  BY DEF PaxosCmd
<1>2. /\ local \in Record /\ local.chosen = m.local.chosen
      /\ local.prepared = m.local.prepared /\ local.promised = m.local.promised
      /\ local.accepted = m.local.accepted
  BY <1>1 DEF Record
<1>3. x = IF m.peer.value_id = 0 THEN m ELSE [m EXCEPT !.local = local, !.peer = peer]
  BY DEF RemoveValueInRecord
<1> HIDE DEF local, peer, x
<1> QED
  BY <1>2, <1>3 DEF PaxosCmd, x

(* A message that goes through MsgWorker without the value that the        *)
(* receiver has may still be sent.                                         *)
LEMMA MaySendBare ==
    ASSUME NEW i \in Acceptors, NEW m \in PaxosCmd, NEW r, MaySend(i, m, r)
    PROVE  MaySend(i, RemoveValueInRecord(m), r)
<1> DEFINE x == RemoveValueInRecord(m)
<1>1. /\ x.from = m.from /\ x.to = m.to /\ x.check_empty = m.check_empty
      /\ x.local.chosen = m.local.chosen
      /\ x.local.prepared = m.local.prepared /\ x.local.promised = m.local.promised
      /\ x.local.accepted = m.local.accepted
      /\ m.peer.value_id = 0 => x = m
  BY RemoveValueFacts
<1> HIDE DEF x
<1>2. m.check_empty => x = m
  BY <1>1 DEF MaySend, MsgOK, EmptyRecord
<1>3. m.local.chosen \/ ~IsRecordNewer(r, m.local) =>
          x.local.chosen \/ ~IsRecordNewer(r, x.local)
  BY <1>1 DEF IsRecordNewer
<1> QED
  BY <1>1, <1>2, <1>3 DEF MaySend, MsgOK, x

LEMMA SyncHolds ==
    ASSUME NEW i \in Acceptors, NEW S, NEW r, NEW f, Holds(i, S, r, f),
           S.op = "none", NEW P \in SUBSET Peers(i)
    PROVE  LET T == SyncToPeers(i, S, P) IN Holds(i, T, r, f) /\ Steady(S, T)
<1> DEFINE M == {RemoveValueInRecord(SyncMsg(i, S, p)) : p \in P}
<1>1. S \in Node /\ ~IsRecordNewer(r, S.recs[i])
  BY DEF Holds, Local, Covered
<1>2. ASSUME NEW p \in P
      PROVE  /\ RemoveValueInRecord(SyncMsg(i, S, p)) \in PaxosCmd
             /\ MaySend(i, RemoveValueInRecord(SyncMsg(i, S, p)), r)
  <2>1. p \in Acceptors /\ p # i
    BY DEF Peers
  <2>2. SyncMsg(i, S, p) \in PaxosCmd
    BY <1>1, <2>1, SyncMsgType
  <2>3. MaySend(i, SyncMsg(i, S, p), r)
    BY <1>1, <2>1 DEF SyncMsg, MaySend, MsgOK
  <2> QED
    BY <2>2, <2>3, MaySendBare, RemoveValueType
<1>3. M \in SUBSET PaxosCmd /\ \A m \in M : MaySend(i, m, r)
  BY <1>2
<1>4. SyncToPeers(i, S, P) = [S EXCEPT !.out = S.out \cup M]
  BY DEF SyncToPeers
<1> HIDE DEF M
<1> QED
  BY <1>3, <1>4, SendHolds

LEMMA SendOneHolds ==
    ASSUME NEW i \in Acceptors, NEW S, NEW r, NEW f, Holds(i, S, r, f),
           NEW m \in PaxosCmd, MaySend(i, m, r)
    PROVE  Holds(i, Send(S, m), r, f) /\ Steady(S, Send(S, m))
<1> DEFINE M == {RemoveValueInRecord(m)}
<1>1. M \in SUBSET PaxosCmd /\ \A x \in M : MaySend(i, x, r)
  BY RemoveValueType, MaySendBare
<1>2. Send(S, m) = [S EXCEPT !.out = S.out \cup M]
  BY DEF Send
<1> HIDE DEF M
<1> QED
  BY <1>1, <1>2, SendHolds

LEMMA EmptyNotNewer ==
    ASSUME NEW r \in Record
    PROVE  ~IsRecordNewer(r, EmptyRecord)
BY DEF IsRecordNewer, EmptyRecord, Record

LEMMA CheckEmptyHolds ==
    ASSUME NEW i \in Acceptors, NEW S, NEW r \in Record, NEW f, Holds(i, S, r, f)
    PROVE  LET T == BroadcastCheckEmpty(i, S) IN Holds(i, T, r, f) /\ Steady(S, T)
<1> DEFINE msg(p) == [SyncMsg(i, S, p) EXCEPT
                         !.local = EmptyRecord, !.peer = EmptyRecord,
                         !.check_empty = TRUE, !.uuid = S.client.uuid]
           M == {msg(p) : p \in Peers(i)}
<1>1. S \in Node /\ S.client.uuid \in Nat
  BY NodeFields DEF Holds, ClientCmd
<1>2. ASSUME NEW p \in Peers(i) PROVE msg(p) \in PaxosCmd /\ MaySend(i, msg(p), r)
  <2>1. SyncMsg(i, S, p) \in PaxosCmd /\ p # i
    BY <1>1, SyncMsgType DEF Peers
  <2>2. msg(p) \in PaxosCmd
    BY <1>1, <2>1, EmptyRecordType DEF PaxosCmd
  <2>3. SyncMsg(i, S, p).from = i /\ SyncMsg(i, S, p).to = p
    BY DEF SyncMsg
  <2>4. msg(p).from = i /\ msg(p).to = p /\ msg(p).local = EmptyRecord
        /\ msg(p).peer = EmptyRecord
    BY <2>1, <2>3 DEF PaxosCmd
  <2> QED
    BY <2>1, <2>2, <2>4, EmptyNotNewer DEF MaySend, MsgOK
<1>3. M \in SUBSET PaxosCmd /\ \A m \in M : MaySend(i, m, r)
  BY <1>2
<1>4. BroadcastCheckEmpty(i, S) = [S EXCEPT !.out = S.out \cup M]
  BY DEF BroadcastCheckEmpty
<1> HIDE DEF M
<1> QED
  BY <1>3, <1>4, SendHolds

LEMMA SendBackFacts ==
    ASSUME NEW m \in PaxosCmd
    PROVE  LET x == SendBack(m) IN
           /\ x \in PaxosCmd /\ x.from = m.to /\ x.to = m.from
           /\ x.local = m.peer /\ x.peer = m.local /\ x.check_empty = m.check_empty
BY DEF SendBack, PaxosCmd

LEMMA LocalChosenHolds ==
    ASSUME NEW i \in Acceptors, NEW S, NEW r \in Record, NEW f, Holds(i, S, r, f),
           NEW m \in PaxosCmd, MsgOK(i, m)
    PROVE  LET T == HandleIfLocalChosen(i, S, m, r) IN Holds(i, T, r, f) /\ Steady(S, T)
<1> DEFINE mine == IF S.mem THEN S.recs[i] ELSE r
           chosen == [mine EXCEPT !.chosen = TRUE]
           answer == [SendBack(m) EXCEPT !.local = chosen]
<1>1. S \in Node /\ mine \in Record /\ ~mine.id_only
  BY NodeFields DEF Holds, Local, Covered, MachineInv, WellFormed, UpdateAccepts
<1> HIDE DEF mine
<1>2. chosen \in Record /\ chosen.chosen /\ ~chosen.id_only
  BY <1>1 DEF Record
<1> HIDE DEF chosen
<1>3. /\ SendBack(m) \in PaxosCmd /\ SendBack(m).from = i /\ SendBack(m).to # i
      /\ SendBack(m).peer = m.local /\ SendBack(m).check_empty = m.check_empty
  BY SendBackFacts DEF MsgOK
<1>4. /\ answer \in PaxosCmd /\ answer.from = i /\ answer.to # i
      /\ answer.local = chosen /\ answer.peer = m.local
      /\ answer.check_empty = m.check_empty
  BY <1>2, <1>3 DEF PaxosCmd
<1>5. HandleIfLocalChosen(i, S, m, r) = IF m.local.chosen THEN S ELSE Send(S, answer)
  BY DEF HandleIfLocalChosen, answer, chosen, mine
<1> HIDE DEF answer
<1>6. CASE m.local.chosen
  BY <1>5, <1>6 DEF Steady
<1>7. CASE ~m.local.chosen
  <2>1. MaySend(i, answer, r)
    BY <1>2, <1>4, <1>7 DEF MaySend, MsgOK
  <2> QED
    BY <1>4, <1>5, <1>7, <2>1, SendOneHolds
<1> QED
  BY <1>6, <1>7

LEMMA FastFailHolds ==
    ASSUME NEW i \in Acceptors, NEW S, NEW r \in Record, NEW f, Holds(i, S, r, f),
           NEW m \in PaxosCmd, MsgOK(i, m), m.check_empty
    PROVE  LET T == FastFail(S, m) IN Holds(i, T, r, f) /\ Steady(S, T)
<1> DEFINE answer == [SendBack(m) EXCEPT !.max_chosen = S.max_chosen,
                                         !.fast_failed = TRUE, !.check_empty = FALSE]
<1>1. S \in Node /\ S.max_chosen \in 0 .. Entry
  BY NodeFields DEF Holds
<1>2. /\ SendBack(m) \in PaxosCmd /\ SendBack(m).from = i /\ SendBack(m).to # i
      /\ SendBack(m).local = EmptyRecord
  BY SendBackFacts DEF MsgOK
<1>3. /\ answer \in PaxosCmd /\ answer.from = i /\ answer.to # i
      /\ answer.local = EmptyRecord /\ ~answer.check_empty
  BY <1>1, <1>2 DEF PaxosCmd
<1>4. MaySend(i, answer, r)
  BY <1>3, EmptyNotNewer DEF MaySend, MsgOK
<1>5. FastFail(S, m) = Send(S, answer)
  BY DEF FastFail
<1> HIDE DEF answer
<1> QED
  BY <1>3, <1>4, <1>5, SendOneHolds

LEMMA LearnHolds ==
    ASSUME NEW i \in Acceptors, NEW S, NEW r, NEW f, Holds(i, S, r, f),
           S.loaded, S.op # "load", NEW m \in PaxosCmd, MsgOK(i, m)
    PROVE  LET T == LearnMaxChosen(S, m) IN
           Holds(i, T, r, f) /\ Steady(S, T) /\ T.mem = S.mem /\ T.op = S.op
<1> DEFINE T == [S EXCEPT !.max_chosen = m.max_chosen, !.active_peer = m.from]
<1>1. S \in Node /\ m.from \in Acceptors /\ m.max_chosen \in 0 .. Entry /\ m.from # i
  BY DEF Holds, PaxosCmd, MsgOK
<1>2. T \in Node
  BY <1>1 DEF Node
<1>3. LearnMaxChosen(S, m) = IF S.max_chosen < m.max_chosen THEN T ELSE S
  BY DEF LearnMaxChosen
<1>4. CASE S.max_chosen < m.max_chosen
  <2>1. /\ T.loaded = S.loaded /\ T.op = S.op /\ T.max_cont = S.max_cont
        /\ T.max_plog = S.max_plog /\ T.waiting_msg = S.waiting_msg
        /\ T.mem = S.mem /\ T.old = S.old /\ T.recs = S.recs
        /\ T.broadcast = S.broadcast /\ T.peer_to_sync = S.peer_to_sync
        /\ T.waiting_msgs = S.waiting_msgs /\ T.drain = S.drain
        /\ T.committing = S.committing /\ T.ok = S.ok /\ T.client = S.client
        /\ T.out = S.out /\ T.active_peer = m.from /\ T.max_chosen = m.max_chosen
    BY <1>1 DEF Node
  <2>2. T.max_chosen = Entry
    BY <1>1, <1>4, <2>1, EntryNumbers DEF Node
  <2> HIDE DEF T
  <2>3. Shape(T)
    BY <2>1, <2>2 DEF Holds, Local, Shape
  <2>4. Parked(i, T) /\ Numbered(i, T) /\ Covered(i, T, r) /\ (f => Intact(i, T, r))
    BY <1>1, <2>1 DEF Holds, Local, Parked, Numbered, Covered, Intact
  <2> QED
    BY <1>2, <1>3, <1>4, <2>1, <2>3, <2>4 DEF Holds, Local, Sent, Steady, ChosenKnown
<1>5. CASE ~(S.max_chosen < m.max_chosen)
  BY <1>3, <1>5 DEF Steady
<1> QED
  BY <1>4, <1>5

LEMMA CountEmptyHolds ==
    ASSUME NEW i \in Acceptors, NEW S, NEW r, NEW f, Holds(i, S, r, f), NEW m \in PaxosCmd
    PROVE  LET T == CountEmpty(i, S, m) IN Holds(i, T, r, f) /\ Steady(S, T)
<1> DEFINE T == [S EXCEPT !.empty_flags = S.empty_flags \cup {m.from}]
<1>1. S \in Node /\ m.from \in Acceptors
  BY DEF Holds, PaxosCmd
<1>2. T \in Node /\ T.out = S.out
  BY <1>1 DEF Node
<1>3. Local(i, T, r, f) /\ ChosenKnown(i, T)
  BY <1>1, LocalFrame DEF Holds, Node
<1>4. Holds(i, T, r, f) /\ Steady(S, T)
  BY <1>1, <1>2, <1>3 DEF Holds, Sent, Steady, Node
<1>5. CountEmpty(i, S, m) =
          IF ~AnswersMyRead(S, m) THEN S
          ELSE IF ~IsLocalEmpty(i, S.recs) THEN FinishErr(S)
          ELSE IF 2 * Cardinality(T.empty_flags) > AcceptorNum THEN FinishOk(T) ELSE T
  BY DEF CountEmpty
<1> HIDE DEF T
<1>6. Holds(i, FinishErr(S), r, f) /\ Steady(S, FinishErr(S))
  BY FinishHolds
<1>7. Holds(i, FinishOk(T), r, f) /\ Steady(T, FinishOk(T))
  BY <1>4, FinishHolds
<1>8. Steady(S, S) /\ Steady(S, FinishOk(T))
  BY <1>4, <1>7, SteadyTrans DEF Steady
<1> QED
  BY <1>4, <1>5, <1>6, <1>7, <1>8

LEMMA StateChosen ==
    ASSUME NEW i \in Acceptors, NEW recs \in Machine
    PROVE  entry_state(i, recs) = "Chosen" <=> recs[i].chosen
<1>1. recs[i].chosen \in BOOLEAN /\ recs[i].promised \in Nat /\ recs[i].prepared \in Nat
  BY MachineFields
<1> QED
  BY <1>1 DEF entry_state

LEMMA CreateHolds ==
    ASSUME NEW i \in Acceptors, NEW S, NEW r \in Record, NEW f, Holds(i, S, r, f),
           S.loaded, S.op # "load", S.max_cont = 0, NEW pushed \in BOOLEAN
    PROVE  LET T == CreateEntryInfoIfMiss(S, pushed) IN
           /\ Holds(i, T, r, f) /\ Steady(S, T)
           /\ T.max_cont = 0 /\ T.max_chosen = S.max_chosen /\ T.client = S.client
<1> DEFINE T == CreateEntryInfoIfMiss(S, pushed)
           op == IF S.max_plog < Entry THEN S.op ELSE "get"
           N == [S EXCEPT !.mem = TRUE, !.op = op]
<1>1. S \in Node /\ S.max_plog \in {0, 1} /\ S.recs \in Machine
  BY EntryNumbers DEF Holds, Node
<1>2. CASE S.mem \/ (S.max_plog >= Entry /\ ~pushed)
  <2>1. T = S
    BY <1>2 DEF CreateEntryInfoIfMiss
  <2>2. Steady(S, S)
    BY DEF Steady
  <2> HIDE DEF T
  <2> QED
    BY <2>1, <2>2 DEF T
<1>3. CASE ~(S.mem \/ (S.max_plog >= Entry /\ ~pushed))
  <2>1. T = N
    BY <1>3 DEF CreateEntryInfoIfMiss
  <2>2. T \in Node
    BY <1>1, CreateType DEF GoodNode
  <2>3. ~S.mem /\ ~S.old /\ S.recs = NewMachine
    BY <1>1, <1>3 DEF Holds, Local, Shape, Node
  <2>4. S.op = "none"
    BY <1>1, <2>3 DEF Holds, Local, Shape, Node
  <2>o. op = IF S.max_plog = 0 THEN "none" ELSE "get"
    BY <1>1, <2>4, EntryNumbers
  <2> HIDE DEF op
  <2>5. /\ N.loaded = S.loaded /\ N.max_chosen = S.max_chosen /\ N.max_cont = S.max_cont
        /\ N.max_plog = S.max_plog /\ N.active_peer = S.active_peer
        /\ N.waiting_msg = S.waiting_msg /\ N.old = S.old /\ N.recs = S.recs
        /\ N.broadcast = S.broadcast /\ N.peer_to_sync = S.peer_to_sync
        /\ N.waiting_msgs = S.waiting_msgs /\ N.drain = S.drain
        /\ N.committing = S.committing /\ N.ok = S.ok /\ N.client = S.client
        /\ N.out = S.out /\ N.mem
        /\ N.op = IF S.max_plog = 0 THEN "none" ELSE "get"
    BY <1>1, <2>o DEF Node
  <2> HIDE DEF N
  <2>6. S.recs[i] = EmptyRecord /\ ~IsRecordNewer(r, EmptyRecord)
    BY <2>3, EmptyNotNewer DEF NewMachine
  <2>7. Shape(N)
    BY <1>1, <2>3, <2>4, <2>5, EntryNumbers DEF Holds, Local, Shape
  <2>8. Parked(i, N) /\ Numbered(i, N)
    BY <2>5 DEF Holds, Local, Parked, Numbered
  <2>9. Covered(i, N, r) /\ ChosenKnown(i, N)
    <3>1. ~S.recs[i].chosen
      BY <2>6 DEF EmptyRecord
    <3> QED
      BY <1>1, <2>4, <2>5, <2>6, <3>1, EntryNumbers
      DEF Holds, Local, Covered, ChosenKnown
  <2>10. f => Intact(i, N, r)
    BY <1>1, <2>3, <2>4, <2>5, <2>6, EntryNumbers DEF Holds, Local, Intact
  <2>11. Steady(S, N)
    BY <2>5 DEF Steady
  <2> QED
    BY <2>1, <2>2, <2>5, <2>7, <2>8, <2>9, <2>10, <2>11 DEF Holds, Local, Sent
<1> QED
  BY <1>2, <1>3

LEMMA UpdateByChosenHolds ==
    ASSUME NEW i \in Acceptors, NEW S \in Node, NEW r, NEW f, Local(i, S, r, f),
           Sent(i, S, r), S.op = "none", S.mem
    PROVE  LET T == UpdateByChosenEntry(i, S) IN
           /\ Holds(i, T, r, f) /\ Steady(S, T) /\ T.op = "none" /\ T.mem
           /\ T.broadcast = S.broadcast /\ T.peer_to_sync = S.peer_to_sync
<1> DEFINE T == UpdateByChosenEntry(i, S)
           next == S.max_cont + 1 = Entry
           auth == IF HasAcceptedMyProposal(i, S.recs, i) THEN Entry ELSE S.pre_auth
           old == S.old \/ next
           committing == S.committing \/ next
           N == [S EXCEPT !.max_chosen = Entry, !.pre_auth = auth, !.max_cont = Entry,
                          !.old = old, !.committing = committing]
<1>1. T \in Node /\ S.recs \in Machine
  BY UpdateByChosenType, NodeFields DEF GoodNode
<1>2. CASE ~S.recs[i].chosen
  <2>1. T = S
    BY <1>1, <1>2, StateChosen DEF UpdateByChosenEntry, state
  <2> QED
    BY <1>2, <2>1 DEF Holds, Steady, ChosenKnown
<1>3. CASE S.recs[i].chosen
  <2>1. T = N
    BY <1>1, <1>3, StateChosen DEF UpdateByChosenEntry, state
  <2> HIDE DEF auth, old, committing, T
  <2>2. /\ N.loaded = S.loaded /\ N.op = S.op /\ N.max_chosen = Entry
        /\ N.max_cont = Entry /\ N.max_plog = S.max_plog
        /\ N.active_peer = S.active_peer /\ N.waiting_msg = S.waiting_msg
        /\ N.mem = S.mem /\ N.recs = S.recs /\ N.broadcast = S.broadcast
        /\ N.peer_to_sync = S.peer_to_sync /\ N.waiting_msgs = S.waiting_msgs
        /\ N.drain = S.drain /\ N.ok = S.ok /\ N.client = S.client /\ N.out = S.out
    BY DEF Node
  <2> HIDE DEF N
  <2>3. S.loaded
    BY DEF Local, Shape
  <2>4. Shape(N)
    BY <2>2, <2>3, EntryNumbers DEF Local, Shape
  <2>5. Parked(i, N) /\ Numbered(i, N)
    BY <2>2 DEF Local, Parked, Numbered
  <2>6. Covered(i, N, r) /\ ChosenKnown(i, N)
    BY <2>2, EntryNumbers DEF Local, Covered, ChosenKnown
  <2>7. f => Intact(i, N, r)
    <3>1. f => S.recs[i] = r
      BY DEF Local, Intact
    <3> QED
      BY <1>3, <2>2, <3>1, EntryNumbers DEF Intact
  <2> QED
    BY <1>1, <2>1, <2>2, <2>4, <2>5, <2>6, <2>7 DEF Holds, Local, Sent, Steady, T
<1> QED
  BY <1>2, <1>3

(* An EntryInfo leaves the memory: the chosen one, or after a fault.       *)
LEMMA DestroyHolds ==
    ASSUME NEW i \in Acceptors, NEW S \in Node, NEW r \in Record, NEW f \in BOOLEAN,
           S.loaded, S.op = "none", S.ok,
           S.max_cont = Entry => S.max_chosen = Entry,
           S.active_peer # i, \A m \in S.waiting_msg : MsgOK(i, m),
           UpdateAccepts(r), S.max_plog = Entry /\ S.max_cont = 0 => r.promised > 0,
           f => S.max_cont = Entry /\ r.chosen, Sent(i, S, r)
    PROVE  LET T == DestroyEntryInfo(S) IN Holds(i, T, r, f) /\ Steady(S, T)
<1> DEFINE T == DestroyEntryInfo(S)
<1>1. T \in Node
  BY DestroyType DEF GoodNode
<1>2. /\ T.loaded = S.loaded /\ T.op = S.op /\ T.max_chosen = S.max_chosen
      /\ T.max_cont = S.max_cont /\ T.max_plog = S.max_plog
      /\ T.active_peer = S.active_peer /\ T.waiting_msg = S.waiting_msg
      /\ T.drain = S.drain /\ T.committing = S.committing /\ T.ok = S.ok
      /\ T.client = S.client /\ T.out = S.out
      /\ ~T.mem /\ ~T.old /\ T.recs = NewMachine /\ ~T.broadcast
      /\ T.peer_to_sync = NoPeer /\ T.waiting_msgs = NoWaiting
  BY DEF DestroyEntryInfo, Node
<1> HIDE DEF T
<1>3. /\ NewMachine[i] = EmptyRecord /\ ~IsRecordNewer(r, EmptyRecord)
      /\ EmptyRecord.prepared = 0
  BY EmptyNotNewer DEF NewMachine, EmptyRecord
<1>4. MachineInv(i, NewMachine)
  BY NewMachineInv
<1>5. Shape(T)
  BY <1>2, EntryNumbers DEF Shape
<1>6. Parked(i, T) /\ Numbered(i, T)
  <2>1. NoPeer # i
    BY EntryNumbers, AcceptorNumAssumption DEF Acceptors
  <2> QED
    BY <1>2, <1>3, <2>1 DEF Parked, Numbered, NoWaiting
<1>7. Covered(i, T, r) /\ ChosenKnown(i, T)
  BY <1>2, <1>3 DEF Covered, ChosenKnown
<1>8. f => Intact(i, T, r)
  BY <1>2, EntryNumbers DEF Intact
<1> QED
  BY <1>1, <1>2, <1>4, <1>5, <1>6, <1>7, <1>8 DEF Holds, Local, Sent, Steady, T

LEMMA ClearHolds ==
    ASSUME NEW i \in Acceptors, NEW S \in Node, NEW r \in Record,
           S.loaded, S.op = "none", S.ok,
           S.max_cont = Entry => S.max_chosen = Entry,
           S.active_peer # i, \A m \in S.waiting_msg : MsgOK(i, m),
           UpdateAccepts(r), S.max_plog = Entry /\ S.max_cont = 0 => r.promised > 0,
           Sent(i, S, r)
    PROVE  LET T == ClearEntryInfo(S) IN Holds(i, T, r, FALSE) /\ Steady(S, T)
<1> DEFINE E == FinishErr(S)
<1>1. E \in Node
  BY FinishType DEF GoodNode
<1>2. /\ E.loaded = S.loaded /\ E.op = S.op /\ E.ok = S.ok /\ E.max_cont = S.max_cont
      /\ E.max_chosen = S.max_chosen /\ E.active_peer = S.active_peer
      /\ E.waiting_msg = S.waiting_msg /\ E.max_plog = S.max_plog /\ E.out = S.out
      /\ E.drain = S.drain /\ E.client.kind = "none"
  BY DEF FinishErr, NoCmd, Node
<1> HIDE DEF E
<1>3. Holds(i, DestroyEntryInfo(E), r, FALSE) /\ Steady(E, DestroyEntryInfo(E))
  BY <1>1, <1>2, DestroyHolds DEF Sent
<1>4. Steady(S, E)
  BY <1>2 DEF Steady
<1> QED
  BY <1>3, <1>4, SteadyTrans DEF ClearEntryInfo, E

LEMMA TryCatchupHolds ==
    ASSUME NEW i \in Acceptors, NEW S, NEW r \in Record, NEW f, Holds(i, S, r, f),
           S.loaded, S.op # "load", NEW pushed \in BOOLEAN, NEW cu
    PROVE  LET T == TryCatchup(i, S, pushed, cu) IN Holds(i, T, r, f) /\ Steady(S, T)
<1> DEFINE T == CreateEntryInfoIfMiss(S, pushed)
<1>1. CASE S.max_cont = S.max_chosen \/ (~S.mem /\ cu = "none")
  BY <1>1 DEF TryCatchup, Steady
<1>2. CASE ~(S.max_cont = S.max_chosen \/ (~S.mem /\ cu = "none"))
  <2>1. S.max_cont = 0
    BY <1>2, EntryNumbers DEF Holds, Local, Shape, Node
  <2>2. Holds(i, T, r, f) /\ Steady(S, T)
    BY <2>1, CreateHolds
  <2>3. TryCatchup(i, S, pushed, cu) =
            IF ~T.mem \/ uncertain(T) THEN T
            ELSE IF state(i, T) = "Chosen" THEN UpdateByChosenEntry(i, T)
            ELSE IF cu = "sync" THEN SyncToPeers(i, T, {T.active_peer})
            ELSE T
    BY <1>2 DEF TryCatchup
  <2> HIDE DEF T
  <2>4. CASE ~T.mem \/ uncertain(T)
    BY <2>2, <2>3, <2>4
  <2>5. CASE ~(~T.mem \/ uncertain(T))
    <3>1. T \in Node /\ T.op = "none" /\ T.mem
      BY <2>2, <2>5 DEF Steady, uncertain, Holds, Node
    <3>2. LET U == UpdateByChosenEntry(i, T) IN Holds(i, U, r, f) /\ Steady(T, U)
      BY <2>2, <3>1, UpdateByChosenHolds DEF Holds
    <3>3. T.active_peer \in Peers(i)
      BY <2>2, <3>1, NodeFields DEF Holds, Local, Parked, Peers
    <3>4. LET U == SyncToPeers(i, T, {T.active_peer}) IN Holds(i, U, r, f) /\ Steady(T, U)
      BY <2>2, <3>1, <3>3, SyncHolds
    <3> QED
      BY <2>2, <2>3, <2>5, <3>2, <3>4, SteadyTrans
  <2> QED
    BY <2>4, <2>5
<1> QED
  BY <1>1, <1>2

(* The record is given to the PlogWorker.                                  *)
LEMMA StoredHolds ==
    ASSUME NEW i \in Acceptors, NEW S, NEW r, NEW f, Holds(i, S, r, f),
           S.op = "none", S.mem, S.max_cont = 0,
           NEW T \in Node, T.op = "set", T.loaded = S.loaded,
           T.max_chosen = S.max_chosen, T.max_cont = S.max_cont,
           T.max_plog = S.max_plog, T.active_peer = S.active_peer,
           T.waiting_msg = S.waiting_msg, T.mem = S.mem, T.old = S.old,
           T.waiting_msgs = S.waiting_msgs, T.drain = S.drain,
           T.committing = S.committing, T.ok = S.ok, T.out = S.out,
           T.peer_to_sync # i, MachineInv(i, T.recs), T.recs[i].promised > 0,
           Advance(S.recs[i], T.recs[i]), Numbered(i, T)
    PROVE  Holds(i, T, r, f)
<1>1. S.loaded
  BY DEF Holds, Local, Shape
<1>2. Shape(T)
  BY <1>1, EntryNumbers DEF Holds, Local, Shape
<1>3. Parked(i, T) /\ Covered(i, T, r) /\ ChosenKnown(i, T)
  BY EntryNumbers DEF Holds, Local, Parked, Covered, ChosenKnown
<1>4. f => Intact(i, T, r)
  BY EntryNumbers DEF Holds, Local, Intact
<1> QED
  BY <1>2, <1>3, <1>4 DEF Holds, Local, Sent

(* ... or its queue is full.                                               *)
LEMMA DroppedHolds ==
    ASSUME NEW i \in Acceptors, NEW S, NEW r \in Record, NEW f, Holds(i, S, r, f),
           S.op = "none", S.mem,
           NEW T \in Node, T.op = "none", T.loaded = S.loaded,
           T.max_chosen = S.max_chosen, T.max_cont = S.max_cont,
           T.max_plog = S.max_plog, T.active_peer = S.active_peer,
           T.waiting_msg = S.waiting_msg, T.drain = S.drain, T.ok = S.ok, T.out = S.out
    PROVE  Holds(i, ClearEntryInfo(T), r, FALSE) /\ Steady(T, ClearEntryInfo(T))
<1>1. S.loaded /\ S.ok /\ (S.max_cont = Entry => S.max_chosen = Entry)
  BY DEF Holds, Local, Shape
<1>2. S.active_peer # i /\ \A m \in S.waiting_msg : MsgOK(i, m)
  BY DEF Holds, Local, Parked
<1>3. UpdateAccepts(r) /\ (S.max_plog = Entry /\ S.max_cont = 0 => r.promised > 0)
  BY DEF Holds, Local, Covered
<1>4. Sent(i, T, r)
  BY DEF Holds, Sent
<1> QED
  BY <1>1, <1>2, <1>3, <1>4, ClearHolds

(* A handler that takes the command of a client works on a state in which  *)
(* Holds is true but for the command: FinishErr(S) is S without it.        *)
LEMMA FinishErrFields ==
    ASSUME NEW S \in Node
    PROVE  LET E == FinishErr(S) IN
           /\ E \in Node /\ E.client.kind = "none"
           /\ E.loaded = S.loaded /\ E.op = S.op /\ E.max_chosen = S.max_chosen
           /\ E.max_cont = S.max_cont /\ E.max_plog = S.max_plog
           /\ E.active_peer = S.active_peer /\ E.waiting_msg = S.waiting_msg
           /\ E.mem = S.mem /\ E.old = S.old /\ E.recs = S.recs
           /\ E.peer_to_sync = S.peer_to_sync /\ E.waiting_msgs = S.waiting_msgs
           /\ E.drain = S.drain /\ E.committing = S.committing /\ E.ok = S.ok
           /\ E.out = S.out /\ E.broadcast = S.broadcast
<1>1. FinishErr(S) \in Node
  BY FinishType DEF GoodNode
<1> QED
  BY <1>1 DEF FinishErr, NoCmd, Node

(* The command has its value id, or is gone.                               *)
Answered(T) == T.client.kind = "none" \/ T.client.value_id # 0

LEMMA ClearedClient ==
    ASSUME NEW S \in Node
    PROVE  ClearEntryInfo(S).client.kind = "none"
<1>1. FinishErr(S) \in Node /\ FinishErr(S).client.kind = "none"
  BY FinishErrFields
<1> QED
  BY <1>1 DEF ClearEntryInfo, DestroyEntryInfo, Node

LEMMA HandleWriteHolds ==
    ASSUME NEW i \in Acceptors, NEW S \in Node, NEW r \in Record, NEW f \in BOOLEAN,
           Holds(i, FinishErr(S), r, f), S.op = "none", S.mem, S.max_cont = 0,
           S.client.kind # "none", NEW pushed \in BOOLEAN, f => pushed
    PROVE  LET T == HandleWriteCmd(i, S, pushed) IN
           Holds(i, T, r, f) /\ Steady(S, T) /\ Answered(T)
<1> DEFINE E == FinishErr(S)
           pre_auth == EnablePreAuth /\ S.pre_auth # NoEntry
                                     /\ S.pre_auth + 1 = Entry
           promised == Promise(i, S.recs, pre_auth)
           cmd == [S.client EXCEPT !.value_id = promised[i].promised]
           P == [S EXCEPT !.recs = promised, !.client = cmd]
           accepted == Accept(i, promised, P.client.value, P.client.value_id)
           B == [P EXCEPT !.recs = accepted]
           A == Check(B, PreparedValueAccepted(promised))
           Q == IF IsLocalAcceptable(i, promised)
                THEN Check(A, state(i, A) = "AcceptLocal") ELSE P
<1>0. /\ E.loaded = S.loaded /\ E.op = S.op /\ E.max_chosen = S.max_chosen
      /\ E.max_cont = S.max_cont /\ E.max_plog = S.max_plog
      /\ E.active_peer = S.active_peer /\ E.waiting_msg = S.waiting_msg
      /\ E.mem = S.mem /\ E.old = S.old /\ E.recs = S.recs
      /\ E.peer_to_sync = S.peer_to_sync /\ E.waiting_msgs = S.waiting_msgs
      /\ E.drain = S.drain /\ E.committing = S.committing /\ E.ok = S.ok
      /\ E.out = S.out
  BY FinishErrFields
<1>h. Holds(i, E, r, f)
  OBVIOUS
<1> HIDE DEF E
<1>1. S.recs \in Machine /\ S.client \in ClientCmd /\ MachineInv(i, S.recs)
  BY <1>0, <1>h, NodeFields DEF Holds, Local
<1>2. ~S.recs[i].chosen
  BY <1>0, <1>h, EntryNumbers DEF Holds, ChosenKnown
<1>s. /\ S.recs[i].promised \in Nat /\ S.recs[i].prepared \in Nat
      /\ S.recs[i].accepted \in Nat /\ S.recs[i].accepted <= S.recs[i].promised
  BY <1>1, MachineFields DEF MachineInv, WellFormed, UpdateAccepts, IsValidRecord
<1>3. /\ promised \in Machine /\ MachineInv(i, promised)
      /\ \A a \in Acceptors : a # i => promised[a] = S.recs[a]
      /\ ~promised[i].chosen /\ promised[i].promised = promised[i].prepared
      /\ promised[i].promised > S.recs[i].promised
      /\ promised[i].accepted = S.recs[i].accepted
      /\ S.recs[i].prepared < promised[i].prepared
      /\ promised[i].promised <= AcceptorNum => S.recs[i].promised = 0
      /\ entry_state(i, promised) = "PromiseLocal"
  <2>1. pre_auth \in BOOLEAN
    BY BoundsAssumption
  <2> HIDE DEF pre_auth
  <2> QED
    BY <1>1, <1>2, <2>1, PromiseFacts, SMTT(30)
<1> HIDE DEF promised
<1>4. /\ promised[i].promised \in Nat /\ promised[i].promised # 0
      /\ promised[i].accepted < promised[i].promised
      /\ promised[i].prepared \in Nat
  BY <1>s, <1>3, MachineFields
<1>5. cmd \in ClientCmd /\ cmd.value_id = promised[i].promised /\ cmd.kind # "none"
      /\ cmd.value \in Values \cup {NoValue}
  BY <1>1, <1>4 DEF ClientCmd
<1> HIDE DEF cmd
<1>6. P \in Node /\ P.recs = promised /\ P.client = cmd
  BY <1>1, <1>3, <1>5 DEF Node
<1>7. /\ accepted \in Machine /\ MachineInv(i, accepted)
      /\ ~accepted[i].chosen /\ accepted[i].promised = promised[i].promised
      /\ accepted[i].prepared = promised[i].prepared
      /\ accepted[i].accepted = promised[i].promised
      /\ entry_state(i, accepted) = "AcceptLocal"
  BY <1>3, <1>4, <1>5, <1>6, AcceptFacts
<1>8. HandleWriteCmd(i, S, pushed) =
           IF entry_state(i, promised) # "PromiseLocal" THEN FinishErr(P)
           ELSE IF ~pushed THEN ClearEntryInfo(Q)
           ELSE [StoreEntryInfo(Q) EXCEPT !.broadcast = TRUE]
  BY DEF HandleWriteCmd, promised, cmd
<1> HIDE DEF accepted
<1>9. B \in Node /\ B.recs = accepted /\ B.ok
  <2>1. S.ok
    BY <1>0, <1>h DEF Holds, Local
  <2> QED
    BY <1>6, <1>7, <2>1, <1>1, ZenonT(40) DEF Node
<1>10. /\ Q = P \/ Q = B
  <2>1. CASE ~IsLocalAcceptable(i, promised)
    BY <2>1
  <2>2. CASE IsLocalAcceptable(i, promised)
    <3>1. S.recs[i].promised = 0
      BY <1>3, <2>2 DEF IsLocalAcceptable
    <3>2. \A a \in Acceptors : S.recs[a].promised = 0
      <4> TAKE a \in Acceptors
      <4>1. S.recs[a].promised \in Nat /\ S.recs[a].promised <= S.recs[i].promised
        BY <1>1, <1>2, MachineFields DEF MachineInv, Follows
      <4> QED
        BY <3>1, <4>1
    <3>3. \A a \in Acceptors : promised[a].accepted = 0
      <4> TAKE a \in Acceptors
      <4>1. S.recs[a].accepted \in Nat /\ S.recs[a].accepted <= S.recs[a].promised
        BY <1>1, MachineFields DEF MachineInv, WellFormed, UpdateAccepts, IsValidRecord
      <4>2. S.recs[a].accepted = 0
        BY <3>2, <4>1
      <4> QED
        BY <1>3, <4>2
    <3>4. PreparedValueAccepted(promised)
      BY <1>3, <3>3, MaxAcceptedFacts DEF PreparedValueAccepted
    <3>5. A = B
      BY <1>9, <3>4, CheckTrue DEF PreparedValueAccepted
    <3>6. state(i, B) = "AcceptLocal"
      BY <1>7, <1>9 DEF state
    <3>7. Check(B, state(i, B) = "AcceptLocal") = B
      BY <1>9, <3>6, CheckTrue
    <3> HIDE DEF A, B
    <3> QED
      BY <2>2, <3>5, <3>7
  <2> QED
    BY <2>1, <2>2
<1>11. /\ Q \in Node /\ MachineInv(i, Q.recs) /\ Q.recs[i].promised > 0
       /\ Advance(S.recs[i], Q.recs[i]) /\ Q.client = cmd
  <2>1. CASE Q = P
    <3> HIDE DEF P, Q
    <3> QED
      BY <1>2, <1>3, <1>4, <1>6, <1>s, <2>1 DEF Advance
  <2>2. CASE Q = B
    <3>1. B.client = cmd
      BY <1>6 DEF Node
    <3> HIDE DEF B, Q
    <3> QED
      BY <1>2, <1>3, <1>4, <1>7, <1>9, <1>s, <2>2, <3>1 DEF Advance
  <2> QED
    BY <1>10, <2>1, <2>2
<1>12. /\ Q.loaded = S.loaded /\ Q.op = S.op /\ Q.max_chosen = S.max_chosen
       /\ Q.max_cont = S.max_cont /\ Q.max_plog = S.max_plog
       /\ Q.active_peer = S.active_peer /\ Q.waiting_msg = S.waiting_msg
       /\ Q.mem = S.mem /\ Q.old = S.old /\ Q.peer_to_sync = S.peer_to_sync
       /\ Q.waiting_msgs = S.waiting_msgs /\ Q.drain = S.drain
       /\ Q.committing = S.committing /\ Q.ok = S.ok /\ Q.out = S.out
  <2>1. CASE Q = P
    BY <1>1, <2>1, ZenonT(40) DEF Node
  <2>2. CASE Q = B
    <3> HIDE DEF Q
    <3> QED
      BY <1>1, <1>6, <2>2 DEF Node
  <2> QED
    BY <1>10, <2>1, <2>2
<1> HIDE DEF Q, P, A, B
<1>13. Steady(S, Q)
  BY <1>4, <1>5, <1>11, <1>12 DEF Steady
<1>14. CASE ~pushed
  <2>1. HandleWriteCmd(i, S, pushed) = ClearEntryInfo(Q) /\ f = FALSE
    BY <1>3, <1>8, <1>14
  <2>2. Holds(i, ClearEntryInfo(Q), r, FALSE) /\ Steady(Q, ClearEntryInfo(Q))
    BY <1>0, <1>h, <1>11, <1>12, DroppedHolds, ZenonT(40)
  <2>3. ClearEntryInfo(Q).client.kind = "none"
    BY <1>11, ClearedClient
  <2> QED
    BY <1>13, <2>1, <2>2, <2>3, SteadyTrans DEF Answered
<1>15. CASE pushed
  <2> DEFINE T == [Q EXCEPT !.op = "set", !.broadcast = TRUE]
  <2>1. ~uncertain(Q) /\ Q.ok
    BY <1>0, <1>h, <1>12 DEF uncertain, Holds, Local
  <2>2. StoreEntryInfo(Q) = [Q EXCEPT !.op = "set"]
    BY <1>11, <2>1, CheckTrue DEF StoreEntryInfo
  <2>3. HandleWriteCmd(i, S, pushed) = T
    BY <1>3, <1>8, <1>11, <1>15, <2>2 DEF Node
  <2>4. /\ T \in Node /\ T.op = "set" /\ T.recs = Q.recs /\ T.client = cmd
        /\ T.loaded = S.loaded /\ T.max_chosen = S.max_chosen
        /\ T.max_cont = S.max_cont /\ T.max_plog = S.max_plog
        /\ T.active_peer = S.active_peer /\ T.waiting_msg = S.waiting_msg
        /\ T.mem = S.mem /\ T.old = S.old /\ T.peer_to_sync = S.peer_to_sync
        /\ T.waiting_msgs = S.waiting_msgs /\ T.drain = S.drain
        /\ T.committing = S.committing /\ T.ok = S.ok /\ T.out = S.out
    BY <1>11, <1>12, ZenonT(40) DEF Node
  <2> HIDE DEF T
  <2>5. Numbered(i, T) /\ T.peer_to_sync # i
    BY <1>0, <1>h, <1>4, <1>5, <2>4 DEF Numbered, Holds, Local, Parked
  <2>6. Holds(i, T, r, f)
    <3>1. /\ E.op = "none" /\ E.mem /\ E.max_cont = 0
          /\ T.loaded = E.loaded /\ T.max_chosen = E.max_chosen
          /\ T.max_cont = E.max_cont /\ T.max_plog = E.max_plog
          /\ T.active_peer = E.active_peer /\ T.waiting_msg = E.waiting_msg
          /\ T.mem = E.mem /\ T.old = E.old /\ T.waiting_msgs = E.waiting_msgs
          /\ T.drain = E.drain /\ T.committing = E.committing
          /\ T.ok = E.ok /\ T.out = E.out
      BY <1>0, <2>4
    <3>2. /\ MachineInv(i, T.recs) /\ T.recs[i].promised > 0
          /\ Advance(E.recs[i], T.recs[i])
      BY <1>0, <1>11, <2>4
    <3>3. T \in Node /\ T.op = "set" /\ T.peer_to_sync # i /\ Numbered(i, T)
      BY <2>4, <2>5
    <3> QED
      BY <1>h, <3>1, <3>2, <3>3, StoredHolds
  <2>7. Steady(S, T)
    BY <1>4, <1>5, <2>4 DEF Steady
  <2> QED
    BY <1>4, <1>5, <2>3, <2>4, <2>6, <2>7 DEF Answered
<1> QED
  BY <1>14, <1>15

LEMMA HandleReadHolds ==
    ASSUME NEW i \in Acceptors, NEW S \in Node, NEW r \in Record, NEW f \in BOOLEAN,
           Holds(i, FinishErr(S), r, f), S.op = "none", S.mem, S.max_cont = 0,
           S.client.kind # "none", NEW pushed \in BOOLEAN, f => pushed
    PROVE  LET T == HandleReadCmd(i, S, pushed) IN
           Holds(i, T, r, f) /\ Steady(S, T) /\ (Answered(T) \/ T.max_plog = 0)
<1> DEFINE E == FinishErr(S)
           F == [S EXCEPT !.empty_flags = {i}]
<1>1. CASE ~IsLocalEmpty(i, S.recs)
  BY <1>1, HandleWriteHolds DEF HandleReadCmd
<1>2. CASE IsLocalEmpty(i, S.recs)
  <2>1. HandleReadCmd(i, S, pushed) = BroadcastCheckEmpty(i, F)
    BY <1>2 DEF HandleReadCmd
  <2>2. /\ F \in Node /\ F.client = S.client
        /\ F.loaded = S.loaded /\ F.op = S.op /\ F.max_chosen = S.max_chosen
        /\ F.max_cont = S.max_cont /\ F.max_plog = S.max_plog
        /\ F.active_peer = S.active_peer /\ F.waiting_msg = S.waiting_msg
        /\ F.mem = S.mem /\ F.old = S.old /\ F.recs = S.recs
        /\ F.peer_to_sync = S.peer_to_sync /\ F.waiting_msgs = S.waiting_msgs
        /\ F.drain = S.drain /\ F.committing = S.committing /\ F.ok = S.ok
        /\ F.out = S.out /\ F.broadcast = S.broadcast
    BY ZenonT(40) DEF Node
  <2>3. /\ E.loaded = S.loaded /\ E.op = S.op /\ E.max_chosen = S.max_chosen
        /\ E.max_cont = S.max_cont /\ E.max_plog = S.max_plog
        /\ E.active_peer = S.active_peer /\ E.waiting_msg = S.waiting_msg
        /\ E.mem = S.mem /\ E.old = S.old /\ E.recs = S.recs
        /\ E.peer_to_sync = S.peer_to_sync /\ E.waiting_msgs = S.waiting_msgs
        /\ E.drain = S.drain /\ E.committing = S.committing /\ E.ok = S.ok
        /\ E.out = S.out /\ E.broadcast = S.broadcast
    BY FinishErrFields
  <2>h. Holds(i, E, r, f)
    OBVIOUS
  <2> HIDE DEF E, F
  <2>4. S.recs \in Machine /\ MachineInv(i, S.recs)
    BY <2>3, <2>h, NodeFields DEF Holds, Local
  <2>5. S.recs[i].promised = 0 /\ S.recs[i].prepared = 0
    <3>1. /\ S.recs[i].promised \in Nat /\ S.recs[i].prepared \in Nat
          /\ S.recs[i].prepared <= S.recs[i].promised /\ S.recs[i].chosen \in BOOLEAN
      BY <2>4, MachineFields DEF MachineInv, WellFormed, UpdateAccepts, IsValidRecord
    <3>2. entry_state(i, S.recs) = "Normal"
      BY <1>2 DEF IsLocalEmpty
    <3>3. S.recs[i].promised = 0
      BY <3>1, <3>2 DEF entry_state
    <3> QED
      BY <3>1, <3>3
  <2>6. S.max_plog = 0
    BY <2>3, <2>5, <2>h, EntryNumbers DEF Holds, Local, Covered, Node
  <2>7. Shape(F) /\ Parked(i, F) /\ Covered(i, F, r) /\ (f => Intact(i, F, r))
    BY <2>2, <2>3, <2>h DEF Holds, Local, Shape, Parked, Covered, Intact
  <2>8. Numbered(i, F) /\ ChosenKnown(i, F) /\ Sent(i, F, r)
    BY <2>2, <2>3, <2>5, <2>h DEF Numbered, Holds, ChosenKnown, Sent
  <2>9. Holds(i, F, r, f)
    BY <2>2, <2>3, <2>4, <2>7, <2>8, <2>h DEF Holds, Local
  <2>10. LET T == BroadcastCheckEmpty(i, F) IN Holds(i, T, r, f) /\ Steady(F, T)
    BY <2>9, CheckEmptyHolds
  <2>11. Steady(S, F)
    BY <2>2 DEF Steady
  <2>12. LET T == BroadcastCheckEmpty(i, F) IN Steady(S, T) /\ T.max_plog = 0
    BY <2>2, <2>6, <2>10, <2>11, SteadyTrans DEF Steady
  <2> QED
    BY <2>1, <2>10, <2>12
<1> QED
  BY <1>1, <1>2

LEMMA CreateFinish ==
    ASSUME NEW S \in Node, NEW pushed \in BOOLEAN
    PROVE  FinishErr(CreateEntryInfoIfMiss(S, pushed)) = CreateEntryInfoIfMiss(FinishErr(S), pushed)
<1> DEFINE E == FinishErr(S)
           T == CreateEntryInfoIfMiss(S, pushed)
           op == IF S.max_plog < Entry THEN S.op ELSE "get"
<1>1. E.max_plog = S.max_plog /\ E.mem = S.mem /\ E.op = S.op
  BY FinishErrFields
<1>2. CASE S.mem \/ (S.max_plog >= Entry /\ ~pushed)
  <2>1. T = S /\ CreateEntryInfoIfMiss(E, pushed) = E
    BY <1>1, <1>2 DEF CreateEntryInfoIfMiss
  <2> QED
    BY <2>1
<1>3. CASE ~(S.mem \/ (S.max_plog >= Entry /\ ~pushed))
  <2>1. T = [S EXCEPT !.mem = TRUE, !.op = op]
    BY <1>3 DEF CreateEntryInfoIfMiss
  <2>2. CreateEntryInfoIfMiss(E, pushed) = [E EXCEPT !.mem = TRUE, !.op = op]
    BY <1>1, <1>3 DEF CreateEntryInfoIfMiss
  <2> HIDE DEF op
  <2>3. FinishErr(T) = [T EXCEPT !.client = NoCmd] /\ E = [S EXCEPT !.client = NoCmd]
    BY DEF FinishErr
  <2>4. [[S EXCEPT !.mem = TRUE, !.op = op] EXCEPT !.client = NoCmd]
          = [[S EXCEPT !.client = NoCmd] EXCEPT !.mem = TRUE, !.op = op]
    BY DEF Node
  <2>5. FinishErr(T) = CreateEntryInfoIfMiss(E, pushed)
    <3> HIDE DEF T, E
    <3> QED
      BY <2>1, <2>2, <2>3, <2>4
  <2> QED
    BY <2>5
<1> QED
  BY <1>2, <1>3

LEMMA DispatchHolds ==
    ASSUME NEW i \in Acceptors, NEW S \in Node, NEW r \in Record, NEW f \in BOOLEAN,
           Holds(i, FinishErr(S), r, f), S.loaded, S.op # "load", S.client.kind # "none",
           NEW pushed \in BOOLEAN, f => pushed, NEW cu
    PROVE  LET T == DispatchClientCmd(i, S, pushed, cu) IN
           Holds(i, T, r, f) /\ Steady(S, T) /\ (Answered(T) \/ T.max_plog = 0)
<1> DEFINE E == FinishErr(S)
           T == CreateEntryInfoIfMiss(S, pushed)
<1>1. /\ E \in Node /\ E.client.kind = "none" /\ E.loaded = S.loaded /\ E.op = S.op
      /\ E.max_chosen = S.max_chosen /\ E.max_cont = S.max_cont
      /\ E.max_plog = S.max_plog /\ E.mem = S.mem /\ E.drain = S.drain
  BY FinishErrFields
<1>2. Steady(S, E) /\ Answered(E)
  BY <1>1 DEF Steady, Answered
<1>3. Holds(i, E, r, f)
  OBVIOUS
<1>4. CASE Entry # S.max_chosen + 1
  <2>1. DispatchClientCmd(i, S, pushed, cu) = TryCatchup(i, E, pushed, cu)
    BY <1>4 DEF DispatchClientCmd
  <2> HIDE DEF E
  <2>2. LET U == TryCatchup(i, E, pushed, cu) IN Holds(i, U, r, f) /\ Steady(E, U)
    BY <1>1, <1>3, TryCatchupHolds
  <2>3. LET U == TryCatchup(i, E, pushed, cu) IN Steady(S, U) /\ Answered(U)
    BY <1>1, <1>2, <2>2, SteadyTrans DEF Steady, Answered
  <2> QED
    BY <2>1, <2>2, <2>3
<1>5. CASE Entry = S.max_chosen + 1
  <2>1. S.max_cont = 0
    BY <1>1, <1>3, <1>5, EntryNumbers DEF Holds, Local, Shape, Node
  <2>2. DispatchClientCmd(i, S, pushed, cu) =
            IF ~T.mem THEN E
            ELSE IF uncertain(T) THEN FinishErr(T)
            ELSE IF S.client.kind = "write" THEN HandleWriteCmd(i, T, pushed)
            ELSE HandleReadCmd(i, T, pushed)
    BY <1>5 DEF DispatchClientCmd, EntryInfoAvailable
  <2>3. T \in Node
    BY CreateType DEF GoodNode
  <2>4. FinishErr(T) = CreateEntryInfoIfMiss(E, pushed)
    BY CreateFinish
  <2>5. /\ Holds(i, FinishErr(T), r, f) /\ Steady(E, FinishErr(T))
        /\ FinishErr(T).max_cont = 0 /\ FinishErr(T).client = E.client
    <3>1. E.loaded /\ E.op # "load" /\ E.max_cont = 0
      BY <1>1, <2>1
    <3> HIDE DEF E
    <3>2. LET N == CreateEntryInfoIfMiss(E, pushed) IN
          /\ Holds(i, N, r, f) /\ Steady(E, N)
          /\ N.max_cont = 0 /\ N.client = E.client
      BY <1>3, <3>1, CreateHolds
    <3> HIDE DEF T
    <3> QED
      BY <2>4, <3>2
  <2>6. /\ FinishErr(T).op = T.op /\ FinishErr(T).max_cont = T.max_cont
        /\ FinishErr(T).mem = T.mem /\ FinishErr(T).client.kind = "none"
    BY <2>3, FinishErrFields
  <2>7. /\ T.client = S.client /\ T.drain = S.drain /\ T.loaded = S.loaded
        /\ T.max_plog = S.max_plog /\ (S.op # "load" => T.op # "load")
    BY DEF CreateEntryInfoIfMiss, Node
  <2>8. Steady(S, T) /\ Steady(S, FinishErr(T)) /\ Answered(FinishErr(T))
    BY <1>2, <2>5, <2>6, <2>7, SteadyTrans DEF Steady, Answered
  <2> HIDE DEF T, E
  <2>9. CASE T.mem /\ ~uncertain(T)
    <3>1. T.op = "none" /\ T.max_cont = 0
      BY <2>3, <2>5, <2>6, <2>7, <2>9 DEF uncertain, Node
    <3>2. LET U == HandleWriteCmd(i, T, pushed) IN
          Holds(i, U, r, f) /\ Steady(T, U) /\ Answered(U)
      BY <2>3, <2>5, <2>7, <2>9, <3>1, HandleWriteHolds
    <3>3. LET U == HandleReadCmd(i, T, pushed) IN
          Holds(i, U, r, f) /\ Steady(T, U) /\ (Answered(U) \/ U.max_plog = 0)
      BY <2>3, <2>5, <2>7, <2>9, <3>1, HandleReadHolds
    <3> QED
      BY <2>2, <2>8, <2>9, <3>2, <3>3, SteadyTrans
  <2>10. CASE ~T.mem \/ uncertain(T)
    BY <1>2, <1>3, <2>2, <2>5, <2>8, <2>10
  <2> QED
    BY <2>9, <2>10
<1> QED
  BY <1>4, <1>5

LEMMA HandleClientCmdHolds ==
    ASSUME NEW i \in Acceptors, NEW S, NEW r \in Record, NEW f \in BOOLEAN,
           Holds(i, S, r, f), Settled(S), NEW cmd \in ClientCmd, cmd.kind # "none",
           NEW pushed \in BOOLEAN, f => pushed, NEW cu, S.drain = "no"
    PROVE  LET T == HandleClientCmd(i, S, cmd, pushed, cu) IN
           Holds(i, T, r, f) /\ Settled(T)
<1> DEFINE T == [S EXCEPT !.client = cmd]
           L == [T EXCEPT !.loaded = TRUE, !.op = "load"]
<1>1. S \in Node /\ T \in Node
  BY DEF Holds, Node
<1>2. /\ T.client = cmd
      /\ T.loaded = S.loaded /\ T.op = S.op /\ T.max_chosen = S.max_chosen
      /\ T.max_cont = S.max_cont /\ T.max_plog = S.max_plog
      /\ T.active_peer = S.active_peer /\ T.waiting_msg = S.waiting_msg
      /\ T.mem = S.mem /\ T.old = S.old /\ T.recs = S.recs
      /\ T.peer_to_sync = S.peer_to_sync /\ T.waiting_msgs = S.waiting_msgs
      /\ T.drain = S.drain /\ T.committing = S.committing /\ T.ok = S.ok
      /\ T.out = S.out /\ T.broadcast = S.broadcast
  BY <1>1 DEF Node
<1>3. FinishErr(T) = FinishErr(S)
  BY <1>1 DEF FinishErr, Node
<1>4. HandleClientCmd(i, S, cmd, pushed, cu) =
          IF ~S.loaded THEN IF pushed THEN L ELSE S
          ELSE IF loading(S) THEN T ELSE DispatchClientCmd(i, T, pushed, cu)
  BY DEF HandleClientCmd
<1>e. NewMachine[i].prepared = 0
  BY DEF NewMachine, EmptyRecord
<1>5. CASE ~S.loaded
  <2>1. /\ L \in Node /\ L.client = cmd
        /\ L.loaded /\ L.op = "load" /\ L.max_chosen = S.max_chosen
        /\ L.max_cont = S.max_cont /\ L.max_plog = S.max_plog
        /\ L.active_peer = S.active_peer /\ L.waiting_msg = S.waiting_msg
        /\ L.mem = S.mem /\ L.old = S.old /\ L.recs = S.recs
        /\ L.peer_to_sync = S.peer_to_sync /\ L.waiting_msgs = S.waiting_msgs
        /\ L.drain = S.drain /\ L.committing = S.committing /\ L.ok = S.ok
        /\ L.out = S.out /\ L.broadcast = S.broadcast
    BY <1>1 DEF Node
  <2> HIDE DEF L, T
  <2>2. /\ ~S.mem /\ S.recs = NewMachine /\ S.op = "none" /\ S.max_cont = 0
        /\ S.max_plog = 0 /\ S.max_chosen = 0
    BY <1>5 DEF Holds, Local, Shape
  <2>3. Shape(L)
    BY <2>1, <2>2, EntryNumbers DEF Holds, Local, Shape
  <2>4. Parked(i, L) /\ Covered(i, L, r) /\ Numbered(i, L) /\ (f => Intact(i, L, r))
    BY <1>5, <1>e, <2>1, <2>2, EntryNumbers
    DEF Holds, Local, Parked, Covered, Numbered, Intact
  <2>5. Holds(i, L, r, f) /\ Settled(L)
    BY <2>1, <2>2, <2>3, <2>4 DEF Holds, Local, Sent, ChosenKnown, Settled
  <2> QED
    BY <1>4, <1>5, <2>5
<1>6. CASE S.loaded /\ loading(S)
  <2> HIDE DEF T
  <2>1. ~S.mem /\ S.recs = NewMachine
    BY <1>6 DEF Holds, Local, Shape, loading
  <2>2. Shape(T) /\ Parked(i, T) /\ Covered(i, T, r) /\ (f => Intact(i, T, r))
    BY <1>2 DEF Holds, Local, Shape, Parked, Covered, Intact
  <2>3. Numbered(i, T) /\ ChosenKnown(i, T) /\ Sent(i, T, r) /\ Settled(T)
    BY <1>2, <1>6, <1>e, <2>1
    DEF Numbered, Holds, ChosenKnown, Sent, Settled, loading
  <2>4. Holds(i, T, r, f)
    BY <1>1, <1>2, <2>2, <2>3 DEF Holds, Local
  <2> QED
    BY <1>4, <1>6, <2>3, <2>4
<1>7. CASE S.loaded /\ ~loading(S)
  <2>1. Holds(i, FinishErr(T), r, f)
    BY <1>3, FinishHolds
  <2> HIDE DEF T
  <2>2. LET U == DispatchClientCmd(i, T, pushed, cu) IN
        Holds(i, U, r, f) /\ (Answered(U) \/ U.max_plog = 0)
    <3>1. T.loaded /\ T.op # "load" /\ T.client.kind # "none" /\ T \in Node
      BY <1>1, <1>2, <1>7 DEF loading
    <3> QED
      BY <2>1, <3>1, DispatchHolds
  <2>3. Settled(DispatchClientCmd(i, T, pushed, cu))
    BY <2>2 DEF Settled, Answered
  <2> QED
    BY <1>4, <1>7, <2>2, <2>3
<1> QED
  BY <1>5, <1>6, <1>7

-----------------------------------------------------------------------------
(* The handlers of messages.                                               *)

LEMMA RestoredOK ==
    ASSUME NEW i, NEW S \in Node, NEW m \in PaxosCmd, MsgOK(i, m)
    PROVE  LET c == RestoreValue(S, m) IN c \in PaxosCmd /\ MsgOK(i, c) /\ c.from = m.from
<1> DEFINE restored(x) == IF x.id_only THEN RestoreValueInRecord(S.recs, x) ELSE x
           c == RestoreValue(S, m)
<1>1. c = [m EXCEPT !.local = restored(m.local), !.peer = restored(m.peer)]
  BY DEF RestoreValue
<1>2. c \in PaxosCmd /\ c.from = m.from
  BY RestoreMsgType
<1>3. ~m.local.id_only => restored(m.local) = m.local
  OBVIOUS
<1>4. ~m.peer.id_only => restored(m.peer) = m.peer
  OBVIOUS
<1> HIDE DEF restored
<1>5. /\ c.to = m.to /\ c.check_empty = m.check_empty
      /\ c.local = restored(m.local) /\ c.peer = restored(m.peer)
  BY <1>1 DEF PaxosCmd
<1> HIDE DEF c
<1>6. m.check_empty => c.local = m.local /\ c.peer = m.peer
  BY <1>3, <1>4, <1>5 DEF MsgOK, EmptyRecord
<1> QED
  BY <1>2, <1>5, <1>6 DEF MsgOK, c

LEMMA AdvanceTrans ==
    ASSUME NEW r \in Record, NEW s \in Record, NEW t \in Record,
           Advance(r, s), Advance(s, t)
    PROVE  Advance(r, t) /\ (IsRecordNewer(r, s) => IsRecordNewer(r, t))
BY DEF Advance, IsRecordNewer, Record

(* AcceptIfPromised: the value of the client, which has its number then,   *)
(* or the value that was accepted before.                                  *)
LEMMA AcceptIfPromisedFacts ==
    ASSUME NEW i \in Acceptors, NEW S \in Node, MachineInv(i, S.recs), S.ok,
           Numbered(i, S)
    PROVE  LET T == AcceptIfPromised(i, S) IN
           /\ T \in Node /\ MachineInv(i, T.recs) /\ Numbered(i, T)
           /\ Advance(S.recs[i], T.recs[i])
           /\ ~IsRecordNewer(S.recs[i], T.recs[i]) => T.recs[i] = S.recs[i]
           /\ T.client = S.client \/ T.client.kind = "none"
           /\ T.loaded = S.loaded /\ T.op = S.op /\ T.max_chosen = S.max_chosen
           /\ T.max_cont = S.max_cont /\ T.max_plog = S.max_plog
           /\ T.active_peer = S.active_peer /\ T.waiting_msg = S.waiting_msg
           /\ T.mem = S.mem /\ T.old = S.old /\ T.broadcast = S.broadcast
           /\ T.peer_to_sync = S.peer_to_sync /\ T.waiting_msgs = S.waiting_msgs
           /\ T.drain = S.drain /\ T.committing = S.committing /\ T.ok = S.ok
           /\ T.out = S.out /\ T.recs[i].prepared = S.recs[i].prepared
<1> DEFINE mine == S.client.kind # "none"
           value == IF mine THEN S.client.value ELSE NoValue
           value_id == IF mine THEN S.client.value_id ELSE S.recs[i].promised
           q == Accept(i, S.recs, value, value_id)
           B == [S EXCEPT !.recs = q]
<1>1. /\ S.recs \in Machine /\ S.client \in ClientCmd /\ UpdateAccepts(S.recs[i])
      /\ S.recs[i].promised \in Nat /\ S.recs[i].prepared \in Nat
      /\ S.recs[i].accepted \in Nat /\ S.recs[i].chosen \in BOOLEAN
  BY NodeFields, MachineFields DEF MachineInv, WellFormed
<1>2. CASE state(i, S) # "MajorityPromise"
  <2>1. AcceptIfPromised(i, S) = S
    BY <1>2 DEF AcceptIfPromised
  <2>2. Advance(S.recs[i], S.recs[i])
    BY <1>1 DEF Advance
  <2> QED
    BY <2>1, <2>2
<1>3. CASE state(i, S) = "MajorityPromise"
  <2>1. /\ ~S.recs[i].chosen /\ S.recs[i].promised <= S.recs[i].prepared
        /\ S.recs[i].promised # 0 /\ S.recs[i].accepted # S.recs[i].promised
    BY <1>1, <1>3 DEF state, entry_state
  <2>2. S.recs[i].promised = S.recs[i].prepared /\ S.recs[i].accepted < S.recs[i].promised
    BY <1>1, <2>1 DEF UpdateAccepts, IsValidRecord
  <2>3. value \in Values \cup {NoValue} /\ value_id \in Nat \ {0}
    BY <1>1, <2>1, <2>2 DEF Numbered, ClientCmd
  <2>4. AcceptIfPromised(i, S) =
            LET T == Check(B, entry_state(i, q) = "AcceptLocal")
            IN IF PreparedValueAccepted(S.recs) THEN T ELSE FinishErr(T)
    BY <1>3 DEF AcceptIfPromised
  <2> HIDE DEF value, value_id
  <2>5. /\ q \in Machine /\ MachineInv(i, q) /\ ~q[i].chosen
        /\ q[i].promised = S.recs[i].promised /\ q[i].prepared = S.recs[i].prepared
        /\ q[i].accepted = S.recs[i].promised /\ entry_state(i, q) = "AcceptLocal"
    BY <1>1, <2>1, <2>2, <2>3, AcceptFacts
  <2> HIDE DEF q
  <2>6. /\ B \in Node /\ B.recs = q /\ B.client = S.client
        /\ B.loaded = S.loaded /\ B.op = S.op /\ B.max_chosen = S.max_chosen
        /\ B.max_cont = S.max_cont /\ B.max_plog = S.max_plog
        /\ B.active_peer = S.active_peer /\ B.waiting_msg = S.waiting_msg
        /\ B.mem = S.mem /\ B.old = S.old /\ B.broadcast = S.broadcast
        /\ B.peer_to_sync = S.peer_to_sync /\ B.waiting_msgs = S.waiting_msgs
        /\ B.drain = S.drain /\ B.committing = S.committing /\ B.ok = S.ok
        /\ B.out = S.out
    BY <2>5 DEF Node
  <2> HIDE DEF B
  <2>7. Check(B, entry_state(i, q) = "AcceptLocal") = B
    BY <2>5, <2>6, CheckTrue
  <2>8. AcceptIfPromised(i, S) = IF PreparedValueAccepted(S.recs) THEN B ELSE FinishErr(B)
    BY <2>4, <2>7
  <2>9. Advance(S.recs[i], q[i]) /\ IsRecordNewer(S.recs[i], q[i])
    BY <1>1, <2>1, <2>2, <2>5 DEF Advance, IsRecordNewer
  <2>10. Numbered(i, B)
    BY <2>5, <2>6 DEF Numbered
  <2> DEFINE E == FinishErr(B)
  <2>11. /\ E \in Node /\ E.client.kind = "none" /\ E.recs = B.recs
         /\ E.loaded = B.loaded /\ E.op = B.op /\ E.max_chosen = B.max_chosen
         /\ E.max_cont = B.max_cont /\ E.max_plog = B.max_plog
         /\ E.active_peer = B.active_peer /\ E.waiting_msg = B.waiting_msg
         /\ E.mem = B.mem /\ E.old = B.old /\ E.broadcast = B.broadcast
         /\ E.peer_to_sync = B.peer_to_sync /\ E.waiting_msgs = B.waiting_msgs
         /\ E.drain = B.drain /\ E.committing = B.committing /\ E.ok = B.ok
         /\ E.out = B.out
    BY <2>6, FinishErrFields
  <2>12. Numbered(i, E)
    BY <2>11 DEF Numbered
  <2> HIDE DEF E
  <2>13. CASE PreparedValueAccepted(S.recs)
    BY <2>5, <2>6, <2>8, <2>9, <2>10, <2>13
  <2>14. CASE ~PreparedValueAccepted(S.recs)
    <3>1. AcceptIfPromised(i, S) = E
      BY <2>8, <2>14 DEF E
    <3> QED
      BY <2>5, <2>6, <2>9, <2>11, <2>12, <3>1, ZenonT(40)
  <2> QED
    BY <2>13, <2>14
<1> QED
  BY <1>2, <1>3

LEMMA UpdateMachineHolds ==
    ASSUME NEW i \in Acceptors, NEW S, NEW r \in Record, NEW f \in BOOLEAN,
           Holds(i, S, r, f), S.op = "none", S.mem, S.max_cont = 0,
           NEW m \in PaxosCmd, MsgOK(i, m), NEW pushed \in BOOLEAN, f => pushed
    PROVE  LET N == UpdateMachineByPaxosCmd(i, S, m, pushed) IN
           Holds(i, N, r, f) /\ Steady(S, N)
<1> DEFINE q == Update(i, m.from, S.recs, m.local)
           U == [S EXCEPT !.recs = q]
           T == AcceptIfPromised(i, U)
           compensate == /\ state(i, U) # state(i, S)
                         /\ state(i, U) \in {"MajorityPromise", "Chosen"}
           need_sync == IsRecordNewer(m.peer, T.recs[i])
           local_updated == IsRecordNewer(S.recs[i], T.recs[i])
           sync == IF need_sync THEN m.from ELSE T.peer_to_sync
           comp == IF need_sync THEN compensate ELSE T.compensate
           X == [T EXCEPT !.op = "set", !.peer_to_sync = sync, !.compensate = comp]
           answer == [SendBack(m) EXCEPT !.check_empty = FALSE]
<1>1. /\ S \in Node /\ S.recs \in Machine /\ MachineInv(i, S.recs) /\ S.ok
      /\ Numbered(i, S) /\ m.from \in Acceptors /\ m.from # i /\ m.local \in Record
      /\ m.peer \in Record /\ S.peer_to_sync # i
  BY NodeFields DEF Holds, Local, Parked, MsgOK, PaxosCmd
<1>2. /\ q \in Machine /\ MachineInv(i, q) /\ Advance(S.recs[i], q[i])
      /\ q[i].prepared = S.recs[i].prepared
      /\ ~IsRecordNewer(S.recs[i], q[i]) => q[i] = S.recs[i]
  BY <1>1, UpdateFacts
<1>3. UpdateMachineByPaxosCmd(i, S, m, pushed) =
          LET C == Check(T, CalcAsserts(q[i])) IN
          IF ~UpdateAccepts(m.local) THEN S
          ELSE IF IsRecordNewer(S.recs[i], C.recs[i]) /\ ~pushed THEN ClearEntryInfo(C)
          ELSE IF IsRecordNewer(S.recs[i], C.recs[i])
          THEN CountEmpty(i, [StoreEntryInfo(C) EXCEPT
                  !.peer_to_sync = IF IsRecordNewer(m.peer, C.recs[i])
                                   THEN m.from ELSE @,
                  !.compensate = IF IsRecordNewer(m.peer, C.recs[i])
                                 THEN compensate ELSE @], m)
          ELSE IF IsRecordNewer(m.peer, C.recs[i])
          THEN CountEmpty(i, SyncToPeers(i, C, {m.from}), m)
          ELSE IF m.check_empty
          THEN Send(Check(C, IsLocalEmpty(i, C.recs)), answer)
          ELSE CountEmpty(i, C, m)
  <2>1. U.recs = q
    BY <1>1 DEF Node
  <2> HIDE DEF q
  <2> QED
    BY <2>1 DEF UpdateMachineByPaxosCmd, q
<1> HIDE DEF q
<1>4. /\ U \in Node /\ U.recs = q /\ U.client = S.client
      /\ U.loaded = S.loaded /\ U.op = S.op /\ U.max_chosen = S.max_chosen
      /\ U.max_cont = S.max_cont /\ U.max_plog = S.max_plog
      /\ U.active_peer = S.active_peer /\ U.waiting_msg = S.waiting_msg
      /\ U.mem = S.mem /\ U.old = S.old /\ U.broadcast = S.broadcast
      /\ U.peer_to_sync = S.peer_to_sync /\ U.waiting_msgs = S.waiting_msgs
      /\ U.drain = S.drain /\ U.committing = S.committing /\ U.ok = S.ok
      /\ U.out = S.out
  BY <1>1, <1>2 DEF Node
<1> HIDE DEF U
<1>5. Numbered(i, U)
  BY <1>1, <1>2, <1>4 DEF Numbered
<1>6. /\ T \in Node /\ MachineInv(i, T.recs) /\ Numbered(i, T)
      /\ Advance(U.recs[i], T.recs[i])
      /\ ~IsRecordNewer(U.recs[i], T.recs[i]) => T.recs[i] = U.recs[i]
      /\ T.client = U.client \/ T.client.kind = "none"
      /\ T.loaded = U.loaded /\ T.op = U.op /\ T.max_chosen = U.max_chosen
      /\ T.max_cont = U.max_cont /\ T.max_plog = U.max_plog
      /\ T.active_peer = U.active_peer /\ T.waiting_msg = U.waiting_msg
      /\ T.mem = U.mem /\ T.old = U.old /\ T.broadcast = U.broadcast
      /\ T.peer_to_sync = U.peer_to_sync /\ T.waiting_msgs = U.waiting_msgs
      /\ T.drain = U.drain /\ T.committing = U.committing /\ T.ok = U.ok
      /\ T.out = U.out
  BY <1>1, <1>2, <1>4, <1>5, AcceptIfPromisedFacts
<1> HIDE DEF T
<1>7. /\ T.client = S.client \/ T.client.kind = "none"
      /\ T.loaded = S.loaded /\ T.op = "none" /\ T.max_chosen = S.max_chosen
      /\ T.max_cont = S.max_cont /\ T.max_plog = S.max_plog
      /\ T.active_peer = S.active_peer /\ T.waiting_msg = S.waiting_msg
      /\ T.mem = S.mem /\ T.old = S.old /\ T.broadcast = S.broadcast
      /\ T.peer_to_sync = S.peer_to_sync /\ T.waiting_msgs = S.waiting_msgs
      /\ T.drain = S.drain /\ T.committing = S.committing /\ T.ok = S.ok
      /\ T.out = S.out
  BY <1>4, <1>6
<1>8. Check(T, CalcAsserts(q[i])) = T
  <2>1. CalcAsserts(q[i])
    BY <1>2 DEF MachineInv, WellFormed, UpdateAccepts, IsValidRecord, CalcAsserts
  <2>2. CalcAsserts(q[i]) \in BOOLEAN
    BY <2>1 DEF CalcAsserts
  <2> QED
    BY <1>1, <1>6, <1>7, <2>1, <2>2, CheckTrue
<1>9. S.recs[i] \in Record /\ q[i] \in Record /\ T.recs[i] \in Record
  BY <1>1, <1>2, <1>6, NodeFields, MachineFields
<1>10. Advance(S.recs[i], T.recs[i]) /\ (~local_updated => T.recs[i] = S.recs[i])
  <2>1. Advance(q[i], T.recs[i])
    BY <1>4, <1>6
  <2>2. /\ Advance(S.recs[i], T.recs[i])
        /\ IsRecordNewer(S.recs[i], q[i]) => IsRecordNewer(S.recs[i], T.recs[i])
    BY <1>2, <1>9, <2>1, AdvanceTrans
  <2> QED
    BY <1>2, <1>4, <1>6, <2>2
<1>11. Steady(S, T)
  BY <1>7 DEF Steady
<1>12. CASE ~UpdateAccepts(m.local)
  BY <1>3, <1>12 DEF Steady
<1>13. CASE UpdateAccepts(m.local) /\ local_updated /\ ~pushed
  <2>1. UpdateMachineByPaxosCmd(i, S, m, pushed) = ClearEntryInfo(T) /\ f = FALSE
    BY <1>3, <1>8, <1>13
  <2>2. Holds(i, ClearEntryInfo(T), r, FALSE) /\ Steady(T, ClearEntryInfo(T))
    BY <1>6, <1>7, DroppedHolds
  <2> QED
    BY <1>11, <2>1, <2>2, SteadyTrans
<1>14. CASE UpdateAccepts(m.local) /\ local_updated /\ pushed
  <2>1. Check(T, ~uncertain(T)) = T
    BY <1>1, <1>6, <1>7, CheckTrue DEF uncertain
  <2>2. StoreEntryInfo(T) = [T EXCEPT !.op = "set"]
    BY <2>1 DEF StoreEntryInfo
  <2>3. [StoreEntryInfo(T) EXCEPT
            !.peer_to_sync = IF IsRecordNewer(m.peer, T.recs[i]) THEN m.from ELSE @,
            !.compensate = IF IsRecordNewer(m.peer, T.recs[i])
                           THEN compensate ELSE @] = X
    BY <1>6, <2>2 DEF Node
  <2>4. UpdateMachineByPaxosCmd(i, S, m, pushed) = CountEmpty(i, X, m)
    BY <1>3, <1>8, <1>14, <2>3
  <2>5. /\ sync \in Acceptors \cup {NoPeer} /\ sync # i /\ comp \in BOOLEAN
    BY <1>1, <1>6, <1>7 DEF Node
  <2> HIDE DEF sync, comp
  <2>6. /\ X \in Node /\ X.op = "set" /\ X.recs = T.recs /\ X.client = T.client
        /\ X.loaded = S.loaded /\ X.max_chosen = S.max_chosen
        /\ X.max_cont = S.max_cont /\ X.max_plog = S.max_plog
        /\ X.active_peer = S.active_peer /\ X.waiting_msg = S.waiting_msg
        /\ X.mem = S.mem /\ X.old = S.old /\ X.peer_to_sync = sync
        /\ X.waiting_msgs = S.waiting_msgs /\ X.drain = S.drain
        /\ X.committing = S.committing /\ X.ok = S.ok /\ X.out = S.out
    BY <1>6, <1>7, <2>5, ZenonT(40) DEF Node
  <2> HIDE DEF X
  <2>7. X.recs[i].promised > 0
    <3>1. UpdateAccepts(T.recs[i])
      BY <1>6 DEF MachineInv, WellFormed
    <3>2. T.recs[i].promised # 0
      BY <1>9, <1>14, <3>1 DEF UpdateAccepts, IsValidRecord, IsRecordNewer, Record
    <3> QED
      BY <1>9, <2>6, <3>2 DEF Record
  <2>8. /\ MachineInv(i, X.recs) /\ Numbered(i, X) /\ X.peer_to_sync # i
        /\ Advance(S.recs[i], X.recs[i])
    BY <1>6, <1>10, <2>5, <2>6 DEF Numbered
  <2>9. Holds(i, X, r, f)
    BY <2>6, <2>7, <2>8, StoredHolds
  <2>10. Steady(S, X)
    BY <1>7, <2>6 DEF Steady
  <2>11. LET N == CountEmpty(i, X, m) IN Holds(i, N, r, f) /\ Steady(X, N)
    BY <2>9, CountEmptyHolds
  <2> QED
    BY <2>4, <2>10, <2>11, SteadyTrans
<1>15. CASE UpdateAccepts(m.local) /\ ~local_updated
  <2>1. T.recs[i] = S.recs[i]
    BY <1>10, <1>15
  <2>2. Shape(T)
    BY <1>1, <1>7 DEF Holds, Local, Shape
  <2>3. Parked(i, T) /\ Covered(i, T, r) /\ (f => Intact(i, T, r))
    BY <1>1, <1>7, <2>1 DEF Holds, Local, Parked, Covered, Intact
  <2>4. ChosenKnown(i, T) /\ Sent(i, T, r)
    BY <1>1, <1>7, <2>1 DEF Holds, ChosenKnown, Sent
  <2>5. Holds(i, T, r, f)
    BY <1>1, <1>6, <1>7, <2>2, <2>3, <2>4 DEF Holds, Local
  <2>6. LET N == CountEmpty(i, T, m) IN Holds(i, N, r, f) /\ Steady(T, N)
    BY <2>5, CountEmptyHolds
  <2>7. CASE need_sync
    <3> DEFINE V == SyncToPeers(i, T, {m.from})
    <3>1. {m.from} \in SUBSET Peers(i)
      BY <1>1 DEF Peers
    <3>2. Holds(i, V, r, f) /\ Steady(T, V)
      BY <1>7, <2>5, <3>1, SyncHolds
    <3>3. UpdateMachineByPaxosCmd(i, S, m, pushed) = CountEmpty(i, V, m)
      BY <1>3, <1>8, <1>15, <2>7
    <3> HIDE DEF V
    <3>4. LET N == CountEmpty(i, V, m) IN Holds(i, N, r, f) /\ Steady(V, N)
      BY <3>2, CountEmptyHolds
    <3> QED
      BY <1>11, <3>2, <3>3, <3>4, SteadyTrans
  <2>8. CASE ~need_sync /\ m.check_empty
    <3>1. m.peer = EmptyRecord
      BY <2>8 DEF MsgOK
    <3>2. IsLocalEmpty(i, T.recs)
      <4>1. ~T.recs[i].chosen /\ T.recs[i].promised = 0 /\ T.recs[i].prepared = 0
        BY <1>9, <2>8, <3>1 DEF IsRecordNewer, EmptyRecord, Record
      <4> QED
        BY <4>1 DEF IsLocalEmpty, entry_state
    <3>3. Check(T, IsLocalEmpty(i, T.recs)) = T
      BY <1>1, <1>6, <1>7, <3>2, CheckTrue DEF IsLocalEmpty
    <3>4. /\ SendBack(m) \in PaxosCmd /\ SendBack(m).from = i /\ SendBack(m).to # i
          /\ SendBack(m).local = EmptyRecord
      BY <3>1, SendBackFacts DEF MsgOK
    <3>5. /\ answer \in PaxosCmd /\ answer.from = i /\ answer.to # i
          /\ answer.local = EmptyRecord /\ ~answer.check_empty
      BY <3>4 DEF PaxosCmd
    <3>6. UpdateMachineByPaxosCmd(i, S, m, pushed) = Send(T, answer)
      BY <1>3, <1>8, <1>15, <2>8, <3>3
    <3> HIDE DEF answer
    <3>7. MaySend(i, answer, r)
      BY <3>5, EmptyNotNewer DEF MaySend, MsgOK
    <3>8. Holds(i, Send(T, answer), r, f) /\ Steady(T, Send(T, answer))
      BY <2>5, <3>5, <3>7, SendOneHolds
    <3> QED
      BY <1>11, <3>6, <3>8, SteadyTrans
  <2>9. CASE ~need_sync /\ ~m.check_empty
    <3>1. UpdateMachineByPaxosCmd(i, S, m, pushed) = CountEmpty(i, T, m)
      BY <1>3, <1>8, <1>15, <2>9
    <3> QED
      BY <1>11, <2>6, <3>1, SteadyTrans
  <2> QED
    BY <2>7, <2>8, <2>9
<1> QED
  BY <1>12, <1>13, <1>14, <1>15

(* A message waits for the entry.                                          *)
LEMMA ParkHolds ==
    ASSUME NEW i \in Acceptors, NEW S, NEW r, NEW f, Holds(i, S, r, f),
           NEW c \in PaxosCmd, MsgOK(i, c), NEW a \in Acceptors
    PROVE  LET T == [S EXCEPT !.waiting_msgs = [S.waiting_msgs EXCEPT ![a] = {c}]] IN
           Holds(i, T, r, f) /\ Steady(S, T)
<1> DEFINE w == [S.waiting_msgs EXCEPT ![a] = {c}]
           T == [S EXCEPT !.waiting_msgs = w]
<1>1. S \in Node /\ S.waiting_msgs \in [Acceptors -> Waiting] /\ {c} \in Waiting
  BY NodeFields DEF Holds, Waiting
<1>2. w \in [Acceptors -> Waiting] /\ \A b \in Acceptors : \A m \in w[b] : MsgOK(i, m)
  BY <1>1 DEF Holds, Local, Parked
<1> HIDE DEF w
<1>3. /\ T \in Node /\ T.waiting_msgs = w
      /\ T.loaded = S.loaded /\ T.op = S.op /\ T.max_chosen = S.max_chosen
      /\ T.max_cont = S.max_cont /\ T.max_plog = S.max_plog
      /\ T.active_peer = S.active_peer /\ T.waiting_msg = S.waiting_msg
      /\ T.mem = S.mem /\ T.old = S.old /\ T.recs = S.recs
      /\ T.peer_to_sync = S.peer_to_sync /\ T.client = S.client
      /\ T.drain = S.drain /\ T.committing = S.committing /\ T.ok = S.ok
      /\ T.out = S.out /\ T.broadcast = S.broadcast
  BY <1>1, <1>2 DEF Node
<1> HIDE DEF T
<1>4. Shape(T) /\ Parked(i, T) /\ Covered(i, T, r) /\ (f => Intact(i, T, r))
  BY <1>2, <1>3 DEF Holds, Local, Shape, Parked, Covered, Intact
<1>5. Numbered(i, T) /\ ChosenKnown(i, T) /\ Sent(i, T, r) /\ Steady(S, T)
  BY <1>3 DEF Holds, Local, Numbered, ChosenKnown, Sent, Steady
<1>6. Holds(i, T, r, f) /\ Steady(S, T)
  BY <1>3, <1>4, <1>5 DEF Holds, Local
<1> QED
  BY <1>6 DEF T, w

LEMMA HandleLoadedHolds ==
    ASSUME NEW i \in Acceptors, NEW S, NEW r \in Record, NEW f \in BOOLEAN,
           Holds(i, S, r, f), S.loaded, S.op # "load", NEW m \in PaxosCmd, MsgOK(i, m),
           NEW pushed \in BOOLEAN, f => pushed, NEW cu
    PROVE  LET N == HandleLoadedPaxosCmd(i, S, m, r, pushed, cu) IN
           Holds(i, N, r, f) /\ Steady(S, N)
<1> DEFINE N == HandleLoadedPaxosCmd(i, S, m, r, pushed, cu)
           L == LearnMaxChosen(S, m)
           mine == L.client.kind # "none" /\ L.client.uuid = m.uuid
           T == CreateEntryInfoIfMiss(L, pushed)
           c == RestoreValue(T, m)
           P == [T EXCEPT !.waiting_msgs = [T.waiting_msgs EXCEPT ![m.from] = {c}]]
           C == Check(T, ~T.broadcast /\ T.peer_to_sync = NoPeer)
           M == UpdateMachineByPaxosCmd(i, C, c, pushed)
<1>1. Holds(i, L, r, f) /\ Steady(S, L) /\ L.op = S.op
  BY LearnHolds
<1>2. N = IF m.check_empty /\ Entry <= L.max_chosen THEN FastFail(L, m)
          ELSE IF m.fast_failed
          THEN TryCatchup(i, IF mine THEN FinishErr(L) ELSE L, pushed, cu)
          ELSE IF LocalChosen(i, L) THEN HandleIfLocalChosen(i, L, m, r)
          ELSE IF ~T.mem THEN L
          ELSE IF uncertain(T) THEN P
          ELSE TryCatchup(i, M, pushed, cu)
  <2> HIDE DEF L
  <2>1. P = [T EXCEPT !.waiting_msgs = [@ EXCEPT ![m.from] = {c}]]
    OBVIOUS
  <2> HIDE DEF P
  <2> QED
    BY <2>1 DEF HandleLoadedPaxosCmd, EntryInfoAvailable, L
<1> HIDE DEF L
<1>3. L \in Node /\ L.loaded /\ L.op # "load" /\ m.from \in Acceptors
  BY <1>1 DEF Holds, Steady, PaxosCmd
<1>4. CASE m.check_empty /\ Entry <= L.max_chosen
  <2>1. Holds(i, FastFail(L, m), r, f) /\ Steady(L, FastFail(L, m))
    BY <1>1, <1>4, FastFailHolds
  <2> HIDE DEF N
  <2>2. N = FastFail(L, m)
    BY <1>2, <1>4
  <2> QED
    BY <1>1, <2>1, <2>2, SteadyTrans DEF N
<1>5. CASE ~(m.check_empty /\ Entry <= L.max_chosen) /\ m.fast_failed
  <2> DEFINE F == IF mine THEN FinishErr(L) ELSE L
  <2>1. Holds(i, F, r, f) /\ Steady(S, F)
    <3>1. Holds(i, FinishErr(L), r, f) /\ Steady(L, FinishErr(L))
      BY <1>1, FinishHolds
    <3>2. CASE mine
      BY <1>1, <3>1, <3>2, SteadyTrans
    <3>3. CASE ~mine
      BY <1>1, <3>3
    <3> QED
      BY <3>2, <3>3
  <2> HIDE DEF N
  <2>2. N = TryCatchup(i, F, pushed, cu)
    BY <1>2, <1>5
  <2> HIDE DEF F
  <2>3. F.loaded /\ F.op # "load"
    BY <2>1 DEF Steady
  <2>4. LET U == TryCatchup(i, F, pushed, cu) IN Holds(i, U, r, f) /\ Steady(F, U)
    BY <2>1, <2>3, TryCatchupHolds
  <2> QED
    BY <2>1, <2>2, <2>4, SteadyTrans DEF N
<1>6. CASE /\ ~(m.check_empty /\ Entry <= L.max_chosen) /\ ~m.fast_failed
           /\ LocalChosen(i, L)
  <2>1. LET U == HandleIfLocalChosen(i, L, m, r) IN Holds(i, U, r, f) /\ Steady(L, U)
    BY <1>1, LocalChosenHolds
  <2> HIDE DEF N
  <2>2. N = HandleIfLocalChosen(i, L, m, r)
    BY <1>2, <1>6
  <2> QED
    BY <1>1, <2>1, <2>2, SteadyTrans DEF N
<1>7. CASE /\ ~(m.check_empty /\ Entry <= L.max_chosen) /\ ~m.fast_failed
           /\ ~LocalChosen(i, L)
  <2>1. L.max_cont = 0
    BY <1>3, <1>7, EntryNumbers DEF LocalChosen, Node
  <2>2. /\ Holds(i, T, r, f) /\ Steady(L, T) /\ T.max_cont = 0
    BY <1>1, <1>3, <2>1, CreateHolds
  <2> HIDE DEF T, N
  <2>3. T \in Node /\ T.loaded /\ T.op # "load" /\ Steady(S, T)
    BY <1>1, <1>3, <2>2, SteadyTrans DEF Holds, Steady
  <2>4. c \in PaxosCmd /\ MsgOK(i, c)
    BY <2>3, RestoredOK
  <2> HIDE DEF c
  <2>5. CASE ~T.mem
    <3>1. N = L
      BY <1>2, <1>7, <2>5
    <3> QED
      BY <1>1, <3>1 DEF N
  <2>6. CASE T.mem /\ uncertain(T)
    <3>1. N = P
      BY <1>2, <1>7, <2>6
    <3>2. Holds(i, P, r, f) /\ Steady(T, P)
      BY <1>3, <2>2, <2>4, ParkHolds
    <3> HIDE DEF P
    <3> QED
      BY <2>3, <3>1, <3>2, SteadyTrans DEF N
  <2>7. CASE T.mem /\ ~uncertain(T)
    <3>1. T.op = "none"
      BY <2>3, <2>7 DEF uncertain, Node
    <3>2. C = T
      BY <2>2, <2>3, <3>1, CheckTrue DEF Holds, Local, Shape
    <3>3. N = TryCatchup(i, M, pushed, cu)
      BY <1>2, <1>7, <2>7
    <3>4. M = UpdateMachineByPaxosCmd(i, T, c, pushed)
      BY <3>2
    <3> HIDE DEF M
    <3>5. Holds(i, M, r, f) /\ Steady(T, M)
      BY <2>2, <2>4, <2>7, <3>1, <3>4, UpdateMachineHolds
    <3>6. M.loaded /\ M.op # "load"
      BY <2>3, <3>5 DEF Steady
    <3>7. LET U == TryCatchup(i, M, pushed, cu) IN Holds(i, U, r, f) /\ Steady(M, U)
      BY <3>5, <3>6, TryCatchupHolds
    <3> QED
      BY <2>3, <3>3, <3>5, <3>7, SteadyTrans DEF N
  <2> QED
    BY <2>5, <2>6, <2>7
<1> QED
  BY <1>4, <1>5, <1>6, <1>7

LEMMA HandlePaxosCmdHolds ==
    ASSUME NEW i \in Acceptors, NEW S, NEW r \in Record, NEW f \in BOOLEAN,
           Holds(i, S, r, f), Settled(S), S.drain = "no", NEW m \in PaxosCmd, MsgOK(i, m),
           NEW pushed \in BOOLEAN, f => pushed, NEW cu
    PROVE  LET N == HandlePaxosCmd(i, S, m, r, pushed, cu) IN
           Holds(i, N, r, f) /\ Settled(N)
<1> DEFINE A == [S EXCEPT !.loaded = TRUE, !.op = "load", !.waiting_msg = {m}]
           B == [S EXCEPT !.waiting_msg = {m}]
<1>1. S \in Node /\ {m} \in Waiting
  BY DEF Holds, Waiting
<1>2. HandlePaxosCmd(i, S, m, r, pushed, cu) =
          IF ~S.loaded THEN IF pushed THEN A ELSE S
          ELSE IF loading(S) THEN B ELSE HandleLoadedPaxosCmd(i, S, m, r, pushed, cu)
  BY DEF HandlePaxosCmd
<1>3. CASE ~S.loaded
  <2>1. /\ A \in Node /\ A.client = S.client /\ A.waiting_msg = {m}
        /\ A.loaded /\ A.op = "load" /\ A.max_chosen = S.max_chosen
        /\ A.max_cont = S.max_cont /\ A.max_plog = S.max_plog
        /\ A.active_peer = S.active_peer
        /\ A.mem = S.mem /\ A.old = S.old /\ A.recs = S.recs
        /\ A.peer_to_sync = S.peer_to_sync /\ A.waiting_msgs = S.waiting_msgs
        /\ A.drain = S.drain /\ A.committing = S.committing /\ A.ok = S.ok
        /\ A.out = S.out /\ A.broadcast = S.broadcast
    BY <1>1 DEF Node
  <2> HIDE DEF A
  <2>2. /\ ~S.mem /\ S.op = "none" /\ S.max_cont = 0
        /\ S.max_plog = 0 /\ S.max_chosen = 0
    BY <1>3 DEF Holds, Local, Shape
  <2>3. Shape(A)
    BY <2>1, <2>2, EntryNumbers DEF Holds, Local, Shape
  <2>4. Parked(i, A) /\ Covered(i, A, r) /\ Numbered(i, A) /\ (f => Intact(i, A, r))
    BY <1>3, <2>1, <2>2, EntryNumbers
    DEF Holds, Local, Parked, Covered, Numbered, Intact
  <2>5. Holds(i, A, r, f) /\ Settled(A)
    BY <2>1, <2>2, <2>3, <2>4 DEF Holds, Local, Sent, ChosenKnown, Settled
  <2> QED
    BY <1>2, <1>3, <2>5
<1>4. CASE S.loaded /\ loading(S)
  <2>1. /\ B \in Node /\ B.client = S.client /\ B.waiting_msg = {m}
        /\ B.loaded = S.loaded /\ B.op = S.op /\ B.max_chosen = S.max_chosen
        /\ B.max_cont = S.max_cont /\ B.max_plog = S.max_plog
        /\ B.active_peer = S.active_peer
        /\ B.mem = S.mem /\ B.old = S.old /\ B.recs = S.recs
        /\ B.peer_to_sync = S.peer_to_sync /\ B.waiting_msgs = S.waiting_msgs
        /\ B.drain = S.drain /\ B.committing = S.committing /\ B.ok = S.ok
        /\ B.out = S.out /\ B.broadcast = S.broadcast
    BY <1>1 DEF Node
  <2> HIDE DEF B
  <2>2. Shape(B) /\ Parked(i, B) /\ Covered(i, B, r) /\ (f => Intact(i, B, r))
    BY <2>1 DEF Holds, Local, Shape, Parked, Covered, Intact
  <2>3. Numbered(i, B) /\ ChosenKnown(i, B) /\ Sent(i, B, r) /\ Settled(B)
    BY <2>1 DEF Holds, Local, Numbered, ChosenKnown, Sent, Settled
  <2>4. Holds(i, B, r, f)
    BY <2>1, <2>2, <2>3 DEF Holds, Local
  <2> QED
    BY <1>2, <1>4, <2>3, <2>4
<1>5. CASE S.loaded /\ ~loading(S)
  <2> DEFINE N == HandleLoadedPaxosCmd(i, S, m, r, pushed, cu)
  <2>1. Holds(i, N, r, f) /\ Steady(S, N)
    BY <1>5, HandleLoadedHolds DEF loading
  <2>2. Settled(N)
    BY <1>5, <2>1 DEF Settled, Steady, loading
  <2> QED
    BY <1>2, <1>5, <2>1, <2>2
<1> QED
  BY <1>3, <1>4, <1>5

-----------------------------------------------------------------------------
(* The loop of HandleWaitingMsg and the responses of the PlogWorker.       *)

LEMMA DrainHolds ==
    ASSUME NEW i \in Acceptors, NEW S, NEW r, NEW f, Holds(i, S, r, f),
           S.loaded, S.op # "load", NEW d \in {"no", "get", "set"}
    PROVE  LET T == [S EXCEPT !.drain = d] IN
           /\ Holds(i, T, r, f) /\ T.loaded /\ T.op # "load" /\ T.drain = d
           /\ Settled(S) => Settled(T)
<1> DEFINE T == [S EXCEPT !.drain = d]
<1>1. /\ T \in Node /\ T.drain = d /\ T.client = S.client
      /\ T.loaded = S.loaded /\ T.op = S.op /\ T.max_chosen = S.max_chosen
      /\ T.max_cont = S.max_cont /\ T.max_plog = S.max_plog
      /\ T.active_peer = S.active_peer /\ T.waiting_msg = S.waiting_msg
      /\ T.mem = S.mem /\ T.old = S.old /\ T.recs = S.recs
      /\ T.peer_to_sync = S.peer_to_sync /\ T.waiting_msgs = S.waiting_msgs
      /\ T.committing = S.committing /\ T.ok = S.ok
      /\ T.out = S.out /\ T.broadcast = S.broadcast
  BY DEF Holds, Node
<1> HIDE DEF T
<1>2. Shape(T) /\ Parked(i, T) /\ Covered(i, T, r) /\ (f => Intact(i, T, r))
  BY <1>1 DEF Holds, Local, Shape, Parked, Covered, Intact
<1>3. /\ Numbered(i, T) /\ ChosenKnown(i, T) /\ Sent(i, T, r)
      /\ Settled(S) => Settled(T)
  BY <1>1 DEF Holds, Local, Numbered, ChosenKnown, Sent, Settled
<1>4. Holds(i, T, r, f)
  BY <1>1, <1>2, <1>3 DEF Holds, Local
<1> QED
  BY <1>1, <1>3, <1>4 DEF T

LEMMA SteadySettled ==
    ASSUME NEW S, NEW T, Steady(S, T), Settled(S), S.op # "load"
    PROVE  Settled(T)
BY DEF Steady, Settled

LEMMA EndOfLoopHolds ==
    ASSUME NEW i \in Acceptors, NEW S, NEW r \in Record, NEW f, Holds(i, S, r, f),
           S.loaded, S.op # "load", Settled(S), NEW pushed \in BOOLEAN, NEW cu
    PROVE  LET N == EndOfLoop(i, S, pushed, cu) IN Holds(i, N, r, f) /\ Settled(N)
<1> DEFINE T == [S EXCEPT !.drain = "no"]
<1>1. Holds(i, T, r, f) /\ T.loaded /\ T.op # "load" /\ Settled(T)
  BY DrainHolds
<1>2. EndOfLoop(i, S, pushed, cu) =
          IF S.drain # "no" /\ S.mem /\ ~uncertain(S) /\ S.waiting_msgs # NoWaiting
          THEN S
          ELSE IF S.drain = "get" THEN TryCatchup(i, T, pushed, cu) ELSE T
  BY DEF EndOfLoop
<1> HIDE DEF T
<1>3. LET U == TryCatchup(i, T, pushed, cu) IN Holds(i, U, r, f) /\ Steady(T, U)
  BY <1>1, TryCatchupHolds
<1>4. Settled(TryCatchup(i, T, pushed, cu))
  BY <1>1, <1>3, SteadySettled
<1> QED
  BY <1>1, <1>2, <1>3, <1>4

(* The next message that waits leaves the queue.                           *)
LEMMA UnparkHolds ==
    ASSUME NEW i \in Acceptors, NEW S, NEW r, NEW f, Holds(i, S, r, f),
           NEW a \in Acceptors
    PROVE  LET T == [S EXCEPT !.waiting_msgs = [S.waiting_msgs EXCEPT ![a] = {}]] IN
           Holds(i, T, r, f) /\ Steady(S, T)
<1> DEFINE w == [S.waiting_msgs EXCEPT ![a] = {}]
           T == [S EXCEPT !.waiting_msgs = w]
<1>1. S \in Node /\ S.waiting_msgs \in [Acceptors -> Waiting] /\ {} \in Waiting
  BY NodeFields DEF Holds, Waiting
<1>2. w \in [Acceptors -> Waiting] /\ \A b \in Acceptors : \A m \in w[b] : MsgOK(i, m)
  BY <1>1 DEF Holds, Local, Parked
<1> HIDE DEF w
<1>3. /\ T \in Node /\ T.waiting_msgs = w
      /\ T.loaded = S.loaded /\ T.op = S.op /\ T.max_chosen = S.max_chosen
      /\ T.max_cont = S.max_cont /\ T.max_plog = S.max_plog
      /\ T.active_peer = S.active_peer /\ T.waiting_msg = S.waiting_msg
      /\ T.mem = S.mem /\ T.old = S.old /\ T.recs = S.recs
      /\ T.peer_to_sync = S.peer_to_sync /\ T.client = S.client
      /\ T.drain = S.drain /\ T.committing = S.committing /\ T.ok = S.ok
      /\ T.out = S.out /\ T.broadcast = S.broadcast
  BY <1>1, <1>2 DEF Node
<1> HIDE DEF T
<1>4. Shape(T) /\ Parked(i, T) /\ Covered(i, T, r) /\ (f => Intact(i, T, r))
  BY <1>2, <1>3 DEF Holds, Local, Shape, Parked, Covered, Intact
<1>5. Numbered(i, T) /\ ChosenKnown(i, T) /\ Sent(i, T, r) /\ Steady(S, T)
  BY <1>3 DEF Holds, Local, Numbered, ChosenKnown, Sent, Steady
<1>6. Holds(i, T, r, f) /\ Steady(S, T)
  BY <1>3, <1>4, <1>5 DEF Holds, Local
<1> QED
  BY <1>6 DEF T, w

LEMMA HandleWaitingMsgHolds ==
    ASSUME NEW i \in Acceptors, NEW S, NEW r \in Record, NEW f \in BOOLEAN,
           Holds(i, S, r, f), Settled(S), S.drain # "no", S.waiting_msgs # NoWaiting,
           NEW pushed \in BOOLEAN, f => pushed, NEW cu
    PROVE  LET N == HandleWaitingMsg(i, S, r, pushed, cu) IN
           Holds(i, N, r, f) /\ Settled(N)
<1> DEFINE full == {a \in Acceptors : S.waiting_msgs[a] # {}}
           a == NextWaiting(S)
           m == CHOOSE x \in S.waiting_msgs[a] : TRUE
           T == [S EXCEPT !.waiting_msgs = [S.waiting_msgs EXCEPT ![a] = {}]]
           H == HandleLoadedPaxosCmd(i, T, m, r, pushed, cu)
<1>1. /\ S \in Node /\ S.waiting_msgs \in [Acceptors -> Waiting]
      /\ S.loaded /\ S.op # "load"
  BY NodeFields DEF Holds, Local, Shape
<1>2. full # {}
  BY <1>1 DEF NoWaiting
<1>3. a \in Acceptors /\ S.waiting_msgs[a] # {}
  <2>1. \E b \in full : \A c \in full : b <= c
    BY <1>2, FirstAcceptor
  <2>2. NextWaiting(S) = CHOOSE b \in Acceptors :
              /\ S.waiting_msgs[b] # {}
              /\ \A c \in Acceptors : S.waiting_msgs[c] # {} => b <= c
    BY DEF NextWaiting
  <2> QED
    BY <2>1, <2>2
<1>4. HandleWaitingMsg(i, S, r, pushed, cu) = EndOfLoop(i, H, pushed, cu)
  <2>1. T = [S EXCEPT !.waiting_msgs = [@ EXCEPT ![a] = {}]]
    OBVIOUS
  <2> HIDE DEF T
  <2> QED
    BY <2>1 DEF HandleWaitingMsg
<1> HIDE DEF a
<1>5. m \in PaxosCmd /\ MsgOK(i, m)
  <2>1. m \in S.waiting_msgs[a]
    BY <1>3
  <2> QED
    BY <1>1, <1>3, <2>1 DEF Holds, Local, Parked, Waiting
<1> HIDE DEF m
<1>6. Holds(i, T, r, f) /\ Steady(S, T)
  BY <1>3, UnparkHolds
<1> HIDE DEF T
<1>7. T.loaded /\ T.op # "load"
  BY <1>1, <1>6 DEF Steady
<1>8. Holds(i, H, r, f) /\ Steady(T, H)
  BY <1>5, <1>6, <1>7, HandleLoadedHolds
<1> HIDE DEF H
<1>9. Steady(S, H) /\ H.loaded /\ H.op # "load"
  BY <1>6, <1>7, <1>8, SteadyTrans DEF Steady
<1>10. Settled(H)
  BY <1>1, <1>9, SteadySettled
<1>11. LET N == EndOfLoop(i, H, pushed, cu) IN Holds(i, N, r, f) /\ Settled(N)
  BY <1>8, <1>9, <1>10, EndOfLoopHolds
<1> QED
  BY <1>4, <1>11

LEMMA SelfNotNewer ==
    ASSUME NEW r \in Record
    PROVE  ~IsRecordNewer(r, r)
BY DEF IsRecordNewer, Record

(* The record that was read becomes the own record of the machine.         *)
RecordRead(i, S, r) ==
    LET U == [S EXCEPT !.op = "none"]
        V == [U EXCEPT !.recs = Update(i, i, U.recs, r)]
    IN [UpdateByChosenEntry(i, V) EXCEPT !.drain = "get"]

LEMMA RecordReadHolds ==
    ASSUME NEW i \in Acceptors, NEW S, NEW r \in Record, NEW f \in BOOLEAN,
           Holds(i, S, r, f), Settled(S), S.op = "get"
    PROVE  LET X == RecordRead(i, S, r) IN
           Holds(i, X, r, f) /\ X.loaded /\ X.op # "load" /\ Settled(X)
<1> DEFINE U == [S EXCEPT !.op = "none"]
           q == Update(i, i, U.recs, r)
           V == [U EXCEPT !.recs = q]
           C == UpdateByChosenEntry(i, V)
           X == [C EXCEPT !.drain = "get"]
<1>1. /\ S \in Node /\ S.loaded /\ S.mem /\ S.max_cont = 0 /\ S.max_plog = Entry
      /\ S.recs = NewMachine /\ ~S.broadcast /\ S.peer_to_sync = NoPeer
      /\ UpdateAccepts(r) /\ r.promised > 0 /\ S.ok
  BY DEF Holds, Local, Shape, Covered
<1>2. /\ U \in Node /\ U.op = "none" /\ U.client = S.client
      /\ U.loaded = S.loaded /\ U.max_chosen = S.max_chosen
      /\ U.max_cont = S.max_cont /\ U.max_plog = S.max_plog
      /\ U.active_peer = S.active_peer /\ U.waiting_msg = S.waiting_msg
      /\ U.mem = S.mem /\ U.old = S.old /\ U.recs = S.recs
      /\ U.peer_to_sync = S.peer_to_sync /\ U.waiting_msgs = S.waiting_msgs
      /\ U.drain = S.drain /\ U.committing = S.committing /\ U.ok = S.ok
      /\ U.out = S.out /\ U.broadcast = S.broadcast
  BY <1>1, ZenonT(40) DEF Node
<1>3. S.client.kind = "none" \/ S.client.value_id # 0
  BY <1>1, EntryNumbers DEF Settled
<1> HIDE DEF U
<1>4. q \in Machine /\ MachineInv(i, q) /\ q[i] = r
  BY <1>1, <1>2, LoadFacts
<1> HIDE DEF q
<1>5. /\ V \in Node /\ V.op = "none" /\ V.client = S.client
      /\ V.loaded = S.loaded /\ V.max_chosen = S.max_chosen
      /\ V.max_cont = S.max_cont /\ V.max_plog = S.max_plog
      /\ V.active_peer = S.active_peer /\ V.waiting_msg = S.waiting_msg
      /\ V.mem = S.mem /\ V.old = S.old /\ V.recs = q
      /\ V.peer_to_sync = S.peer_to_sync /\ V.waiting_msgs = S.waiting_msgs
      /\ V.drain = S.drain /\ V.committing = S.committing /\ V.ok = S.ok
      /\ V.out = S.out /\ V.broadcast = S.broadcast
  BY <1>2, <1>4 DEF Node
<1> HIDE DEF V
<1>6. Shape(V)
  BY <1>1, <1>5 DEF Holds, Local, Shape
<1>7. Parked(i, V) /\ Numbered(i, V) /\ Sent(i, V, r)
  BY <1>3, <1>5 DEF Holds, Local, Parked, Numbered, Sent
<1>8. Covered(i, V, r)
  BY <1>1, <1>4, <1>5, SelfNotNewer DEF Covered
<1>9. f => Intact(i, V, r)
  BY <1>1, <1>4, <1>5, EntryNumbers DEF Holds, Local, Intact
<1>10. Local(i, V, r, f)
  BY <1>1, <1>4, <1>5, <1>6, <1>7, <1>8, <1>9 DEF Local
<1>11. Holds(i, C, r, f) /\ Steady(V, C) /\ C.op = "none"
  BY <1>1, <1>5, <1>7, <1>10, UpdateByChosenHolds
<1> HIDE DEF C
<1>12. C.loaded /\ C.op # "load" /\ Settled(C)
  BY <1>1, <1>3, <1>5, <1>11 DEF Steady, Settled
<1>13. Holds(i, X, r, f) /\ X.loaded /\ X.op # "load" /\ Settled(X)
  BY <1>11, <1>12, DrainHolds
<1> QED
  BY <1>13 DEF RecordRead, U, V, C, q, X

LEMMA HandleGetHolds ==
    ASSUME NEW i \in Acceptors, NEW S, NEW r \in Record, NEW f \in BOOLEAN,
           Holds(i, S, r, f), Settled(S), S.op = "get", NEW success \in BOOLEAN,
           NEW pushed \in BOOLEAN, f => success, NEW cu
    PROVE  LET N == HandleGetFromPlog(i, S, r, success, pushed, cu) IN
           Holds(i, N, r, f) /\ Settled(N)
<1> DEFINE U == [S EXCEPT !.op = "none"]
           X == RecordRead(i, S, r)
<1>1. /\ S \in Node /\ S.loaded /\ S.mem /\ S.max_cont = 0 /\ S.max_plog = Entry
      /\ S.recs = NewMachine /\ ~S.broadcast /\ S.peer_to_sync = NoPeer
      /\ UpdateAccepts(r) /\ r.promised > 0 /\ S.ok
  BY DEF Holds, Local, Shape, Covered
<1>2. HandleGetFromPlog(i, S, r, success, pushed, cu) =
          IF ~success THEN ClearEntryInfo(U) ELSE EndOfLoop(i, X, pushed, cu)
  BY <1>1 DEF HandleGetFromPlog, RecordRead
<1>3. /\ U \in Node /\ U.op = "none" /\ U.client = S.client
      /\ U.loaded = S.loaded /\ U.max_chosen = S.max_chosen
      /\ U.max_cont = S.max_cont /\ U.max_plog = S.max_plog
      /\ U.active_peer = S.active_peer /\ U.waiting_msg = S.waiting_msg
      /\ U.mem = S.mem /\ U.old = S.old /\ U.recs = S.recs
      /\ U.peer_to_sync = S.peer_to_sync /\ U.waiting_msgs = S.waiting_msgs
      /\ U.drain = S.drain /\ U.committing = S.committing /\ U.ok = S.ok
      /\ U.out = S.out /\ U.broadcast = S.broadcast
  BY <1>1, ZenonT(40) DEF Node
<1>4. S.client.kind = "none" \/ S.client.value_id # 0
  BY <1>1, EntryNumbers DEF Settled
<1> HIDE DEF U
<1>5. CASE ~success
  <2>1. /\ U.ok /\ U.loaded /\ (U.max_cont = Entry => U.max_chosen = Entry)
        /\ U.active_peer # i /\ \A m \in U.waiting_msg : MsgOK(i, m)
        /\ Sent(i, U, r)
    BY <1>3 DEF Holds, Local, Shape, Parked, Sent
  <2>2. Holds(i, ClearEntryInfo(U), r, FALSE) /\ Steady(U, ClearEntryInfo(U))
    BY <1>1, <1>3, <2>1, ClearHolds
  <2>3. Settled(ClearEntryInfo(U))
    BY <1>3, <1>4, <2>2 DEF Settled, Steady
  <2>4. f = FALSE
    BY <1>5
  <2> QED
    BY <1>2, <1>5, <2>2, <2>3, <2>4
<1>6. CASE success
  <2>1. Holds(i, X, r, f) /\ X.loaded /\ X.op # "load" /\ Settled(X)
    BY RecordReadHolds
  <2>2. LET N == EndOfLoop(i, X, pushed, cu) IN Holds(i, N, r, f) /\ Settled(N)
    BY <2>1, EndOfLoopHolds
  <2> QED
    BY <1>2, <1>6, <2>2
<1> QED
  BY <1>5, <1>6

(* HandleSetFromPlog resets what it was asked to send after the sending;   *)
(* resetting it before makes no difference.                                *)
Reset(S) == [S EXCEPT !.broadcast = FALSE, !.compensate = FALSE, !.peer_to_sync = NoPeer]

LEMMA ResetFields ==
    ASSUME NEW S \in Node
    PROVE  LET K == Reset(S) IN
           /\ K \in Node /\ K.client = S.client /\ K.op = S.op
           /\ K.loaded = S.loaded /\ K.max_chosen = S.max_chosen
           /\ K.max_cont = S.max_cont /\ K.max_plog = S.max_plog
           /\ K.active_peer = S.active_peer /\ K.waiting_msg = S.waiting_msg
           /\ K.mem = S.mem /\ K.old = S.old /\ K.recs = S.recs
           /\ K.waiting_msgs = S.waiting_msgs /\ K.pre_auth = S.pre_auth
           /\ K.drain = S.drain /\ K.committing = S.committing /\ K.ok = S.ok
           /\ K.out = S.out /\ ~K.broadcast /\ K.peer_to_sync = NoPeer
BY DEF Reset, Node

LEMMA ResetUpdate ==
    ASSUME NEW i \in Acceptors, NEW S \in Node
    PROVE  UpdateByChosenEntry(i, Reset(S)) = Reset(UpdateByChosenEntry(i, S))
<1> DEFINE next == S.max_cont + 1 = Entry
           auth == IF HasAcceptedMyProposal(i, S.recs, i) THEN Entry ELSE S.pre_auth
           old == S.old \/ next
           committing == S.committing \/ next
           chosen(Z) == [Z EXCEPT !.max_chosen = Entry, !.pre_auth = auth,
                                  !.max_cont = Entry, !.old = old,
                                  !.committing = committing]
<1>1. /\ Reset(S).recs = S.recs /\ Reset(S).max_cont = S.max_cont /\ Reset(S) \in Node
      /\ Reset(S).pre_auth = S.pre_auth /\ Reset(S).old = S.old
      /\ Reset(S).committing = S.committing
  BY ResetFields
<1>2. UpdateByChosenEntry(i, S) = IF state(i, S) # "Chosen" THEN S ELSE chosen(S)
  BY DEF UpdateByChosenEntry
<1>3. state(i, Reset(S)) = state(i, S)
  BY <1>1 DEF state
<1>4. UpdateByChosenEntry(i, Reset(S)) =
          IF state(i, S) # "Chosen" THEN Reset(S) ELSE chosen(Reset(S))
  <2> DEFINE K == Reset(S)
             kauth == IF HasAcceptedMyProposal(i, K.recs, i) THEN Entry ELSE K.pre_auth
             kold == K.old \/ K.max_cont + 1 = Entry
             kcom == K.committing \/ K.max_cont + 1 = Entry
  <2>1. UpdateByChosenEntry(i, K) =
            IF state(i, K) # "Chosen" THEN K
            ELSE [K EXCEPT !.max_chosen = Entry, !.pre_auth = kauth,
                           !.max_cont = Entry, !.old = kold, !.committing = kcom]
    BY DEF UpdateByChosenEntry
  <2>2. kauth = auth /\ kold = old /\ kcom = committing /\ state(i, K) = state(i, S)
    BY <1>1, <1>3
  <2> HIDE DEF K, kauth, kold, kcom, auth, old, committing
  <2> QED
    BY <2>1, <2>2 DEF K
<1>5. chosen(Reset(S)) = Reset(chosen(S))
  <2> HIDE DEF auth, old, committing
  <2> QED
    BY DEF Reset, Node
<1> HIDE DEF chosen
<1> QED
  BY <1>2, <1>4, <1>5

LEMMA ResetFinish ==
    ASSUME NEW i \in Acceptors, NEW S \in Node
    PROVE  FinishIfChosen(i, Reset(S)) = Reset(FinishIfChosen(i, S))
<1>1. Reset(S).recs = S.recs /\ Reset(S).client = S.client
  BY ResetFields
<1>2. FinishOk(Reset(S)) = Reset(FinishOk(S))
  BY DEF FinishOk, Reset, Node
<1> QED
  BY <1>1, <1>2 DEF FinishIfChosen, state

LEMMA ResetSync ==
    ASSUME NEW i \in Acceptors, NEW S \in Node, NEW P
    PROVE  SyncToPeers(i, Reset(S), P) = Reset(SyncToPeers(i, S, P))
<1> DEFINE M == {RemoveValueInRecord(SyncMsg(i, S, p)) : p \in P}
           K == Reset(S)
<1>1. K.recs = S.recs /\ K.max_chosen = S.max_chosen /\ K.out = S.out
  BY ResetFields
<1>2. \A p : SyncMsg(i, K, p) = SyncMsg(i, S, p)
  <2> HIDE DEF K
  <2> QED
    BY <1>1 DEF SyncMsg
<1>3. {RemoveValueInRecord(SyncMsg(i, K, p)) : p \in P} = M
  <2> HIDE DEF K
  <2> QED
    BY <1>2
<1>4. SyncToPeers(i, S, P) = [S EXCEPT !.out = S.out \cup M]
  BY DEF SyncToPeers
<1>5. SyncToPeers(i, K, P) = [K EXCEPT !.out = S.out \cup M]
  <2> HIDE DEF K, M
  <2> QED
    BY <1>1, <1>3 DEF SyncToPeers
<1> HIDE DEF M
<1> QED
  BY <1>4, <1>5 DEF Reset, Node

(* What HandleSetFromPlog sends are records of the machine.                *)
LEMMA SyncPersistentFacts ==
    ASSUME NEW i \in Acceptors, NEW S \in Node, S.broadcast \/ S.peer_to_sync # NoPeer,
           S.peer_to_sync # i
    PROVE  \E P \in SUBSET Peers(i) : SyncPersistent(i, S) = SyncToPeers(i, S, P)
<1> DEFINE A == {p \in Peers(i) :
                   p = S.peer_to_sync \/ HasPromisedMyProposal(i, S.recs, p)}
           C == {p \in Peers(i) :
                   /\ ~S.recs[p].chosen
                   /\ p = S.peer_to_sync \/ HasAcceptedMyProposal(i, S.recs, p)}
<1>1. BroadcastOnAccept(i, S) = SyncToPeers(i, S, A) /\ A \in SUBSET Peers(i)
  BY DEF BroadcastOnAccept
<1>2. BroadcastOnChosen(i, S) = SyncToPeers(i, S, C) /\ C \in SUBSET Peers(i)
  BY DEF BroadcastOnChosen
<1>3. Broadcast(i, S) = SyncToPeers(i, S, Peers(i)) /\ Peers(i) \in SUBSET Peers(i)
  BY DEF Broadcast
<1>4. S = SyncToPeers(i, S, {}) /\ {} \in SUBSET Peers(i)
  <2>1. {RemoveValueInRecord(SyncMsg(i, S, p)) : p \in {}} = {}
    OBVIOUS
  <2>2. SyncToPeers(i, S, {}) = [S EXCEPT !.out = S.out \cup {}]
    BY <2>1 DEF SyncToPeers
  <2> QED
    BY <2>2 DEF Node
<1>5. S.peer_to_sync # NoPeer => {S.peer_to_sync} \in SUBSET Peers(i)
  BY NodeFields DEF Peers
<1> HIDE DEF A, C
<1>6. CASE S.broadcast
  BY <1>3, <1>6 DEF SyncPersistent
<1>7. CASE ~S.broadcast /\ ~S.compensate
  BY <1>5, <1>7 DEF SyncPersistent
<1>8. CASE ~S.broadcast /\ S.compensate
  <2>1. \/ SyncPersistent(i, S) = BroadcastOnAccept(i, S)
        \/ SyncPersistent(i, S) = BroadcastOnChosen(i, S)
        \/ SyncPersistent(i, S) = S
    BY <1>8 DEF SyncPersistent
  <2> QED
    BY <1>1, <1>2, <1>4, <2>1
<1> QED
  BY <1>6, <1>7, <1>8 DEF Node

LEMMA FinishIfChosenHolds ==
    ASSUME NEW i \in Acceptors, NEW S, NEW r, NEW f, Holds(i, S, r, f)
    PROVE  LET T == FinishIfChosen(i, S) IN
           Holds(i, T, r, f) /\ Steady(S, T) /\ T.op = S.op
<1>1. Holds(i, FinishOk(S), r, f) /\ Steady(S, FinishOk(S))
  BY FinishHolds
<1>2. FinishOk(S).op = S.op
  BY DEF FinishOk, Holds, Node
<1>3. Steady(S, S)
  BY DEF Steady
<1> QED
  BY <1>1, <1>2, <1>3 DEF FinishIfChosen

LEMMA HandleSetHolds ==
    ASSUME NEW i \in Acceptors, NEW S, NEW r \in Record, NEW s \in Record,
           NEW f \in BOOLEAN, Holds(i, S, s, f), Settled(S), S.op = "set", S.out = {},
           NEW success \in BOOLEAN, f => success, r = s \/ r = S.recs[i],
           success => r = S.recs[i]
    PROVE  LET N == HandleSetFromPlog(i, S, success) IN
           Holds(i, N, r, f) /\ Settled(N)
<1> DEFINE U == [S EXCEPT !.op = "none"]
           V == UpdateByChosenEntry(i, U)
           W == FinishIfChosen(i, V)
           X == [SyncPersistent(i, W) EXCEPT !.broadcast = FALSE, !.compensate = FALSE,
                          !.peer_to_sync = NoPeer, !.drain = "set"]
<1>1. /\ S \in Node /\ S.loaded /\ S.mem /\ S.max_cont = 0 /\ S.ok
      /\ UpdateAccepts(s) /\ S.recs[i].promised > 0 /\ MachineInv(i, S.recs)
      /\ S.recs \in Machine /\ S.peer_to_sync # i /\ S.active_peer # i
      /\ S.max_plog = Entry => s.promised > 0
  BY NodeFields DEF Holds, Local, Shape, Covered, Parked
<1>2. UpdateAccepts(r) /\ (S.max_plog = Entry => r.promised > 0)
  BY <1>1 DEF MachineInv, WellFormed
<1>3. HandleSetFromPlog(i, S, success) =
          IF ~success THEN ClearEntryInfo(U)
          ELSE IF ~W.broadcast /\ W.peer_to_sync = NoPeer THEN W
          ELSE EndOfLoop(i, X, TRUE, "none")
  BY DEF HandleSetFromPlog
<1>4. /\ U \in Node /\ U.op = "none" /\ U.client = S.client
      /\ U.loaded = S.loaded /\ U.max_chosen = S.max_chosen
      /\ U.max_cont = S.max_cont /\ U.max_plog = S.max_plog
      /\ U.active_peer = S.active_peer /\ U.waiting_msg = S.waiting_msg
      /\ U.mem = S.mem /\ U.old = S.old /\ U.recs = S.recs
      /\ U.peer_to_sync = S.peer_to_sync /\ U.waiting_msgs = S.waiting_msgs
      /\ U.drain = S.drain /\ U.committing = S.committing /\ U.ok = S.ok
      /\ U.out = S.out /\ U.broadcast = S.broadcast
  BY <1>1, ZenonT(40) DEF Node
<1> HIDE DEF U
<1>5. CASE ~success
  <2>1. /\ U.ok /\ U.loaded /\ (U.max_cont = Entry => U.max_chosen = Entry)
        /\ U.active_peer # i /\ \A m \in U.waiting_msg : MsgOK(i, m)
    BY <1>1, <1>4 DEF Holds, Local, Shape, Parked
  <2>2. Sent(i, U, r)
    BY <1>4 DEF Sent
  <2>3. Holds(i, ClearEntryInfo(U), r, FALSE) /\ Steady(U, ClearEntryInfo(U))
    BY <1>2, <1>4, <2>1, <2>2, ClearHolds
  <2>4. Settled(ClearEntryInfo(U))
    BY <1>4, <2>3 DEF Settled, Steady
  <2>5. f = FALSE
    BY <1>5
  <2> QED
    BY <1>3, <1>5, <2>3, <2>4, <2>5
<1>6. CASE success
  <2> DEFINE K == Reset(U)
             C == UpdateByChosenEntry(i, K)
             F == FinishIfChosen(i, C)
  <2>r. r = S.recs[i]
    BY <1>6
  <2>1. /\ K \in Node /\ K.client = S.client /\ K.op = "none"
        /\ K.loaded = S.loaded /\ K.max_chosen = S.max_chosen
        /\ K.max_cont = S.max_cont /\ K.max_plog = S.max_plog
        /\ K.active_peer = S.active_peer /\ K.waiting_msg = S.waiting_msg
        /\ K.mem = S.mem /\ K.old = S.old /\ K.recs = S.recs
        /\ K.waiting_msgs = S.waiting_msgs
        /\ K.drain = S.drain /\ K.committing = S.committing /\ K.ok = S.ok
        /\ K.out = S.out /\ ~K.broadcast /\ K.peer_to_sync = NoPeer
    BY <1>4, ResetFields
  <2>2. Reset(W) = F
    <3>1. V \in Node /\ C = Reset(V)
      BY <1>4, UpdateByChosenType, ResetUpdate DEF GoodNode
    <3> HIDE DEF V, C
    <3> QED
      BY <3>1, ResetFinish
  <2>3. W \in Node /\ W.broadcast = S.broadcast /\ W.peer_to_sync = S.peer_to_sync
    <3>1. V \in Node
      BY <1>4, UpdateByChosenType DEF GoodNode
    <3>2. V.broadcast = U.broadcast /\ V.peer_to_sync = U.peer_to_sync
      BY <1>4 DEF UpdateByChosenEntry, Node
    <3> HIDE DEF V
    <3>3. /\ FinishOk(V) \in Node /\ FinishOk(V).broadcast = V.broadcast
          /\ FinishOk(V).peer_to_sync = V.peer_to_sync
      BY <3>1, FinishType DEF GoodNode, FinishOk, Node
    <3>4. W = V \/ W = FinishOk(V)
      BY DEF FinishIfChosen
    <3> HIDE DEF W
    <3> QED
      BY <1>4, <3>1, <3>2, <3>3, <3>4
  <2> HIDE DEF K, W
  <2>4. Local(i, K, r, f)
    <3>1. Shape(K) /\ Numbered(i, K) /\ MachineInv(i, K.recs) /\ K.ok
      BY <1>1, <2>1, EntryNumbers DEF Holds, Local, Shape, Numbered
    <3>2. Parked(i, K)
      <4>1. NoPeer # i
        BY EntryNumbers, AcceptorNumAssumption DEF Acceptors
      <4> QED
        BY <2>1, <4>1 DEF Holds, Local, Parked
    <3>3. Covered(i, K, r)
      BY <1>1, <1>2, <2>1, <2>r, SelfNotNewer DEF Covered
    <3>4. f => Intact(i, K, r)
      <4>1. f /\ S.committing => r.chosen
        BY <2>r DEF Holds, Local, Intact, Advance
      <4> QED
        BY <1>1, <2>1, <2>r, <4>1, EntryNumbers DEF Intact
    <3> QED
      BY <3>1, <3>2, <3>3, <3>4 DEF Local
  <2>5. Sent(i, K, r)
    BY <2>1 DEF Sent
  <2>6. Holds(i, C, r, f) /\ Steady(K, C) /\ C.op = "none"
    BY <1>1, <2>1, <2>4, <2>5, UpdateByChosenHolds
  <2> HIDE DEF C
  <2>7. Holds(i, F, r, f) /\ Steady(C, F) /\ F.op = "none"
    BY <2>6, FinishIfChosenHolds
  <2> HIDE DEF F
  <2>8. Steady(K, F) /\ F.loaded /\ Settled(F)
    <3>1. Steady(K, F)
      BY <2>6, <2>7, SteadyTrans
    <3>2. Settled(K)
      BY <2>1 DEF Settled
    <3> QED
      BY <1>1, <2>1, <3>1, <3>2, SteadySettled DEF Steady
  <2>9. CASE ~W.broadcast /\ W.peer_to_sync = NoPeer
    <3>1. HandleSetFromPlog(i, S, success) = W
      BY <1>3, <1>6, <2>9
    <3>2. /\ F.client = W.client /\ F.op = W.op
          /\ F.loaded = W.loaded /\ F.max_chosen = W.max_chosen
          /\ F.max_cont = W.max_cont /\ F.max_plog = W.max_plog
          /\ F.active_peer = W.active_peer /\ F.waiting_msg = W.waiting_msg
          /\ F.mem = W.mem /\ F.old = W.old /\ F.recs = W.recs
          /\ F.waiting_msgs = W.waiting_msgs
          /\ F.drain = W.drain /\ F.committing = W.committing /\ F.ok = W.ok
          /\ F.out = W.out /\ ~F.broadcast /\ F.peer_to_sync = NoPeer
      BY <2>2, <2>3, ResetFields
    <3>3. W.broadcast = F.broadcast
      BY <2>3, <2>7, <2>9, <3>2 DEF Holds, Node
    <3>4. Local(i, W, r, f) /\ ChosenKnown(i, W)
      BY <2>7, <2>9, <3>2, <3>3, LocalFrame DEF Holds
    <3>5. Holds(i, W, r, f) /\ Settled(W)
      BY <2>3, <2>7, <2>8, <3>2, <3>4 DEF Holds, Sent, Settled
    <3> QED
      BY <3>1, <3>5
  <2>10. CASE ~(~W.broadcast /\ W.peer_to_sync = NoPeer)
    <3>1. PICK P \in SUBSET Peers(i) : SyncPersistent(i, W) = SyncToPeers(i, W, P)
      BY <1>1, <2>3, <2>10, SyncPersistentFacts
    <3>2. SyncToPeers(i, F, P) = Reset(SyncToPeers(i, W, P))
      BY <2>2, <2>3, ResetSync
    <3> DEFINE Y == SyncToPeers(i, F, P)
               Z == [Y EXCEPT !.drain = "set"]
    <3>3. Holds(i, Y, r, f) /\ Steady(F, Y)
      BY <2>7, SyncHolds
    <3>4. Y.loaded /\ Y.op # "load" /\ Settled(Y)
      BY <2>7, <2>8, <3>3, SteadySettled DEF Steady
    <3>5. X = Z
      <4> DEFINE Q == SyncToPeers(i, W, P)
      <4>1. Q \in Node
        BY <2>3, SyncToPeersType DEF GoodNode, Peers
      <4>2. Y = Reset(Q) /\ SyncPersistent(i, W) = Q
        BY <3>1, <3>2
      <4> HIDE DEF Q, Y
      <4> QED
        BY <4>1, <4>2 DEF Reset, Node
    <3> HIDE DEF Y, X
    <3>6. Holds(i, Z, r, f) /\ Z.loaded /\ Z.op # "load" /\ Settled(Z)
      BY <3>3, <3>4, DrainHolds
    <3> HIDE DEF Z
    <3>7. LET N == EndOfLoop(i, Z, TRUE, "none") IN Holds(i, N, r, f) /\ Settled(N)
      BY <3>6, EndOfLoopHolds
    <3> QED
      BY <1>3, <1>6, <2>10, <3>5, <3>7
  <2> QED
    BY <2>9, <2>10
<1> QED
  BY <1>5, <1>6

LEMMA EmptyOrPromised ==
    ASSUME NEW r \in Record, UpdateAccepts(r), r.promised = 0
    PROVE  r = EmptyRecord
<1>1. ~r.chosen /\ r.prepared = 0 /\ r.accepted = 0 /\ r.value_id = 0 /\ r.value = NoValue
      /\ ~r.id_only
  BY DEF UpdateAccepts, IsValidRecord, Record
<1> QED
  BY <1>1 DEF Record, EmptyRecord

(* The EntityInfo that was loaded.                                         *)
EntityLoaded(S, r, c) == [UpdateByLoadFromPlog(S, r, c) EXCEPT !.waiting_msg = {}]

LEMMA EntityLoadedHolds ==
    ASSUME NEW i \in Acceptors, NEW S, NEW r \in Record, NEW f \in BOOLEAN,
           Holds(i, S, r, f), S.op = "load", NEW c \in BOOLEAN, f /\ c => r.chosen
    PROVE  LET U == EntityLoaded(S, r, c) IN
           Holds(i, U, r, f) /\ U.loaded /\ U.op = "none"
<1> DEFINE committed == IF c THEN Entry ELSE 0
           in_plog == IF r = EmptyRecord THEN committed ELSE Entry
           L == [S EXCEPT !.op = "none", !.max_plog = in_plog,
                          !.max_chosen = committed, !.max_cont = committed]
           U == [L EXCEPT !.waiting_msg = {}]
<1>1. /\ committed \in 0 .. Entry /\ in_plog \in 0 .. Entry
      /\ (committed = Entry) <=> c
      /\ (committed = 0) <=> ~c
      /\ in_plog = 0 => r = EmptyRecord
      /\ in_plog = Entry /\ committed = 0 => r # EmptyRecord
  BY EntryNumbers
<1>2. EntityLoaded(S, r, c) = U
  BY DEF EntityLoaded, UpdateByLoadFromPlog
<1> HIDE DEF committed, in_plog
<1>3. S \in Node /\ L \in Node /\ {} \in Waiting
  BY <1>1 DEF Holds, Node, Waiting
<1>4. /\ U \in Node /\ U.client = S.client /\ U.op = "none" /\ U.waiting_msg = {}
      /\ U.loaded = S.loaded /\ U.max_chosen = committed
      /\ U.max_cont = committed /\ U.max_plog = in_plog
      /\ U.active_peer = S.active_peer
      /\ U.mem = S.mem /\ U.old = S.old /\ U.recs = S.recs
      /\ U.peer_to_sync = S.peer_to_sync /\ U.waiting_msgs = S.waiting_msgs
      /\ U.drain = S.drain /\ U.committing = S.committing /\ U.ok = S.ok
      /\ U.out = S.out /\ U.broadcast = S.broadcast
  BY <1>1, <1>3 DEF Node
<1> HIDE DEF U
<1>5. S.loaded /\ ~S.mem /\ S.recs = NewMachine /\ S.drain = "no"
  BY <1>3 DEF Holds, Local, Shape, Node
<1>6. Holds(i, U, r, f)
  <2>1. NewMachine[i] = EmptyRecord /\ EmptyRecord.prepared = 0
    BY DEF NewMachine, EmptyRecord
  <2>2. Shape(U)
    BY <1>1, <1>4, <1>5 DEF Holds, Local, Shape
  <2>3. Parked(i, U) /\ Numbered(i, U) /\ Sent(i, U, r) /\ ChosenKnown(i, U)
    BY <1>4, <1>5, <2>1 DEF Holds, Local, Parked, Numbered, Sent, ChosenKnown
  <2>4. Covered(i, U, r)
    <3>1. UpdateAccepts(r) /\ r.promised \in Nat
      BY DEF Holds, Local, Covered, Record
    <3>2. r # EmptyRecord => r.promised > 0
      BY <3>1, EmptyOrPromised
    <3> QED
      BY <1>1, <1>4, <1>5, <2>1, <3>1, <3>2, EmptyNotNewer DEF Covered
  <2>5. f => Intact(i, U, r)
    BY <1>1, <1>4, <1>5 DEF Holds, Local, Intact
  <2> QED
    BY <1>4, <2>2, <2>3, <2>4, <2>5 DEF Holds, Local
<1> QED
  BY <1>2, <1>4, <1>5, <1>6

LEMMA HandleLoadHolds ==
    ASSUME NEW i \in Acceptors, NEW S, NEW r \in Record, NEW f \in BOOLEAN,
           Holds(i, S, r, f), S.op = "load", NEW c \in BOOLEAN, f /\ c => r.chosen,
           NEW pushed \in BOOLEAN, f => pushed, NEW cu
    PROVE  LET N == HandleLoadFromPlog(i, S, r, c, pushed, cu) IN
           Holds(i, N, r, f) /\ Settled(N)
<1> DEFINE U == EntityLoaded(S, r, c)
           m == CHOOSE x \in S.waiting_msg : TRUE
           V == IF S.waiting_msg = {} THEN U
                ELSE HandleLoadedPaxosCmd(i, U, m, r, pushed, cu)
<1>1. HandleLoadFromPlog(i, S, r, c, pushed, cu) =
          IF V.client.kind = "none" THEN V ELSE DispatchClientCmd(i, V, pushed, cu)
  BY DEF HandleLoadFromPlog, EntityLoaded
<1>2. Holds(i, U, r, f) /\ U.loaded /\ U.op # "load"
  BY EntityLoadedHolds
<1> HIDE DEF U
<1>3. S.waiting_msg # {} => m \in PaxosCmd /\ MsgOK(i, m)
  BY NodeFields DEF Holds, Local, Parked, Waiting
<1> HIDE DEF m
<1>4. Holds(i, V, r, f) /\ V.loaded /\ V.op # "load"
  <2>1. CASE S.waiting_msg = {}
    BY <1>2, <2>1
  <2>2. CASE S.waiting_msg # {}
    <3>1. LET H == HandleLoadedPaxosCmd(i, U, m, r, pushed, cu) IN
          Holds(i, H, r, f) /\ Steady(U, H)
      BY <1>2, <1>3, <2>2, HandleLoadedHolds
    <3> QED
      BY <1>2, <2>2, <3>1 DEF Steady
  <2> QED
    BY <2>1, <2>2
<1> HIDE DEF V
<1>5. CASE V.client.kind = "none"
  BY <1>1, <1>4, <1>5 DEF Settled
<1>6. CASE V.client.kind # "none"
  <2>1. Holds(i, FinishErr(V), r, f) /\ V \in Node
    BY <1>4, FinishHolds DEF Holds
  <2>2. LET N == DispatchClientCmd(i, V, pushed, cu) IN
        Holds(i, N, r, f) /\ (Answered(N) \/ N.max_plog = 0)
    BY <1>4, <1>6, <2>1, DispatchHolds
  <2>3. Settled(DispatchClientCmd(i, V, pushed, cu))
    BY <2>2 DEF Settled, Answered
  <2> QED
    BY <1>1, <1>6, <2>2, <2>3
<1> QED
  BY <1>5, <1>6

-----------------------------------------------------------------------------
(* The actions.                                                            *)

LEMMA LocalWeaker ==
    ASSUME NEW i, NEW S, NEW r, NEW f, NEW g, Local(i, S, r, f), g => f
    PROVE  Local(i, S, r, g)
BY DEF Local

LEMMA NextPeer ==
    ASSUME NEW i \in Acceptors
    PROVE  (i + 1) % AcceptorNum # i
<1>1. i \in Nat /\ AcceptorNum \in Nat /\ i < AcceptorNum /\ AcceptorNum > 1
  BY AcceptorNumAssumption DEF Acceptors
<1>2. CASE i + 1 < AcceptorNum
  <2>1. (i + 1) % AcceptorNum = i + 1
    BY <1>1, <1>2, SMTT(30)
  <2> QED
    BY <1>1, <2>1
<1>3. CASE i + 1 = AcceptorNum
  <2>1. (i + 1) % AcceptorNum = 0
    BY <1>1, <1>3, SMTT(30)
  <2> QED
    BY <1>1, <1>3, <2>1
<1> QED
  BY <1>1, <1>2, <1>3

(* A replica whose EntityInfo does not exist, or exists for the first time.*)
LEMMA AbsentHolds ==
    ASSUME NEW i \in Acceptors, NEW r \in Record, UpdateAccepts(r), NEW f
    PROVE  LET A == EntityAbsent(i)
               T == [A EXCEPT !.loaded = TRUE] IN
           /\ Holds(i, A, r, f) /\ Settled(A) /\ A.out = {}
           /\ r = EmptyRecord => Holds(i, T, r, f) /\ Settled(T) /\ T.out = {}
<1> DEFINE A == EntityAbsent(i)
           T == [A EXCEPT !.loaded = TRUE]
           peer == (i + 1) % AcceptorNum
<1>1. A \in Node /\ T \in Node
  <2>1. A \in Node
    BY EntityAbsentType
  <2> HIDE DEF A
  <2> QED
    BY <2>1 DEF Node
<1>2. peer # i /\ NoPeer # i
  BY NextPeer, EntryNumbers, AcceptorNumAssumption DEF Acceptors
<1> HIDE DEF peer
<1>3. /\ ~A.loaded /\ A.op = "none" /\ A.max_chosen = 0 /\ A.max_cont = 0
      /\ A.max_plog = 0 /\ A.active_peer = peer /\ A.client = NoCmd
      /\ A.waiting_msg = {} /\ ~A.mem /\ ~A.old /\ A.recs = NewMachine
      /\ ~A.broadcast /\ A.peer_to_sync = NoPeer /\ A.waiting_msgs = NoWaiting
      /\ A.drain = "no" /\ ~A.committing /\ A.ok /\ A.out = {}
  BY DEF EntityAbsent, peer
<1> HIDE DEF A
<1>4. /\ T.loaded /\ T.op = "none" /\ T.max_chosen = 0 /\ T.max_cont = 0
      /\ T.max_plog = 0 /\ T.active_peer = peer /\ T.client = NoCmd
      /\ T.waiting_msg = {} /\ ~T.mem /\ ~T.old /\ T.recs = NewMachine
      /\ ~T.broadcast /\ T.peer_to_sync = NoPeer /\ T.waiting_msgs = NoWaiting
      /\ T.drain = "no" /\ ~T.committing /\ T.ok /\ T.out = {}
  BY <1>1, <1>3 DEF Node
<1> HIDE DEF T
<1>5. /\ NewMachine[i] = EmptyRecord /\ ~IsRecordNewer(r, EmptyRecord)
      /\ MachineInv(i, NewMachine)
  BY EmptyNotNewer, NewMachineInv DEF NewMachine
<1>6. Shape(A) /\ Shape(T)
  BY <1>3, <1>4, EntryNumbers DEF Shape
<1>7. Numbered(i, A) /\ Numbered(i, T) /\ Settled(A) /\ Settled(T)
  BY <1>3, <1>4 DEF Numbered, Settled, NoCmd
<1>8. Parked(i, A) /\ Parked(i, T)
  BY <1>2, <1>3, <1>4 DEF Parked, NoWaiting
<1>9. /\ Covered(i, A, r) /\ Covered(i, T, r) /\ ChosenKnown(i, A) /\ ChosenKnown(i, T)
      /\ Sent(i, A, r) /\ Sent(i, T, r)
  BY <1>3, <1>4, <1>5, EntryNumbers DEF Covered, ChosenKnown, Sent
<1>10. Intact(i, A, r) /\ (r = EmptyRecord => Intact(i, T, r))
  BY <1>3, <1>4, EntryNumbers DEF Intact
<1> QED
  BY <1>1, <1>3, <1>4, <1>5, <1>6, <1>7, <1>8, <1>9, <1>10 DEF Holds, Local, A, T

(* What a step sends, and what it does to the plogs.                       *)
NewSent ==
    \A m \in net' \ net : m.local.chosen \/ ~IsRecordNewer(plog'[m.from], m.local)

Advances == NoFault => \A i \in Acceptors : Advance(plog[i], plog'[i])

(* Replica i goes to S, and nothing else happens to the others.            *)
LEMMA GoDurable ==
    ASSUME TypeInv, DurableInv, NEW i \in Acceptors, NEW S, NEW N0,
           Go(i, S, N0), N0 \subseteq net,
           Holds(i, S, plog'[i], NoFault'), Settled(S),
           \A j \in Acceptors : j # i => plog'[j] = plog[j],
           NoFault' => NoFault,
           \A j \in Acceptors : NoFault' /\ j \in db' => plog'[j].chosen
    PROVE  DurableInv' /\ NewSent
<1> DEFINE T == [S EXCEPT !.out = {}, !.done = NoCmd]
<1>1. S \in Node /\ node \in [Acceptors -> Node] /\ T \in Node
  BY NoCmdType DEF Holds, TypeInv, TypeOK, Node
<1>2. node' = [node EXCEPT ![i] = T] /\ net' = N0 \cup S.out
  BY DEF Go
<1>3. /\ T.loaded = S.loaded /\ T.op = S.op /\ T.max_chosen = S.max_chosen
      /\ T.max_cont = S.max_cont /\ T.max_plog = S.max_plog
      /\ T.active_peer = S.active_peer /\ T.waiting_msg = S.waiting_msg
      /\ T.mem = S.mem /\ T.old = S.old /\ T.recs = S.recs
      /\ T.broadcast = S.broadcast
      /\ T.peer_to_sync = S.peer_to_sync /\ T.waiting_msgs = S.waiting_msgs
      /\ T.drain = S.drain /\ T.committing = S.committing /\ T.ok = S.ok
      /\ T.client = S.client /\ T.out = {}
  BY <1>1 DEF Node
<1> HIDE DEF T
<1>4. node'[i] = T /\ \A j \in Acceptors : j # i => node'[j] = node[j]
  BY <1>1, <1>2
<1>5. Local(i, T, plog'[i], NoFault') /\ ChosenKnown(i, T) /\ Settled(T)
  <2>1. Local(i, T, plog'[i], NoFault') /\ ChosenKnown(i, T)
    BY <1>3, LocalFrame DEF Holds
  <2>2. Settled(T)
    BY <1>3 DEF Settled
  <2> QED
    BY <2>1, <2>2
<1>6. ASSUME NEW j \in Acceptors
      PROVE  /\ Local(j, node'[j], plog'[j], NoFault') /\ ChosenKnown(j, node'[j])
             /\ Settled(node'[j]) /\ node'[j].out = {}
  <2>1. CASE j = i
    BY <1>3, <1>4, <1>5, <2>1
  <2>2. CASE j # i
    <3>1. /\ Local(j, node[j], plog[j], NoFault) /\ ChosenKnown(j, node[j])
          /\ Settled(node[j]) /\ node[j].out = {}
      BY DEF DurableInv
    <3>2. Local(j, node[j], plog[j], NoFault')
      BY <3>1, LocalWeaker
    <3> QED
      BY <1>4, <2>2, <3>1, <3>2
  <2> QED
    BY <2>1, <2>2
<1>7. \A m \in S.out : MaySend(i, m, plog'[i])
  BY DEF Holds, Sent
<1>8. \A m \in net' : MsgOK(m.to, m)
  BY <1>2, <1>7 DEF DurableInv, MaySend
<1>9. NewSent
  BY <1>2, <1>7 DEF NewSent, MaySend
<1> QED
  BY <1>6, <1>8, <1>9 DEF DurableInv

LEMMA InitDurable == Init => DurableInv
<1> SUFFICES ASSUME Init PROVE DurableInv
  OBVIOUS
<1>1. UpdateAccepts(EmptyRecord) /\ EmptyRecord \in Record
  BY NewMachineInv, EmptyRecordType, AcceptorNumAssumption DEF Acceptors
<1>2. ASSUME NEW i \in Acceptors
      PROVE  /\ Holds(i, node[i], plog[i], NoFault) /\ Settled(node[i])
             /\ node[i].out = {} /\ ~(i \in db)
  <2>1. node[i] = [EntityAbsent(i) EXCEPT !.loaded = TRUE] /\ plog[i] = EmptyRecord
    BY DEF Init
  <2> QED
    BY <1>1, <2>1, AbsentHolds DEF Init
<1>3. net = {}
  BY DEF Init
<1> QED
  BY <1>2, <1>3 DEF DurableInv, Holds

LEMMA GoSamePlog ==
    ASSUME TypeInv, DurableInv, NEW i \in Acceptors, NEW S, NEW N0,
           Go(i, S, N0), N0 \subseteq net, plog' = plog, db' = db,
           NoFault' => NoFault, Holds(i, S, plog[i], NoFault'), Settled(S)
    PROVE  DurableInv' /\ NewSent /\ Advances
<1>1. \A j \in Acceptors : NoFault' /\ j \in db' => plog'[j].chosen
  BY DEF DurableInv
<1>2. Advances
  BY DEF Advances, Advance, TypeInv, TypeOK, Record
<1> QED
  BY <1>1, <1>2, GoDurable

LEMMA NodeHolds ==
    ASSUME TypeInv, DurableInv, NEW i \in Acceptors, NEW f, f => NoFault
    PROVE  /\ Holds(i, node[i], plog[i], f) /\ Settled(node[i]) /\ node[i].out = {}
           /\ node[i] \in Node /\ plog[i] \in Record
<1>1. node[i] \in Node /\ plog[i] \in Record
  BY DEF TypeInv, TypeOK
<1>2. /\ Local(i, node[i], plog[i], NoFault) /\ ChosenKnown(i, node[i])
      /\ Settled(node[i]) /\ node[i].out = {}
  BY DEF DurableInv
<1>3. Local(i, node[i], plog[i], f)
  BY <1>2, LocalWeaker
<1> QED
  BY <1>1, <1>2, <1>3 DEF Holds, Sent

LEMMA QueueFault ==
    ASSUME TypeInv, NEW pushed \in BOOLEAN, PlogQueue(pushed), evictions' = evictions
    PROVE  NoFault' \in BOOLEAN /\ (NoFault' => NoFault /\ pushed)
BY BoundsAssumption DEF TypeInv, TypeOK, PlogQueue, NoFault

LEMMA SameFault ==
    ASSUME plogErrors' = plogErrors, evictions' = evictions
    PROVE  NoFault' \in BOOLEAN /\ (NoFault' <=> NoFault)
BY DEF NoFault

LEMMA ClientDurable ==
    ASSUME TypeInv, DurableInv, NEW i \in Acceptors, NEW cmd \in ClientCmd,
           cmd.kind # "none", Idle(i), NEW pushed \in BOOLEAN, NEW cu,
           PlogQueue(pushed), Go(i, HandleClientCmd(i, node[i], cmd, pushed, cu), net),
           UNCHANGED <<plog, db, evictions>>
    PROVE  DurableInv' /\ NewSent /\ Advances
<1>1. NoFault' \in BOOLEAN /\ (NoFault' => NoFault /\ pushed)
  BY QueueFault
<1>2. /\ Holds(i, node[i], plog[i], NoFault') /\ Settled(node[i]) /\ plog[i] \in Record
  BY <1>1, NodeHolds
<1>3. LET N == HandleClientCmd(i, node[i], cmd, pushed, cu) IN
      Holds(i, N, plog[i], NoFault') /\ Settled(N)
  BY <1>1, <1>2, HandleClientCmdHolds DEF Idle
<1> QED
  BY <1>1, <1>3, GoSamePlog

LEMMA ReceiveDurable ==
    ASSUME TypeInv, DurableInv, NEW m \in net, ReceivePaxosCmd(m)
    PROVE  DurableInv' /\ NewSent /\ Advances
<1> DEFINE i == m.to
           N0 == IF Duplicates THEN net ELSE net \ {m}
<1>1. i \in Acceptors /\ m \in PaxosCmd /\ MsgOK(i, m) /\ N0 \subseteq net
  BY DEF DurableInv, TypeInv, TypeOK, PaxosCmd
<1> HIDE DEF N0
<1>2. PICK pushed \in BOOLEAN, cu \in CatchupChoicesAt(i, m.max_chosen) :
        PlogQueue(pushed) /\ Go(i, HandlePaxosCmd(i, node[i], m, plog[i], pushed, cu), N0)
  BY DEF ReceivePaxosCmd, N0
<1>3. UNCHANGED <<plog, db, evictions>> /\ Idle(i)
  BY DEF ReceivePaxosCmd
<1> HIDE DEF i
<1>4. NoFault' \in BOOLEAN /\ (NoFault' => NoFault /\ pushed)
  BY <1>2, <1>3, QueueFault
<1>5. /\ Holds(i, node[i], plog[i], NoFault') /\ Settled(node[i]) /\ plog[i] \in Record
  BY <1>1, <1>4, NodeHolds
<1>6. LET N == HandlePaxosCmd(i, node[i], m, plog[i], pushed, cu) IN
      Holds(i, N, plog[i], NoFault') /\ Settled(N)
  BY <1>1, <1>3, <1>4, <1>5, HandlePaxosCmdHolds DEF Idle
<1> QED
  BY <1>1, <1>2, <1>3, <1>4, <1>6, GoSamePlog

LEMMA LoseDurable ==
    ASSUME TypeInv, DurableInv, NEW m \in net, LoseMessage(m)
    PROVE  DurableInv' /\ NewSent /\ Advances
<1>1. /\ node' = node /\ plog' = plog /\ db' = db /\ net' \subseteq net
      /\ evictions' = evictions /\ plogErrors' = plogErrors
  BY DEF LoseMessage
<1>2. DurableInv'
  BY <1>1 DEF DurableInv, NoFault
<1>3. NewSent /\ Advances
  BY <1>1 DEF NewSent, Advances, Advance, TypeInv, TypeOK, Record
<1> QED
  BY <1>2, <1>3

LEMMA TimeoutDurable ==
    ASSUME TypeInv, DurableInv, NEW i \in Acceptors, ClientTimeout(i)
    PROVE  DurableInv' /\ NewSent /\ Advances
<1>1. /\ plog' = plog /\ db' = db /\ evictions' = evictions /\ plogErrors' = plogErrors
      /\ Go(i, FinishErr(node[i]), net)
  BY DEF ClientTimeout
<1>2. NoFault' \in BOOLEAN /\ (NoFault' => NoFault)
  BY <1>1, SameFault
<1>3. Holds(i, node[i], plog[i], NoFault') /\ node[i] \in Node
  BY <1>2, NodeHolds
<1>4. Holds(i, FinishErr(node[i]), plog[i], NoFault') /\ Settled(FinishErr(node[i]))
  BY <1>3, FinishHolds DEF Settled
<1> QED
  BY <1>1, <1>2, <1>4, GoSamePlog

(* The plog of replica i changes to the record it was given to store.      *)
LEMMA WrittenPlog ==
    ASSUME TypeInv, DurableInv, NEW i \in Acceptors, NEW written \in BOOLEAN,
           written => node[i].op = "set",
           plog' = IF written THEN [plog EXCEPT ![i] = node[i].recs[i]] ELSE plog
    PROVE  /\ \A j \in Acceptors : j # i => plog'[j] = plog[j]
           /\ plog'[i] = IF written THEN node[i].recs[i] ELSE plog[i]
           /\ plog'[i] \in Record /\ UpdateAccepts(plog'[i]) /\ Advances
<1>1. /\ plog \in [Acceptors -> Record] /\ node[i] \in Node
      /\ node[i].recs \in Machine /\ node[i].recs[i] \in Record
  BY NodeFields DEF TypeInv, TypeOK
<1>2. Local(i, node[i], plog[i], NoFault)
  BY DEF DurableInv
<1>3. /\ \A j \in Acceptors : j # i => plog'[j] = plog[j]
      /\ plog'[i] = IF written THEN node[i].recs[i] ELSE plog[i]
  BY <1>1
<1>4. UpdateAccepts(plog[i]) /\ UpdateAccepts(node[i].recs[i])
  BY <1>2 DEF Local, Covered, MachineInv, WellFormed
<1>5. \A j \in Acceptors : Advance(plog[j], plog[j])
  BY <1>1 DEF Advance, Record
<1>6. NoFault /\ written => Advance(plog[i], node[i].recs[i])
  BY <1>2 DEF Local, Intact
<1> QED
  BY <1>1, <1>3, <1>4, <1>5, <1>6 DEF Advances

LEMMA SetDurable ==
    ASSUME TypeInv, DurableInv, NEW i \in Acceptors, PlogSetRecord(i)
    PROVE  DurableInv' /\ NewSent /\ Advances
<1>1. PICK success \in BOOLEAN, written \in BOOLEAN :
        /\ PlogResult(success) /\ (success => written)
        /\ plog' = IF written THEN [plog EXCEPT ![i] = node[i].recs[i]] ELSE plog
        /\ Go(i, HandleSetFromPlog(i, node[i], success), net)
  BY DEF PlogSetRecord
<1>2. db' = db /\ evictions' = evictions /\ node[i].op = "set"
  BY DEF PlogSetRecord
<1>3. NoFault' \in BOOLEAN /\ (NoFault' => NoFault /\ success)
  BY <1>1, <1>2, QueueFault DEF PlogResult
<1>4. /\ \A j \in Acceptors : j # i => plog'[j] = plog[j]
      /\ plog'[i] = IF written THEN node[i].recs[i] ELSE plog[i]
      /\ plog'[i] \in Record /\ Advances
  BY <1>1, <1>2, WrittenPlog
<1>5. /\ Holds(i, node[i], plog[i], NoFault') /\ Settled(node[i]) /\ node[i].out = {}
      /\ plog[i] \in Record
  BY <1>3, NodeHolds
<1>6. LET N == HandleSetFromPlog(i, node[i], success) IN
      Holds(i, N, plog'[i], NoFault') /\ Settled(N)
  BY <1>1, <1>2, <1>3, <1>4, <1>5, HandleSetHolds
<1>7. \A j \in Acceptors : NoFault' /\ j \in db' => plog'[j].chosen
  BY <1>2, <1>3, <1>4 DEF DurableInv, Advances, Advance
<1> QED
  BY <1>1, <1>3, <1>4, <1>6, <1>7, GoDurable

LEMMA GetDurable ==
    ASSUME TypeInv, DurableInv, NEW i \in Acceptors, PlogGetRecord(i)
    PROVE  DurableInv' /\ NewSent /\ Advances
<1>1. PICK success \in BOOLEAN, pushed \in BOOLEAN, cu \in CatchupChoices :
        /\ PlogResult(success /\ pushed)
        /\ Go(i, HandleGetFromPlog(i, node[i], plog[i], success, pushed, cu), net)
  BY DEF PlogGetRecord
<1>2. plog' = plog /\ db' = db /\ evictions' = evictions /\ node[i].op = "get"
  BY DEF PlogGetRecord
<1>3. NoFault' \in BOOLEAN /\ (NoFault' => NoFault /\ success)
  BY <1>1, <1>2, QueueFault DEF PlogResult
<1>4. /\ Holds(i, node[i], plog[i], NoFault') /\ Settled(node[i]) /\ plog[i] \in Record
  BY <1>3, NodeHolds
<1>5. LET N == HandleGetFromPlog(i, node[i], plog[i], success, pushed, cu) IN
      Holds(i, N, plog[i], NoFault') /\ Settled(N)
  BY <1>2, <1>3, <1>4, HandleGetHolds
<1> QED
  BY <1>1, <1>2, <1>3, <1>5, GoSamePlog

LEMMA LoadDurable ==
    ASSUME TypeInv, DurableInv, NEW i \in Acceptors, PlogLoad(i)
    PROVE  DurableInv' /\ NewSent /\ Advances
<1>1. PICK success \in BOOLEAN, pushed \in BOOLEAN, cu \in CatchupChoices :
        /\ PlogResult(success /\ pushed)
        /\ Go(i, IF success
                 THEN HandleLoadFromPlog(i, node[i], plog[i], i \in db, pushed, cu)
                 ELSE EntityAbsent(i), net)
  BY DEF PlogLoad
<1>2. plog' = plog /\ db' = db /\ evictions' = evictions /\ node[i].op = "load"
  BY DEF PlogLoad
<1>3. NoFault' \in BOOLEAN /\ (NoFault' => NoFault /\ success /\ pushed)
  BY <1>1, <1>2, QueueFault DEF PlogResult
<1>4. /\ Holds(i, node[i], plog[i], NoFault') /\ plog[i] \in Record
  BY <1>3, NodeHolds
<1>5. CASE success
  <2>1. NoFault' /\ i \in db => plog[i].chosen
    BY <1>3 DEF DurableInv
  <2>2. LET N == HandleLoadFromPlog(i, node[i], plog[i], i \in db, pushed, cu) IN
        Holds(i, N, plog[i], NoFault') /\ Settled(N)
    <3> DEFINE c == i \in db
    <3>1. c \in BOOLEAN /\ (NoFault' /\ c => plog[i].chosen)
      BY <2>1
    <3> HIDE DEF c
    <3>2. LET N == HandleLoadFromPlog(i, node[i], plog[i], c, pushed, cu) IN
          Holds(i, N, plog[i], NoFault') /\ Settled(N)
      BY <1>2, <1>3, <1>4, <3>1, HandleLoadHolds
    <3> QED
      BY <3>2 DEF c
  <2> QED
    BY <1>1, <1>2, <1>3, <1>5, <2>2, GoSamePlog
<1>6. CASE ~success
  <2>1. Holds(i, EntityAbsent(i), plog[i], NoFault') /\ Settled(EntityAbsent(i))
    BY <1>4, AbsentHolds DEF Holds, Local, Covered
  <2> QED
    BY <1>1, <1>2, <1>3, <1>6, <2>1, GoSamePlog
<1> QED
  BY <1>5, <1>6

LEMMA DrainDurable ==
    ASSUME TypeInv, DurableInv, NEW i \in Acceptors, DrainWaitingMsg(i)
    PROVE  DurableInv' /\ NewSent /\ Advances
<1>1. PICK pushed \in BOOLEAN, cu \in CatchupChoices :
        PlogQueue(pushed) /\ Go(i, HandleWaitingMsg(i, node[i], plog[i], pushed, cu), net)
  BY DEF DrainWaitingMsg
<1>2. /\ plog' = plog /\ db' = db /\ evictions' = evictions
      /\ node[i].drain # "no" /\ node[i].waiting_msgs # NoWaiting
  BY DEF DrainWaitingMsg, Idle, TypeInv, DrainInv, Draining
<1>3. NoFault' \in BOOLEAN /\ (NoFault' => NoFault /\ pushed)
  BY <1>1, <1>2, QueueFault
<1>4. /\ Holds(i, node[i], plog[i], NoFault') /\ Settled(node[i]) /\ plog[i] \in Record
  BY <1>3, NodeHolds
<1>5. LET N == HandleWaitingMsg(i, node[i], plog[i], pushed, cu) IN
      Holds(i, N, plog[i], NoFault') /\ Settled(N)
  BY <1>2, <1>3, <1>4, HandleWaitingMsgHolds
<1> QED
  BY <1>1, <1>2, <1>3, <1>5, GoSamePlog

LEMMA CatchupDurable ==
    ASSUME TypeInv, DurableInv, NEW i \in Acceptors, IterateAndCatchup(i)
    PROVE  DurableInv' /\ NewSent /\ Advances
<1>1. PICK pushed \in BOOLEAN, cu \in CatchupChoices :
        PlogQueue(pushed) /\ Go(i, TryCatchup(i, node[i], pushed, cu), net)
  BY DEF IterateAndCatchup
<1>2. /\ plog' = plog /\ db' = db /\ evictions' = evictions /\ node[i].loaded
      /\ node[i].max_cont # node[i].max_chosen
  BY DEF IterateAndCatchup
<1>3. NoFault' \in BOOLEAN /\ (NoFault' => NoFault /\ pushed)
  BY <1>1, <1>2, QueueFault
<1>4. /\ Holds(i, node[i], plog[i], NoFault') /\ Settled(node[i]) /\ plog[i] \in Record
  BY <1>3, NodeHolds
<1>5. node[i].op # "load"
  BY <1>2, <1>4 DEF Holds, Local, Shape
<1>6. LET N == TryCatchup(i, node[i], pushed, cu) IN
      Holds(i, N, plog[i], NoFault') /\ Steady(node[i], N)
  BY <1>2, <1>4, <1>5, TryCatchupHolds
<1>7. Settled(TryCatchup(i, node[i], pushed, cu))
  BY <1>4, <1>5, <1>6, SteadySettled
<1> QED
  BY <1>1, <1>2, <1>3, <1>6, <1>7, GoSamePlog

(* The entry leaves the memory: by its age, or to make room for another.   *)
LEMMA RemoveDurable ==
    ASSUME TypeInv, DurableInv, NEW i \in Acceptors, node[i].mem,
           node[i].old \/ ~uncertain(node[i]), NoFault' \in BOOLEAN,
           NoFault' => NoFault /\ node[i].old, plog' = plog, db' = db,
           Go(i, DestroyEntryInfo(Check(node[i], ~uncertain(node[i]))), net)
    PROVE  DurableInv' /\ NewSent /\ Advances
<1>1. /\ Holds(i, node[i], plog[i], NoFault') /\ Settled(node[i]) /\ node[i].out = {}
      /\ node[i] \in Node /\ plog[i] \in Record
  BY NodeHolds
<1>2. node[i].loaded /\ node[i].op = "none"
  BY <1>1, EntryNumbers DEF Holds, Local, Shape, uncertain, Node
<1>3. Check(node[i], ~uncertain(node[i])) = node[i]
  BY <1>1, <1>2, CheckTrue DEF uncertain, Holds, Local
<1>4. /\ node[i].ok /\ (node[i].max_cont = Entry => node[i].max_chosen = Entry)
      /\ node[i].active_peer # i /\ \A m \in node[i].waiting_msg : MsgOK(i, m)
      /\ UpdateAccepts(plog[i])
      /\ node[i].max_plog = Entry /\ node[i].max_cont = 0 => plog[i].promised > 0
      /\ Sent(i, node[i], plog[i])
  BY <1>1 DEF Holds, Local, Shape, Parked, Covered
<1>5. NoFault' => node[i].max_cont = Entry /\ plog[i].chosen
  BY <1>1 DEF Holds, Local, Shape, Intact
<1>6. LET N == DestroyEntryInfo(node[i]) IN
      Holds(i, N, plog[i], NoFault') /\ Steady(node[i], N)
  BY <1>1, <1>2, <1>4, <1>5, DestroyHolds
<1>7. Settled(DestroyEntryInfo(node[i]))
  BY <1>1, <1>2, <1>6, SteadySettled
<1> QED
  BY <1>3, <1>6, <1>7, GoSamePlog

LEMMA CrashDurable ==
    ASSUME TypeInv, DurableInv, NEW i \in Acceptors, Crash(i)
    PROVE  DurableInv' /\ NewSent /\ Advances
<1>1. PICK written \in BOOLEAN, committed \in BOOLEAN :
        /\ written => node[i].op = "set"
        /\ committed => node[i].committing
        /\ plog' = IF written THEN [plog EXCEPT ![i] = node[i].recs[i]] ELSE plog
        /\ db' = IF committed THEN db \cup {i} ELSE db
  BY DEF Crash
<1>2. Go(i, EntityAbsent(i), net) /\ plogErrors' = plogErrors /\ evictions' = evictions
  BY DEF Crash
<1>3. NoFault' \in BOOLEAN /\ (NoFault' <=> NoFault)
  BY <1>2, SameFault
<1>4. /\ \A j \in Acceptors : j # i => plog'[j] = plog[j]
      /\ plog'[i] \in Record /\ UpdateAccepts(plog'[i]) /\ Advances
  BY <1>1, WrittenPlog
<1>5. Holds(i, EntityAbsent(i), plog'[i], NoFault') /\ Settled(EntityAbsent(i))
  BY <1>4, AbsentHolds
<1>6. NoFault' /\ i \in db' => plog[i].chosen
  <2>1. Local(i, node[i], plog[i], NoFault) /\ (NoFault /\ i \in db => plog[i].chosen)
    BY DEF DurableInv
  <2> QED
    BY <1>1, <1>3, <2>1 DEF Local, Intact
<1>7. \A j \in Acceptors : NoFault' /\ j \in db' => plog'[j].chosen
  <2> TAKE j \in Acceptors
  <2>1. CASE j = i
    BY <1>3, <1>4, <1>6, <2>1 DEF Advances, Advance
  <2>2. CASE j # i
    BY <1>1, <1>3, <1>4, <2>2 DEF DurableInv
  <2> QED
    BY <2>1, <2>2
<1> QED
  BY <1>2, <1>3, <1>4, <1>5, <1>7, GoDurable

LEMMA StepDurable ==
    ASSUME TypeInv, DurableInv, [Next]_vars
    PROVE  DurableInv' /\ NewSent /\ Advances
<1> DEFINE Goal == DurableInv' /\ NewSent /\ Advances
<1> SUFFICES Goal
  OBVIOUS
<1> HIDE DEF Goal
<1>1. ASSUME NEW i \in Writers, NEW v \in Values, ClientWrite(i, v) PROVE Goal
  <2> DEFINE cmd == [NoCmd EXCEPT !.kind = "write", !.value = v]
  <2>1. cmd \in ClientCmd /\ cmd.kind # "none"
    BY DEF NoCmd, ClientCmd
  <2>2. PICK pushed \in BOOLEAN, cu \in CatchupChoices :
          PlogQueue(pushed) /\ Go(i, HandleClientCmd(i, node[i], cmd, pushed, cu), net)
    BY <1>1 DEF ClientWrite
  <2>3. UNCHANGED <<plog, db, evictions>> /\ Idle(i) /\ i \in Acceptors
    BY <1>1, BoundsAssumption DEF ClientWrite
  <2> HIDE DEF cmd
  <2> QED
    BY <2>1, <2>2, <2>3, ClientDurable DEF Goal
<1>2. ASSUME NEW i \in Readers, ClientRead(i) PROVE Goal
  <2> DEFINE cmd == [NoCmd EXCEPT !.kind = "read", !.uuid = reads + 1,
                                  !.stale = acked # {}]
  <2>1. cmd \in ClientCmd /\ cmd.kind # "none"
    <3>1. reads + 1 \in Nat /\ (acked # {}) \in BOOLEAN
      BY BoundsAssumption DEF TypeInv, TypeOK
    <3> QED
      BY <3>1 DEF NoCmd, ClientCmd
  <2>2. PICK pushed \in BOOLEAN, cu \in CatchupChoices :
          PlogQueue(pushed) /\ Go(i, HandleClientCmd(i, node[i], cmd, pushed, cu), net)
    BY <1>2 DEF ClientRead
  <2>3. UNCHANGED <<plog, db, evictions>> /\ Idle(i) /\ i \in Acceptors
    BY <1>2, BoundsAssumption DEF ClientRead
  <2> HIDE DEF cmd
  <2> QED
    BY <2>1, <2>2, <2>3, ClientDurable DEF Goal
<1>3. ASSUME NEW m \in net, ReceivePaxosCmd(m) PROVE Goal
  BY <1>3, ReceiveDurable DEF Goal
<1>4. ASSUME NEW m \in net, LoseMessage(m) PROVE Goal
  BY <1>4, LoseDurable DEF Goal
<1>5. ASSUME NEW i \in Acceptors, ClientTimeout(i) PROVE Goal
  BY <1>5, TimeoutDurable DEF Goal
<1>6. ASSUME NEW i \in Acceptors, PlogSetRecord(i) PROVE Goal
  BY <1>6, SetDurable DEF Goal
<1>7. ASSUME NEW i \in Acceptors, PlogGetRecord(i) PROVE Goal
  BY <1>7, GetDurable DEF Goal
<1>8. ASSUME NEW i \in Acceptors, PlogLoad(i) PROVE Goal
  BY <1>8, LoadDurable DEF Goal
<1>9. ASSUME NEW i \in Acceptors, DrainWaitingMsg(i) PROVE Goal
  BY <1>9, DrainDurable DEF Goal
<1>10. ASSUME NEW i \in Acceptors, IterateAndCatchup(i) PROVE Goal
  BY <1>10, CatchupDurable DEF Goal
<1>11. ASSUME NEW i \in Acceptors, CleanupExpiredChosenEntry(i) PROVE Goal
  <2>1. /\ node[i].mem /\ node[i].old /\ plog' = plog /\ db' = db
        /\ plogErrors' = plogErrors /\ evictions' = evictions
        /\ Go(i, DestroyEntryInfo(Check(node[i], ~uncertain(node[i]))), net)
    BY <1>11 DEF CleanupExpiredChosenEntry
  <2>2. NoFault' \in BOOLEAN /\ (NoFault' <=> NoFault)
    BY <2>1, SameFault
  <2> QED
    BY <2>1, <2>2, RemoveDurable DEF Goal
<1>12. ASSUME NEW i \in Acceptors, MakeEnoughRoom(i) PROVE Goal
  <2>1. /\ node[i].mem /\ (node[i].old \/ ~uncertain(node[i])) /\ plog' = plog /\ db' = db
        /\ plogErrors' = plogErrors /\ evictions' = evictions + 1
        /\ Go(i, DestroyEntryInfo(Check(node[i], ~uncertain(node[i]))), net)
    BY <1>12 DEF MakeEnoughRoom
  <2>2. NoFault' \in BOOLEAN /\ ~NoFault'
    BY <2>1, BoundsAssumption DEF NoFault, TypeInv, TypeOK
  <2> QED
    BY <2>1, <2>2, RemoveDurable DEF Goal
<1>13. ASSUME NEW i \in Acceptors, Crash(i) PROVE Goal
  BY <1>13, CrashDurable DEF Goal
<1>14. ASSUME UNCHANGED vars PROVE Goal
  <2>1. /\ node' = node /\ plog' = plog /\ db' = db /\ net' = net
        /\ evictions' = evictions /\ plogErrors' = plogErrors
    BY <1>14 DEF vars
  <2>2. DurableInv'
    BY <2>1 DEF DurableInv, NoFault
  <2>3. NewSent /\ Advances
    BY <2>1 DEF NewSent, Advances, Advance, TypeInv, TypeOK, Record
  <2> QED
    BY <2>2, <2>3 DEF Goal
<1> QED
  BY <1>1, <1>2, <1>3, <1>4, <1>5, <1>6, <1>7, <1>8, <1>9, <1>10, <1>11, <1>12,
     <1>13, <1>14 DEF Next

(* The invariant of the handlers of every replica, and with it the types.  *)
THEOREM Durable == Spec => [](TypeInv /\ DurableInv)
<1>1. Init => TypeInv /\ DurableInv
  BY InitType, InitDurable
<1>2. TypeInv /\ DurableInv /\ [Next]_vars => (TypeInv /\ DurableInv)'
  BY NextType, StepDurable
<1> QED
  BY <1>1, <1>2, PTL DEF Spec

(* No assertion of EntityHelper or EntryStateMachine fails on any replica, *)
(* whatever its peers send, whatever is lost, evicted or fails, and        *)
(* wherever a process stops.                                               *)
THEOREM AssertsNeverFail == Spec => []AssertsHold
<1>1. DurableInv => AssertsHold
  BY DEF DurableInv, Local, AssertsHold
<1> QED
  BY <1>1, Durable, PTL

(* A replica tells its peers of a promise or of an accepted value only     *)
(* after the PlogWorker has stored it, in all the same circumstances.      *)
THEOREM SentAfterStored == Spec => SentIsPersistent
<1>1. TypeInv /\ DurableInv /\ [Next]_vars =>
        [\A m \in net' \ net :
            m.local.chosen \/ ~IsRecordNewer(plog'[m.from], m.local)]_vars
  BY StepDurable DEF NewSent
<1> QED
  BY <1>1, Durable, PTL DEF Spec, SentIsPersistent

(* Without an eviction or a failed plog operation the plog of a replica    *)
(* never goes back, however often and wherever its process stops.          *)
THEOREM PlogNeverGoesBack == Spec => PlogAdvances
<1>1. TypeInv /\ DurableInv /\ [Next]_vars =>
        [evictions + plogErrors = 0 =>
            \A i \in Acceptors :
                /\ plog[i].promised <= plog'[i].promised
                /\ plog[i].prepared <= plog'[i].prepared
                /\ plog[i].chosen => plog'[i] = plog[i]
                /\ plog[i].accepted <= plog'[i].accepted \/ plog'[i].chosen]_plog
  BY StepDurable DEF Advances, Advance, NoFault
<1> QED
  BY <1>1, Durable, PTL DEF Spec, PlogAdvances
=============================================================================
