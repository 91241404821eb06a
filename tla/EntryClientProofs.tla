------------------------- MODULE EntryClientProofs --------------------------
(***************************************************************************)
(* What the clients are answered, with any number of replicas.             *)
(*                                                                         *)
(* Reads.  A read is answered Ok without a value when a majority says that *)
(* it is empty, and otherwise when its own empty proposal is chosen.  Once *)
(* a write is answered Ok, both are excluded for the reads that are issued *)
(* from then on, as long as nothing is damaged: every one of the voters    *)
(* for the chosen value has promised and does not say any more that it is  *)
(* empty, and the proposals of a read are newer than the one that is       *)
(* chosen.                                                                 *)
(*                                                                         *)
(* Writes.  A value id names one value: a record has the value of its id,  *)
(* or none at all.  As one id is chosen, one write wins.                   *)
(***************************************************************************)
EXTENDS EntryAgreementProofs

(* An epoch e has the voters for the value of the first write that was     *)
(* answered Ok, the number of reads issued before it and in all, and the   *)
(* id of the value.                                                        *)
Epoch == [voters : SUBSET Acceptors, before : Nat, reads : Nat, id : Nat]

(* No voter answers a later read that it is empty.                         *)
FreshMsg(e, m) ==
    /\ m.uuid <= e.reads
    /\ m.uuid > e.before /\ ~m.check_empty /\ ~m.fast_failed
       => m.from \notin e.voters \/ m.local.promised > 0

(* The voters have promised, and the owner of the chosen value has         *)
(* prepared it.                                                            *)
Bound(e, i, x) ==
    (i \in e.voters => x.promised > 0) /\ (OwnedBy(e.id, i) => e.id <= x.prepared)

(* The value id of a command is one of the numbers its replica has         *)
(* prepared; the one of a later read is not chosen.                        *)
Asks(e, i, q, x) ==
    /\ q.uuid <= e.reads
    /\ q.kind # "none" /\ q.value_id # 0 => OwnedBy(q.value_id, i) /\ q.value_id <= x.prepared
    /\ q.kind = "read" =>
        /\ q.stale => q.uuid > e.before
        /\ q.uuid > e.before /\ q.value_id # 0 => q.value_id # e.id

(* The answers that a later read has counted are not from voters, unless   *)
(* it does not count any more.                                             *)
Counted(e, S, x) ==
    S.client.kind = "read" /\ S.client.uuid > e.before
        => S.empty_flags \cap e.voters = {} \/ x.promised > 0

(* No write is answered Ok, and no later read.                             *)
Silent(S) == S.done.kind # "write" /\ ~(S.done.kind = "read" /\ S.done.stale)

(* The part of a replica that does not depend on its command.              *)
Waits(e, i, S, r) ==
    /\ Bound(e, i, Counts(i, S, r))
    /\ ~S.mem => S.empty_flags = {}
    /\ \A m \in Held(S) : FreshMsg(e, m)

Calm(e, i, S, r) ==
    /\ Waits(e, i, S, r) /\ Asks(e, i, S.client, Counts(i, S, r))
    /\ Counted(e, S, Counts(i, S, r))

Fresh(e, i, S, r) == Calm(e, i, S, r) /\ Silent(S)

(* What most calls of a handler leave alone, and what they may send.       *)
Drifts(e, S, T) ==
    /\ T.client = S.client \/ T.client = NoCmd
    /\ T.empty_flags = S.empty_flags /\ T.done = S.done /\ (S.mem => T.mem)
    /\ (T.op = "set") = (S.op = "set") /\ T.recs = S.recs
    /\ \A m \in Held(T) : m \in Held(S) \/ FreshMsg(e, m)

LEMMA DriftsCalm ==
    ASSUME NEW e \in Epoch, NEW i, NEW r, NEW S, NEW T, Drifts(e, S, T), Calm(e, i, S, r)
    PROVE  Calm(e, i, T, r)
<1>1. Counts(i, T, r) = Counts(i, S, r)
  BY DEF Drifts, Counts
<1>2. Waits(e, i, T, r)
  BY <1>1 DEF Drifts, Calm, Waits
<1>3. Asks(e, i, NoCmd, Counts(i, S, r))
  BY DEF Asks, NoCmd, Epoch
<1>4. Asks(e, i, T.client, Counts(i, T, r))
  BY <1>1, <1>3 DEF Drifts, Calm
<1>5. Counted(e, T, Counts(i, T, r))
  BY <1>1 DEF Drifts, Calm, Counted, NoCmd
<1> QED
  BY <1>2, <1>4, <1>5 DEF Calm

LEMMA DriftsFresh ==
    ASSUME NEW e \in Epoch, NEW i, NEW r, NEW S, NEW T, Drifts(e, S, T), Fresh(e, i, S, r)
    PROVE  Fresh(e, i, T, r)
BY DriftsCalm DEF Drifts, Fresh, Silent

LEMMA DriftsTrans ==
    ASSUME NEW e, NEW S, NEW T, NEW U, Drifts(e, S, T), Drifts(e, T, U)
    PROVE  Drifts(e, S, U)
BY DEF Drifts

LEMMA DriftsSelf == \A e, S : Drifts(e, S, S)
BY DEF Drifts

(* Sending.                                                                *)
LEMMA RemoveFresh ==
    ASSUME NEW e, NEW m \in PaxosCmd, FreshMsg(e, m)
    PROVE  FreshMsg(e, RemoveValueInRecord(m))
<1> DEFINE x == RemoveValueInRecord(m)
           l == IF m.local.value_id = m.peer.value_id
                THEN [m.local EXCEPT !.value = NoValue, !.id_only = TRUE] ELSE m.local
           p == [m.peer EXCEPT !.value = NoValue, !.id_only = TRUE]
<1>1. x = IF m.peer.value_id = 0 THEN m ELSE [m EXCEPT !.local = l, !.peer = p]
  BY DEF RemoveValueInRecord
<1>2. x.from = m.from /\ Copy(x.local, m.local)
  BY RemoveCopies
<1> HIDE DEF l, p
<1>3. x.uuid = m.uuid /\ x.check_empty = m.check_empty /\ x.fast_failed = m.fast_failed
  BY <1>1 DEF PaxosCmd
<1> HIDE DEF x
<1>4. FreshMsg(e, x)
  BY <1>2, <1>3 DEF FreshMsg, Copy
<1> QED
  BY <1>4 DEF x

LEMMA SendDrifts ==
    ASSUME NEW e, NEW S \in Node, NEW m \in PaxosCmd, FreshMsg(e, m)
    PROVE  Drifts(e, S, Send(S, m))
<1> DEFINE x == RemoveValueInRecord(m)
           T == [S EXCEPT !.out = S.out \cup {x}]
<1>1. Send(S, m) = T /\ FreshMsg(e, x)
  BY RemoveFresh DEF Send
<1> HIDE DEF x
<1>2. /\ T.client = S.client /\ T.empty_flags = S.empty_flags /\ T.done = S.done
      /\ T.mem = S.mem /\ T.op = S.op /\ T.recs = S.recs /\ T.out = S.out \cup {x}
      /\ T.waiting_msg = S.waiting_msg /\ T.waiting_msgs = S.waiting_msgs
  BY DEF Node
<1> HIDE DEF T
<1>3. Drifts(e, S, T)
  BY <1>1, <1>2 DEF Drifts, Held
<1> QED
  BY <1>1, <1>3

LEMMA SyncDrifts ==
    ASSUME NEW e \in Epoch, NEW i \in Acceptors, NEW S \in Node, NEW P \in SUBSET Acceptors
    PROVE  Drifts(e, S, SyncToPeers(i, S, P))
<1> DEFINE M == {RemoveValueInRecord(SyncMsg(i, S, p)) : p \in P}
           T == [S EXCEPT !.out = S.out \cup M]
<1>1. SyncToPeers(i, S, P) = T
  BY DEF SyncToPeers
<1>2. ASSUME NEW p \in P PROVE FreshMsg(e, RemoveValueInRecord(SyncMsg(i, S, p)))
  <2>1. SyncMsg(i, S, p) \in PaxosCmd
    BY SyncMsgType
  <2>2. SyncMsg(i, S, p).uuid = 0
    BY DEF SyncMsg
  <2> QED
    BY <2>1, <2>2, RemoveFresh DEF FreshMsg, Epoch
<1>3. \A m \in M : FreshMsg(e, m)
  BY <1>2
<1> HIDE DEF M
<1>4. /\ T.client = S.client /\ T.empty_flags = S.empty_flags /\ T.done = S.done
      /\ T.mem = S.mem /\ T.op = S.op /\ T.recs = S.recs /\ T.out = S.out \cup M
      /\ T.waiting_msg = S.waiting_msg /\ T.waiting_msgs = S.waiting_msgs
  BY DEF Node
<1> HIDE DEF T
<1>5. Drifts(e, S, T)
  BY <1>3, <1>4 DEF Drifts, Held
<1> QED
  BY <1>1, <1>5

LEMMA CheckEmptyDrifts ==
    ASSUME NEW e \in Epoch, NEW i \in Acceptors, NEW S \in Node, S.client.uuid <= e.reads
    PROVE  Drifts(e, S, BroadcastCheckEmpty(i, S))
<1> DEFINE msg(p) == [SyncMsg(i, S, p) EXCEPT !.local = EmptyRecord, !.peer = EmptyRecord,
                                              !.check_empty = TRUE, !.uuid = S.client.uuid]
           M == {msg(p) : p \in Peers(i)}
           T == [S EXCEPT !.out = S.out \cup M]
<1>1. BroadcastCheckEmpty(i, S) = T
  BY DEF BroadcastCheckEmpty
<1>2. \A p \in Peers(i) : msg(p).check_empty = TRUE /\ msg(p).uuid = S.client.uuid
  BY DEF SyncMsg
<1> HIDE DEF msg
<1>3. \A m \in M : FreshMsg(e, m)
  BY <1>2 DEF FreshMsg
<1> HIDE DEF M
<1>4. /\ T.client = S.client /\ T.empty_flags = S.empty_flags /\ T.done = S.done
      /\ T.mem = S.mem /\ T.op = S.op /\ T.recs = S.recs /\ T.out = S.out \cup M
      /\ T.waiting_msg = S.waiting_msg /\ T.waiting_msgs = S.waiting_msgs
  BY DEF Node
<1> HIDE DEF T
<1>5. Drifts(e, S, T)
  BY <1>3, <1>4 DEF Drifts, Held
<1> QED
  BY <1>1, <1>5 DEF msg

(* The other fields.                                                       *)
LEMMA FieldsDrift ==
    ASSUME NEW e, NEW S \in Node, NEW b, NEW m, NEW d
    PROVE  /\ Drifts(e, S, FinishErr(S)) /\ Drifts(e, S, Check(S, b))
           /\ Drifts(e, S, LearnMaxChosen(S, m)) /\ Drifts(e, S, [S EXCEPT !.drain = d])
<1>1. Drifts(e, S, FinishErr(S))
  <2> DEFINE T == FinishErr(S)
  <2>1. /\ T.client = NoCmd /\ T.empty_flags = S.empty_flags /\ T.done = S.done
        /\ T.mem = S.mem /\ T.op = S.op /\ T.recs = S.recs /\ T.out = S.out
        /\ T.waiting_msg = S.waiting_msg /\ T.waiting_msgs = S.waiting_msgs
    BY DEF FinishErr, Node
  <2> HIDE DEF T
  <2>2. Drifts(e, S, T)
    BY <2>1 DEF Drifts, Held
  <2> QED
    BY <2>2 DEF T
<1>2. ASSUME NEW T, /\ T.client = S.client /\ T.empty_flags = S.empty_flags
                    /\ T.done = S.done /\ T.mem = S.mem /\ Same(S, T) /\ T.out = S.out
      PROVE  Drifts(e, S, T)
  BY <1>2 DEF Drifts, Held, Same
<1>3. Drifts(e, S, Check(S, b))
  <2> DEFINE T == Check(S, b)
  <2>1. T.client = S.client /\ T.empty_flags = S.empty_flags /\ T.done = S.done /\ T.mem = S.mem
    BY DEF Check, Node
  <2>2. Same(S, T) /\ T.out = S.out
    BY SameFields
  <2> HIDE DEF T
  <2>3. Drifts(e, S, T)
    BY <1>2, <2>1, <2>2
  <2> QED
    BY <2>3 DEF T
<1>4. Drifts(e, S, LearnMaxChosen(S, m))
  <2> DEFINE T == LearnMaxChosen(S, m)
  <2>1. T.client = S.client /\ T.empty_flags = S.empty_flags /\ T.done = S.done /\ T.mem = S.mem
    BY DEF LearnMaxChosen, Node
  <2>2. Same(S, T) /\ T.out = S.out
    BY SameFields
  <2> HIDE DEF T
  <2>3. Drifts(e, S, T)
    BY <1>2, <2>1, <2>2
  <2> QED
    BY <2>3 DEF T
<1>5. Drifts(e, S, [S EXCEPT !.drain = d])
  <2> DEFINE T == [S EXCEPT !.drain = d]
  <2>1. T.client = S.client /\ T.empty_flags = S.empty_flags /\ T.done = S.done /\ T.mem = S.mem
    BY DEF Node
  <2>2. Same(S, T) /\ T.out = S.out
    BY SameFields
  <2> HIDE DEF T
  <2>3. Drifts(e, S, T)
    BY <1>2, <2>1, <2>2
  <2> QED
    BY <2>3 DEF T
<1> QED
  BY <1>1, <1>3, <1>4, <1>5

LEMMA UpdateByChosenDrifts ==
    ASSUME NEW e, NEW i, NEW S \in Node
    PROVE  Drifts(e, S, UpdateByChosenEntry(i, S))
<1> DEFINE auth == IF HasAcceptedMyProposal(i, S.recs, i) THEN Entry ELSE S.pre_auth
           next == S.max_cont + 1 = Entry
           old == S.old \/ next
           committing == S.committing \/ next
           U == [S EXCEPT !.max_chosen = Entry, !.pre_auth = auth, !.max_cont = Entry,
                          !.old = old, !.committing = committing]
<1>1. UpdateByChosenEntry(i, S) = S \/ UpdateByChosenEntry(i, S) = U
  BY DEF UpdateByChosenEntry
<1> HIDE DEF auth, old, committing
<1>2. /\ U.client = S.client /\ U.empty_flags = S.empty_flags /\ U.done = S.done
      /\ U.mem = S.mem /\ U.op = S.op /\ U.recs = S.recs /\ U.out = S.out
      /\ U.waiting_msg = S.waiting_msg /\ U.waiting_msgs = S.waiting_msgs
  BY DEF Node
<1> HIDE DEF U
<1>3. Drifts(e, S, U)
  BY <1>2 DEF Drifts, Held
<1> QED
  BY <1>1, <1>3, DriftsSelf

LEMMA CreateDrifts ==
    ASSUME NEW e, NEW S \in Node, Shape(S), NEW pushed \in BOOLEAN
    PROVE  Drifts(e, S, CreateEntryInfoIfMiss(S, pushed))
<1> DEFINE op == IF S.max_plog < Entry THEN S.op ELSE "get"
           T == [S EXCEPT !.mem = TRUE, !.op = op]
<1>1. CreateEntryInfoIfMiss(S, pushed) = S \/ (~S.mem /\ CreateEntryInfoIfMiss(S, pushed) = T)
  BY DEF CreateEntryInfoIfMiss
<1>2. op = S.op \/ op = "get"
  OBVIOUS
<1> HIDE DEF op
<1>3. /\ T.client = S.client /\ T.empty_flags = S.empty_flags /\ T.done = S.done
      /\ T.mem /\ T.op = op /\ T.recs = S.recs /\ T.out = S.out
      /\ T.waiting_msg = S.waiting_msg /\ T.waiting_msgs = S.waiting_msgs
  BY DEF Node
<1> HIDE DEF T
<1>4. ~S.mem => S.op # "set"
  BY DEF Shape
<1>5. ~S.mem => Drifts(e, S, T)
  BY <1>2, <1>3, <1>4 DEF Drifts, Held
<1> QED
  BY <1>1, <1>5, DriftsSelf

LEMMA FastFailDrifts ==
    ASSUME NEW e, NEW S \in Node, NEW m \in PaxosCmd, FreshMsg(e, m)
    PROVE  Drifts(e, S, FastFail(S, m))
<1> DEFINE b == SendBack(m)
           x == [b EXCEPT !.max_chosen = S.max_chosen, !.fast_failed = TRUE, !.check_empty = FALSE]
<1>1. b \in PaxosCmd /\ b.uuid = m.uuid
  BY SendBackFacts DEF SendBack, PaxosCmd
<1>2. FastFail(S, m) = Send(S, x)
  BY DEF FastFail
<1> HIDE DEF b
<1>3. S.max_chosen \in 0 .. Entry
  BY NodeFields
<1>4. x \in PaxosCmd /\ x.uuid = m.uuid /\ x.fast_failed = TRUE
  BY <1>1, <1>3 DEF PaxosCmd
<1> HIDE DEF x
<1>5. FreshMsg(e, x)
  BY <1>4 DEF FreshMsg
<1> QED
  BY <1>2, <1>4, <1>5, SendDrifts

(* A replica that knows of the choice does not say that it is empty.       *)
LEMMA LocalChosenDrifts ==
    ASSUME NEW e, NEW i \in Acceptors, NEW S, NEW r \in Record, Holds(i, S, r, TRUE),
           LocalChosen(i, S), S.op # "load", S.loaded, NEW m \in PaxosCmd, FreshMsg(e, m)
    PROVE  Drifts(e, S, HandleIfLocalChosen(i, S, m, r))
<1> DEFINE mine == IF S.mem THEN S.recs[i] ELSE r
           l == [mine EXCEPT !.chosen = TRUE]
           x == [SendBack(m) EXCEPT !.local = l]
<1>0. S \in Node /\ S.recs \in Machine /\ S.recs[i] \in Record
  BY NodeFields DEF Holds
<1>1. CASE m.local.chosen
  BY <1>1, DriftsSelf DEF HandleIfLocalChosen
<1>2. CASE ~m.local.chosen
  <2>1. HandleIfLocalChosen(i, S, m, r) = Send(S, x)
    BY <1>2 DEF HandleIfLocalChosen
  <2>2. mine.chosen /\ UpdateAccepts(mine)
    <3>1. Shape(S) /\ Intact(i, S, r) /\ UpdateAccepts(r) /\ UpdateAccepts(S.recs[i])
      BY DEF Holds, Local, Covered, MachineInv, WellFormed
    <3>2. S.mem /\ state(i, S) = "Chosen" => S.recs[i].chosen
      BY <1>0, StateChosen DEF state
    <3>3. S.op \in {"none", "load", "get", "set"} /\ S.max_cont \in 0 .. Entry
      BY <1>0 DEF Node
    <3>4. CASE S.mem
      BY <3>1, <3>2, <3>3, <3>4, EntryNumbers DEF LocalChosen, Shape, Intact
    <3>5. CASE ~S.mem
      BY <3>1, <3>3, <3>5, EntryNumbers DEF LocalChosen, Shape, Intact
    <3> QED
      BY <3>4, <3>5
  <2>3. mine \in Record
    BY <1>0
  <2> HIDE DEF mine
  <2>4. l \in Record /\ l.promised > 0
    <3>1. mine.promised > 0
      BY <2>2, <2>3 DEF Record, UpdateAccepts, IsValidRecord
    <3> QED
      BY <2>3, <3>1 DEF Record
  <2> HIDE DEF l
  <2>5. SendBack(m) \in PaxosCmd /\ SendBack(m).uuid = m.uuid
    BY SendBackFacts DEF SendBack, PaxosCmd
  <2>6. x \in PaxosCmd /\ x.uuid = m.uuid /\ x.local = l
    BY <2>4, <2>5 DEF PaxosCmd
  <2> HIDE DEF x
  <2>7. FreshMsg(e, x)
    BY <2>4, <2>6 DEF FreshMsg
  <2> QED
    BY <1>0, <2>1, <2>6, <2>7, SendDrifts
<1> QED
  BY <1>1, <1>2

LEMMA TryCatchupDrifts ==
    ASSUME NEW e \in Epoch, NEW i \in Acceptors, NEW S, NEW r \in Record,
           Holds(i, S, r, TRUE), S.loaded, S.op # "load", NEW pushed \in BOOLEAN, NEW cu
    PROVE  Drifts(e, S, TryCatchup(i, S, pushed, cu))
<1> DEFINE T == CreateEntryInfoIfMiss(S, pushed)
<1>1. CASE S.max_cont = S.max_chosen \/ (~S.mem /\ cu = "none")
  BY <1>1, DriftsSelf DEF TryCatchup
<1>2. CASE ~(S.max_cont = S.max_chosen \/ (~S.mem /\ cu = "none"))
  <2>1. Shape(S) /\ S \in Node /\ S.max_cont \in 0 .. Entry /\ S.max_chosen \in 0 .. Entry
    BY HoldsNode DEF Holds, Local
  <2>2. S.max_cont = 0
    BY <1>2, <2>1, EntryNumbers DEF Shape
  <2>3. T \in Node /\ T.active_peer \in Acceptors
    BY <2>2, CreateHolds, HoldsNode
  <2>4. Drifts(e, S, T)
    BY <2>1, CreateDrifts
  <2>5. \/ TryCatchup(i, S, pushed, cu) = T
        \/ TryCatchup(i, S, pushed, cu) = UpdateByChosenEntry(i, T)
        \/ TryCatchup(i, S, pushed, cu) = SyncToPeers(i, T, {T.active_peer})
    BY <1>2 DEF TryCatchup
  <2> HIDE DEF T
  <2>6. Drifts(e, T, UpdateByChosenEntry(i, T))
    BY <2>3, UpdateByChosenDrifts
  <2>7. Drifts(e, T, SyncToPeers(i, T, {T.active_peer}))
    BY <2>3, SyncDrifts
  <2> QED
    BY <2>4, <2>5, <2>6, <2>7, DriftsTrans
<1> QED
  BY <1>1, <1>2

(* A record that is being stored is not below the one in the plog.         *)
LEMMA CountsGrow ==
    ASSUME NEW i \in Acceptors, NEW T, NEW r \in Record, Holds(i, T, r, TRUE)
    PROVE  LET y == Counts(i, T, r) IN
           /\ y \in Record /\ r.prepared <= y.prepared /\ r.promised <= y.promised
           /\ T.op = "set" => y.promised > 0
<1>1. r.prepared \in Nat /\ r.promised \in Nat
  BY DEF Record
<1>2. T.recs[i] \in Record
  BY HoldsNode
<1>3. T.op = "set" => Advance(r, T.recs[i]) /\ T.recs[i].promised > 0
  BY DEF Holds, Local, Intact, Covered
<1> QED
  BY <1>1, <1>2, <1>3 DEF Counts, Advance

LEMMA BoundGrows ==
    ASSUME NEW e \in Epoch, NEW i, NEW x \in Record, NEW y \in Record, Bound(e, i, x),
           x.prepared <= y.prepared, x.promised <= y.promised
    PROVE  Bound(e, i, y)
BY DEF Bound, Epoch, Record

LEMMA AsksGrows ==
    ASSUME NEW e, NEW i, NEW q \in ClientCmd, NEW x \in Record, NEW y \in Record,
           Asks(e, i, q, x), x.prepared <= y.prepared
    PROVE  Asks(e, i, q, y)
<1>1. q.value_id \in Nat /\ x.prepared \in Nat /\ y.prepared \in Nat
  BY DEF ClientCmd, Record
<1>2. q.value_id <= x.prepared => q.value_id <= y.prepared
  BY <1>1
<1> QED
  BY <1>2 DEF Asks

(* What an empty replica has not done.                                     *)
LEMMA LocalEmpty ==
    ASSUME NEW i \in Acceptors, NEW recs \in Machine, IsLocalEmpty(i, recs)
    PROVE  recs[i].promised = 0 /\ ~recs[i].chosen
<1>1. /\ recs[i].promised \in Nat /\ recs[i].prepared \in Nat
      /\ recs[i].chosen \in BOOLEAN
  BY MachineFields
<1>2. entry_state(i, recs) = "Normal"
  BY DEF IsLocalEmpty
<1> QED
  BY <1>1, <1>2 DEF entry_state

(* A command that makes a proposal: its number is a new one.               *)
LEMMA HandleWriteFresh ==
    ASSUME NEW e \in Epoch, NEW i \in Acceptors, NEW S \in Node, NEW r \in Record,
           Holds(i, FinishErr(S), r, TRUE), Waits(e, i, S, r), Silent(S),
           Asks(e, i, S.client, r), S.client.kind # "none",
           S.op = "none", S.mem, S.max_cont = 0
    PROVE  Fresh(e, i, HandleWriteCmd(i, S, TRUE), r)
<1> DEFINE pre_auth == EnablePreAuth /\ S.pre_auth # NoEntry
                                     /\ S.pre_auth + 1 = Entry
           promised == Promise(i, S.recs, pre_auth)
           b == promised[i].promised
           cmd == [S.client EXCEPT !.value_id = b]
           P == [S EXCEPT !.recs = promised, !.client = cmd]
           accepted == Accept(i, promised, P.client.value, P.client.value_id)
           B == [P EXCEPT !.recs = accepted]
           A == Check(B, PreparedValueAccepted(promised))
           Q == IF IsLocalAcceptable(i, promised)
                THEN Check(A, state(i, A) = "AcceptLocal") ELSE P
           T == [StoreEntryInfo(Q) EXCEPT !.broadcast = TRUE]
<1>1. /\ S.recs \in Machine /\ S.client \in ClientCmd /\ MachineInv(i, S.recs)
      /\ S.recs[i] \in Record /\ ~S.recs[i].chosen /\ S.recs[i] = r
  <2> DEFINE E == FinishErr(S)
  <2>1. E.recs = S.recs /\ E.op = S.op /\ E.mem = S.mem /\ E.max_cont = S.max_cont
    BY FinishErrFields
  <2> HIDE DEF E
  <2>2. Holds(i, E, r, TRUE)
    BY DEF E
  <2> QED
    BY <2>1, <2>2, NodeFields, EntryNumbers DEF Holds, Local, ChosenKnown, Intact
<1>2. pre_auth \in BOOLEAN
  BY BoundsAssumption
<1>3. r.prepared \in Nat /\ r.promised \in Nat /\ r.prepared <= r.promised
  BY <1>1, MachineFields DEF MachineInv, WellFormed, UpdateAccepts, IsValidRecord
<1> HIDE DEF pre_auth
<1>4. /\ promised \in Machine /\ MachineInv(i, promised)
      /\ b = promised[i].prepared /\ b > r.promised /\ ~promised[i].chosen
      /\ promised[i].accepted = r.accepted
      /\ entry_state(i, promised) = "PromiseLocal"
  BY <1>1, <1>2, PromiseFacts
<1>5. OwnedBy(b, i) /\ b \in Nat
  BY <1>1, <1>2, <1>3, PromiseNumber, NextProposalFacts DEF OwnedBy
<1>6. HandleWriteCmd(i, S, TRUE) = T
  BY <1>4 DEF HandleWriteCmd, pre_auth
<1>7. Holds(i, HandleWriteCmd(i, S, TRUE), r, TRUE)
  BY HandleWriteHolds
<1> HIDE DEF promised
<1>8. IsLocalAcceptable(i, promised) => accepted[i].prepared = b
  <2>1. promised[i].accepted < promised[i].promised /\ b \in Nat \ {0}
    BY <1>1, <1>3, <1>4, <1>5, MachineFields DEF MachineInv, WellFormed, UpdateAccepts, IsValidRecord
  <2>2. P.client.value_id = b /\ P.client.value \in Values \cup {NoValue}
    <3>1. cmd.value_id = b /\ cmd.value \in Values \cup {NoValue}
      BY <1>1, <2>1 DEF ClientCmd
    <3> HIDE DEF cmd
    <3>2. P.client = cmd
      BY DEF Node
    <3> QED
      BY <3>1, <3>2
  <2> QED
    BY <1>4, <2>1, <2>2, AcceptFacts
<1> HIDE DEF b
<1>9. /\ cmd.kind = S.client.kind /\ cmd.value_id = b /\ cmd.uuid = S.client.uuid
      /\ cmd.stale = S.client.stale
  BY <1>1 DEF ClientCmd
<1> HIDE DEF cmd, accepted
<1>10. /\ T.recs = IF IsLocalAcceptable(i, promised) THEN accepted ELSE promised
       /\ T.op = "set" /\ T.out = S.out /\ T.mem = S.mem
       /\ T.waiting_msg = S.waiting_msg /\ T.waiting_msgs = S.waiting_msgs
       /\ T.client = cmd /\ T.empty_flags = S.empty_flags /\ T.done = S.done
  BY DEF Node, StoreEntryInfo, Check
<1> HIDE DEF T
<1>11. T.recs[i].prepared = b /\ Counts(i, T, r) = T.recs[i]
  BY <1>4, <1>8, <1>10 DEF Counts
<1>12. Counts(i, S, r) = r
  BY DEF Counts
<1>13. /\ Counts(i, T, r) \in Record /\ Counts(i, T, r).promised > 0
       /\ r.prepared <= Counts(i, T, r).prepared /\ r.promised <= Counts(i, T, r).promised
  BY <1>6, <1>7, <1>10, CountsGrow
<1>14. Waits(e, i, T, r)
  BY <1>10, <1>12, <1>13, BoundGrows DEF Waits, Held
<1>15. Asks(e, i, T.client, Counts(i, T, r))
  <2>1. b # e.id
    BY <1>3, <1>4, <1>5, <1>12 DEF Waits, Bound, Epoch
  <2> QED
    BY <1>5, <1>9, <1>10, <1>11, <2>1 DEF Asks
<1> QED
  BY <1>6, <1>10, <1>13, <1>14, <1>15 DEF Fresh, Calm, Counted, Silent

LEMMA HandleReadFresh ==
    ASSUME NEW e \in Epoch, NEW i \in Acceptors, NEW S \in Node, NEW r \in Record,
           Holds(i, FinishErr(S), r, TRUE), Waits(e, i, S, r), Silent(S),
           Asks(e, i, S.client, r), S.client.kind # "none",
           S.op = "none", S.mem, S.max_cont = 0
    PROVE  Fresh(e, i, HandleReadCmd(i, S, TRUE), r)
<1> DEFINE F == [S EXCEPT !.empty_flags = {i}]
<1>1. HandleReadCmd(i, S, TRUE) = IF ~IsLocalEmpty(i, S.recs) THEN HandleWriteCmd(i, S, TRUE)
                                  ELSE BroadcastCheckEmpty(i, F)
  BY DEF HandleReadCmd
<1>2. /\ F \in Node /\ F.client = S.client /\ F.empty_flags = {i} /\ F.done = S.done
      /\ F.mem = S.mem /\ F.op = S.op /\ F.recs = S.recs /\ F.out = S.out
      /\ F.waiting_msg = S.waiting_msg /\ F.waiting_msgs = S.waiting_msgs
  <2> DEFINE f == {i}
  <2>1. f \in SUBSET Acceptors
    OBVIOUS
  <2>2. F = [S EXCEPT !.empty_flags = f]
    OBVIOUS
  <2>3. QED
    <3> HIDE DEF f, F
    <3>1. /\ F \in Node /\ F.client = S.client /\ F.empty_flags = f /\ F.done = S.done
          /\ F.mem = S.mem /\ F.op = S.op /\ F.recs = S.recs /\ F.out = S.out
          /\ F.waiting_msg = S.waiting_msg /\ F.waiting_msgs = S.waiting_msgs
      BY <2>1, <2>2 DEF Node
    <3> QED
      BY <3>1 DEF f
<1> HIDE DEF F
<1>3. Counts(i, F, r) = r /\ Counts(i, S, r) = r
  BY <1>2 DEF Counts
<1>4. CASE IsLocalEmpty(i, S.recs)
  <2>1. S.recs[i] = r
    <3> DEFINE E == FinishErr(S)
    <3>1. E.recs = S.recs /\ E.op = S.op /\ E.mem = S.mem
      BY FinishErrFields
    <3> HIDE DEF E
    <3>2. Holds(i, E, r, TRUE)
      BY DEF E
    <3> QED
      BY <3>1, <3>2 DEF Holds, Local, Intact
  <2>2. r.promised = 0
    BY <1>4, <2>1, NodeFields, LocalEmpty
  <2>3. i \notin e.voters
    BY <1>3, <2>2 DEF Waits, Bound
  <2>4. Waits(e, i, F, r)
    BY <1>2, <1>3 DEF Waits, Held
  <2>5. Fresh(e, i, F, r)
    BY <1>2, <1>3, <2>3, <2>4 DEF Fresh, Calm, Counted, Silent
  <2>6. Drifts(e, F, BroadcastCheckEmpty(i, F))
    BY <1>2, CheckEmptyDrifts DEF Asks
  <2> QED
    BY <1>1, <1>4, <2>5, <2>6, DriftsFresh
<1> QED
  BY <1>1, <1>4, HandleWriteFresh

LEMMA FinishFresh ==
    ASSUME NEW e \in Epoch, NEW i, NEW S \in Node, NEW r, Waits(e, i, S, r), Silent(S)
    PROVE  Fresh(e, i, FinishErr(S), r)
<1> DEFINE T == FinishErr(S)
<1>1. Drifts(e, S, T)
  BY FieldsDrift
<1>2. T.client = NoCmd
  BY DEF FinishErr, Node
<1> HIDE DEF T
<1>3. Counts(i, T, r) = Counts(i, S, r)
  BY <1>1 DEF Drifts, Counts
<1>4. Waits(e, i, T, r) /\ Silent(T)
  BY <1>1, <1>3 DEF Drifts, Waits, Silent
<1>5. Asks(e, i, T.client, Counts(i, T, r)) /\ Counted(e, T, Counts(i, T, r))
  BY <1>2 DEF Asks, Counted, NoCmd, Epoch
<1>6. Fresh(e, i, T, r)
  BY <1>4, <1>5 DEF Fresh, Calm
<1> QED
  BY <1>6 DEF T

LEMMA DispatchFresh ==
    ASSUME NEW e \in Epoch, NEW i \in Acceptors, NEW S \in Node, NEW r \in Record,
           Holds(i, FinishErr(S), r, TRUE), Waits(e, i, S, r), Silent(S),
           Asks(e, i, S.client, Counts(i, S, r)), S.client.kind # "none",
           S.loaded, S.op # "load", NEW cu
    PROVE  Fresh(e, i, DispatchClientCmd(i, S, TRUE, cu), r)
<1> DEFINE E == FinishErr(S)
           T == CreateEntryInfoIfMiss(S, TRUE)
<1>1. /\ E \in Node /\ E.loaded = S.loaded /\ E.op = S.op /\ E.mem = S.mem
      /\ E.max_chosen = S.max_chosen /\ E.max_cont = S.max_cont
      /\ E.recs = S.recs /\ E.old = S.old /\ E.max_plog = S.max_plog
      /\ E.drain = S.drain /\ E.broadcast = S.broadcast /\ E.peer_to_sync = S.peer_to_sync
  BY FinishErrFields
<1>2. Fresh(e, i, E, r)
  BY FinishFresh
<1>3. Holds(i, E, r, TRUE)
  OBVIOUS
<1>4. CASE Entry # S.max_chosen + 1
  <2>1. DispatchClientCmd(i, S, TRUE, cu) = TryCatchup(i, E, TRUE, cu)
    BY <1>4 DEF DispatchClientCmd
  <2> HIDE DEF E
  <2>2. Drifts(e, E, TryCatchup(i, E, TRUE, cu))
    BY <1>1, <1>3, TryCatchupDrifts
  <2> QED
    BY <1>2, <2>1, <2>2, DriftsFresh
<1>5. CASE Entry = S.max_chosen + 1
  <2>1. DispatchClientCmd(i, S, TRUE, cu) \in
            {E, FinishErr(T)} \cup (IF T.mem /\ ~uncertain(T)
                THEN {HandleWriteCmd(i, T, TRUE), HandleReadCmd(i, T, TRUE)} ELSE {})
    BY <1>5 DEF DispatchClientCmd, EntryInfoAvailable
  <2>2. T \in Node
    BY CreateType DEF GoodNode
  <2>3. Shape(S) /\ S.max_cont = 0
    <3> HIDE DEF E
    <3>1. Shape(E)
      BY <1>3 DEF Holds, Local
    <3>2. S.max_cont \in 0 .. Entry /\ S.max_chosen \in 0 .. Entry
      BY DEF Node
    <3> QED
      BY <1>1, <1>5, <3>1, <3>2, EntryNumbers DEF Shape
  <2>4. Waits(e, i, T, r) /\ Silent(T) /\ T.client = S.client
        /\ Counts(i, T, r) = Counts(i, S, r)
    <3>1. Drifts(e, S, T)
      BY <2>3, CreateDrifts
    <3>2. T.client = S.client
      BY DEF CreateEntryInfoIfMiss, Node
    <3> HIDE DEF T
    <3>3. Counts(i, T, r) = Counts(i, S, r)
      BY <3>1 DEF Drifts, Counts
    <3> QED
      BY <3>1, <3>2, <3>3 DEF Drifts, Waits, Silent
  <2>5. Fresh(e, i, FinishErr(T), r)
    BY <2>2, <2>4, FinishFresh
  <2>6. Holds(i, FinishErr(T), r, TRUE) /\ FinishErr(T).max_cont = 0
    <3>1. E.loaded /\ E.op # "load" /\ E.max_cont = 0
      BY <1>1, <2>3
    <3> HIDE DEF E
    <3>2. LET N == CreateEntryInfoIfMiss(E, TRUE) IN Holds(i, N, r, TRUE) /\ N.max_cont = 0
      BY <1>3, <3>1, CreateHolds
    <3>3. FinishErr(T) = CreateEntryInfoIfMiss(E, TRUE)
      BY CreateFinish DEF E
    <3> HIDE DEF T
    <3> QED
      BY <3>2, <3>3
  <2>7. T.max_cont = 0 /\ T.op # "load"
    <3>1. T.max_cont = S.max_cont /\ (S.op # "load" => T.op # "load")
      BY DEF CreateEntryInfoIfMiss, Node
    <3> QED
      BY <2>3, <3>1
  <2> HIDE DEF T, E
  <2>8. CASE T.mem /\ ~uncertain(T)
    <3>1. T.op = "none"
      BY <2>2, <2>7, <2>8 DEF uncertain, Node
    <3>2. Asks(e, i, T.client, r)
      BY <2>4, <3>1 DEF Counts
    <3>3. Fresh(e, i, HandleWriteCmd(i, T, TRUE), r)
      BY <2>2, <2>4, <2>6, <2>7, <2>8, <3>1, <3>2, HandleWriteFresh
    <3>4. Fresh(e, i, HandleReadCmd(i, T, TRUE), r)
      BY <2>2, <2>4, <2>6, <2>7, <2>8, <3>1, <3>2, HandleReadFresh
    <3> QED
      BY <1>2, <2>1, <2>5, <2>8, <3>3, <3>4
  <2>9. CASE ~(T.mem /\ ~uncertain(T))
    BY <1>2, <2>1, <2>5, <2>9
  <2> QED
    BY <2>8, <2>9
<1> QED
  BY <1>4, <1>5

LEMMA HandleClientCmdFresh ==
    ASSUME NEW e \in Epoch, NEW i \in Acceptors, NEW S, NEW r \in Record,
           Holds(i, S, r, TRUE), Fresh(e, i, S, r), NEW cmd \in ClientCmd, cmd.kind # "none",
           Asks(e, i, cmd, Counts(i, S, r)), NEW cu
    PROVE  Fresh(e, i, HandleClientCmd(i, S, cmd, TRUE, cu), r)
<1> DEFINE T == [S EXCEPT !.client = cmd]
           L == [T EXCEPT !.loaded = TRUE, !.op = "load"]
<1>1. /\ S \in Node /\ T \in Node /\ T.client = cmd /\ T.empty_flags = S.empty_flags
      /\ T.done = S.done /\ T.mem = S.mem /\ Same(S, T) /\ T.out = S.out
      /\ T.loaded = S.loaded
  BY DEF Holds, Node, Same
<1>2. FinishErr(T) = FinishErr(S)
  BY <1>1 DEF FinishErr, Node
<1>3. HandleClientCmd(i, S, cmd, TRUE, cu) =
          IF ~S.loaded THEN L
          ELSE IF loading(S) THEN T ELSE DispatchClientCmd(i, T, TRUE, cu)
  BY DEF HandleClientCmd
<1>4. /\ L.recs = S.recs /\ L.op = "load" /\ L.client = cmd /\ L.out = S.out
      /\ L.waiting_msg = S.waiting_msg /\ L.waiting_msgs = S.waiting_msgs
      /\ L.empty_flags = S.empty_flags /\ L.done = S.done /\ L.mem = S.mem
  BY <1>1 DEF Node
<1> HIDE DEF T, L
<1>5. Counts(i, T, r) = Counts(i, S, r) /\ Held(T) = Held(S)
  BY <1>1 DEF Counts, Same, Held
<1>6. Waits(e, i, T, r) /\ Silent(T) /\ Asks(e, i, T.client, Counts(i, T, r))
  BY <1>1, <1>5 DEF Fresh, Calm, Waits, Silent
<1>7. CASE ~S.loaded
  <2>1. S.op = "none" /\ ~S.mem
    BY <1>7 DEF Holds, Local, Shape
  <2>2. Held(L) = Held(S) /\ Counts(i, L, r) = Counts(i, S, r)
    BY <1>4, <2>1 DEF Held, Counts
  <2>3. Fresh(e, i, L, r)
    BY <1>4, <2>1, <2>2 DEF Fresh, Calm, Waits, Silent, Counted
  <2> QED
    BY <1>3, <1>7, <2>3
<1>8. CASE S.loaded
  <2>1. Holds(i, FinishErr(T), r, TRUE)
    BY <1>2, FinishHolds
  <2>2. ~loading(S) => Fresh(e, i, DispatchClientCmd(i, T, TRUE, cu), r)
    BY <1>1, <1>6, <1>8, <2>1, DispatchFresh DEF loading, Same
  <2>3. loading(S) => Fresh(e, i, T, r)
    <3>1. loading(S) => ~S.mem
      BY DEF Holds, Local, Shape, loading
    <3> QED
      BY <1>1, <1>6, <3>1 DEF Fresh, Calm, Waits, Counted
  <2> QED
    BY <1>3, <1>8, <2>2, <2>3
<1> QED
  BY <1>7, <1>8

-----------------------------------------------------------------------------
(* An answer is counted only by a replica that is empty.                   *)
LEMMA CountEmptyFresh ==
    ASSUME NEW e \in Epoch, NEW i \in Acceptors, NEW S \in Node, NEW r,
           Fresh(e, i, S, r), NEW m \in PaxosCmd,
           e.before < e.reads => IsMajority(e.voters),
           IsLocalEmpty(i, S.recs) =>
               /\ Counts(i, S, r).promised = 0 /\ S.mem
               /\ m.uuid > e.before => m.from \notin e.voters
    PROVE  Fresh(e, i, CountEmpty(i, S, m), r)
<1> DEFINE flags == S.empty_flags \cup {m.from}
           T == [S EXCEPT !.empty_flags = flags]
           N == CountEmpty(i, S, m)
           x == Counts(i, S, r)
<1>1. N = IF ~AnswersMyRead(S, m) THEN S
          ELSE IF ~IsLocalEmpty(i, S.recs) THEN FinishErr(S)
          ELSE IF 2 * Cardinality(T.empty_flags) > AcceptorNum THEN FinishOk(T) ELSE T
  BY DEF CountEmpty
<1>2. Fresh(e, i, FinishErr(S), r)
  BY FieldsDrift, DriftsFresh
<1>3. flags \in SUBSET Acceptors
  BY DEF Node, PaxosCmd
<1> HIDE DEF flags, N
<1>4. /\ T \in Node /\ T.client = S.client /\ T.empty_flags = flags /\ T.done = S.done
      /\ T.mem = S.mem /\ T.op = S.op /\ T.recs = S.recs /\ T.out = S.out
      /\ T.waiting_msg = S.waiting_msg /\ T.waiting_msgs = S.waiting_msgs
  BY <1>3 DEF Node
<1> DEFINE O == FinishOk(T)
<1>5. /\ O.client = NoCmd /\ O.empty_flags = flags /\ O.done = T.client
      /\ O.mem = T.mem /\ O.op = T.op /\ O.recs = T.recs /\ O.out = T.out
      /\ O.waiting_msg = T.waiting_msg /\ O.waiting_msgs = T.waiting_msgs
  BY <1>4 DEF Node, FinishOk
<1> HIDE DEF T, O
<1>6. /\ Counts(i, T, r) = x /\ Held(T) = Held(S)
      /\ Counts(i, O, r) = x /\ Held(O) = Held(S)
  BY <1>4, <1>5 DEF Counts, Held
<1>7. CASE AnswersMyRead(S, m) /\ IsLocalEmpty(i, S.recs)
  <2>1. x.promised = 0 /\ S.mem /\ S.client.kind = "read" /\ m.uuid = S.client.uuid
    BY <1>7 DEF AnswersMyRead
  <2>2. S.client.uuid > e.before => flags \cap e.voters = {}
    <3>1. S.client.uuid > e.before => S.empty_flags \cap e.voters = {} /\ m.from \notin e.voters
      BY <1>7, <2>1 DEF Fresh, Calm, Counted
    <3> QED
      BY <3>1 DEF flags
  <2>3. Waits(e, i, T, r) /\ Waits(e, i, O, r)
    BY <1>4, <1>5, <1>6, <2>1 DEF Fresh, Calm, Waits
  <2>4. Fresh(e, i, T, r)
    BY <1>4, <1>6, <2>2, <2>3 DEF Fresh, Calm, Counted, Silent
  <2>5. 2 * Cardinality(flags) > AcceptorNum => Fresh(e, i, O, r)
    <3> SUFFICES ASSUME 2 * Cardinality(flags) > AcceptorNum PROVE Fresh(e, i, O, r)
      OBVIOUS
    <3>1. IsMajority(flags)
      <4>1. IsFiniteSet(Acceptors)
        <5>1. 0 \in Int /\ AcceptorNum - 1 \in Int
          BY AcceptorNumAssumption
        <5> QED
          BY <5>1, FS_Interval DEF Acceptors
      <4>2. Cardinality(flags) \in Nat
        BY <1>3, <4>1, FS_Subset, FS_CardinalityType
      <4>3. \A c \in Nat : 2 * c > AcceptorNum => c >= AcceptorNum \div 2 + 1
        BY AcceptorNumAssumption, SMTT(30)
      <4> QED
        BY <4>2, <4>3 DEF IsMajority
    <3>2. S.client.uuid <= e.reads /\ S.client.uuid \in Nat /\ e.before \in Nat /\ e.reads \in Nat
          /\ e.voters \in SUBSET Acceptors
      BY NodeFields DEF Fresh, Calm, Asks, Epoch, ClientCmd
    <3>3. ~(S.client.uuid > e.before)
      <4> SUFFICES ASSUME S.client.uuid > e.before PROVE FALSE
        OBVIOUS
      <4>1. IsMajority(e.voters) /\ flags \cap e.voters = {}
        BY <2>2, <3>2
      <4> QED
        BY <1>3, <3>1, <3>2, <4>1, MajoritiesMeet
    <3>4. ~S.client.stale
      BY <2>1, <3>3 DEF Fresh, Calm, Asks
    <3>5. Silent(O)
      BY <1>4, <1>5, <2>1, <3>4 DEF Silent
    <3>6. Asks(e, i, NoCmd, x) /\ Counted(e, O, x)
      BY <1>5 DEF Asks, Counted, NoCmd, Epoch
    <3> QED
      BY <1>5, <1>6, <2>3, <3>5, <3>6 DEF Fresh, Calm
  <2> QED
    BY <1>1, <1>4, <1>7, <2>4, <2>5 DEF N, O
<1> QED
  BY <1>1, <1>2, <1>7 DEF N

(* The record that counts has grown.                                       *)
LEMMA GrownFresh ==
    ASSUME NEW e \in Epoch, NEW i, NEW S, NEW T, NEW r, NEW s, Fresh(e, i, S, r),
           Counts(i, S, r) \in Record, Counts(i, T, s) \in Record,
           Counts(i, S, r).prepared <= Counts(i, T, s).prepared,
           Counts(i, S, r).promised <= Counts(i, T, s).promised,
           S.client \in ClientCmd, T.client = S.client \/ T.client = NoCmd,
           T.empty_flags = S.empty_flags, T.done = S.done, S.mem => T.mem,
           Held(T) \subseteq Held(S)
    PROVE  Fresh(e, i, T, s)
<1> DEFINE x == Counts(i, S, r)
           y == Counts(i, T, s)
<1>1. Bound(e, i, y)
  BY BoundGrows DEF Fresh, Calm, Waits
<1>2. Asks(e, i, S.client, y)
  BY AsksGrows DEF Fresh, Calm
<1>3. Asks(e, i, NoCmd, y)
  BY DEF Asks, NoCmd, Epoch
<1>4. Counted(e, T, y)
  <2>1. x.promised > 0 => y.promised > 0
    BY DEF Record
  <2> HIDE DEF x, y
  <2>2. Counted(e, S, x)
    BY DEF Fresh, Calm, x
  <2> QED
    BY <2>1, <2>2 DEF Counted, NoCmd
<1>5. Waits(e, i, T, s) /\ Silent(T)
  BY <1>1 DEF Fresh, Calm, Waits, Silent
<1> QED
  BY <1>2, <1>3, <1>4, <1>5 DEF Fresh, Calm

LEMMA AcceptIfPromisedDrifts ==
    ASSUME NEW i, NEW S \in Node
    PROVE  LET T == AcceptIfPromised(i, S) IN
           /\ T.client = S.client \/ T.client = NoCmd
           /\ T.empty_flags = S.empty_flags /\ T.done = S.done
<1> DEFINE mine == S.client.kind # "none"
           recs == Accept(i, S.recs, IF mine THEN S.client.value ELSE NoValue,
                          IF mine THEN S.client.value_id ELSE S.recs[i].promised)
           B == [S EXCEPT !.recs = recs]
           T == Check(B, entry_state(i, recs) = "AcceptLocal")
           E == FinishErr(T)
<1>1. AcceptIfPromised(i, S) = S \/ AcceptIfPromised(i, S) = T \/ AcceptIfPromised(i, S) = E
  BY DEF AcceptIfPromised
<1> HIDE DEF recs
<1>2. T.client = S.client /\ T.empty_flags = S.empty_flags /\ T.done = S.done
  BY DEF Check, Node
<1>3. E.client = NoCmd /\ E.empty_flags = S.empty_flags /\ E.done = S.done
  BY DEF Check, Node, FinishErr
<1> HIDE DEF T, E
<1> QED
  BY <1>1, <1>2, <1>3

(* Whoever hears from a peer that has promised is not empty.               *)
LEMMA UpdateNotEmpty ==
    ASSUME NEW i \in Acceptors, NEW peer \in Acceptors, peer # i, NEW recs \in Machine,
           MachineInv(i, recs), NEW r \in Record, UpdateAccepts(r), r.promised > 0
    PROVE  LET q == Update(i, peer, recs, r) IN q[i].chosen \/ q[i].promised > 0
<1> DEFINE q == Update(i, peer, recs, r)
           seen == [recs EXCEPT ![peer] = r]
           followed == [seen EXCEPT ![i] = FollowPeer(seen[i], r)]
<1>1. q \in Machine /\ MachineInv(i, q)
  BY UpdateFacts
<1>2. q[peer].promised > 0
  <2>1. CASE ~IsRecordNewer(recs[peer], r)
    <3>1. q = recs
      BY <2>1 DEF Update
    <3>2. recs[peer] \in Record /\ UpdateAccepts(recs[peer])
      BY DEF Machine, MachineInv, WellFormed
    <3>3. recs[peer].promised > 0
      BY <2>1, <3>2 DEF IsRecordNewer, UpdateAccepts, IsValidRecord, Record
    <3> QED
      BY <3>1, <3>3
  <2>2. CASE IsRecordNewer(recs[peer], r)
    <3>1. q = IF recs[i].chosen THEN seen ELSE MarkChosen(i, followed)
      BY <2>2 DEF Update
    <3>2. seen \in Machine /\ seen[peer] = r
      BY DEF Machine
    <3> HIDE DEF seen, q
    <3>3. FollowPeer(seen[i], r) \in Record
      BY <3>2, FollowPeerType DEF Machine
    <3>4. followed \in Machine /\ followed[peer] = r
      BY <3>2, <3>3 DEF Machine
    <3> HIDE DEF followed
    <3>5. \A a \in Acceptors : a # i => MarkChosen(i, followed)[a] = followed[a]
      BY <3>4, MarkChosenFacts
    <3> QED
      BY <3>1, <3>2, <3>4, <3>5
  <2> QED
    BY <2>1, <2>2
<1> HIDE DEF q
<1>3. q[peer].promised \in Nat /\ q[i].promised \in Nat
  BY <1>1, MachineFields
<1>4. ~q[i].chosen => q[peer].promised <= q[i].promised
  BY <1>1 DEF MachineInv, Follows
<1>5. q[i].chosen \/ q[i].promised > 0
  BY <1>2, <1>3, <1>4
<1> QED
  BY <1>5 DEF q

LEMMA RecordStays ==
    ASSUME NEW x \in Record, NEW y \in Record, NEW z \in Record, Advance(x, y), Advance(y, z),
           ~IsRecordNewer(x, z), ~IsRecordNewer(x, y) => y = x, ~IsRecordNewer(y, z) => z = y
    PROVE  z = x
<1>1. CASE x.chosen
  BY <1>1 DEF Advance
<1>2. CASE ~x.chosen
  <2>1. ~z.chosen
    BY <1>2 DEF IsRecordNewer
  <2>2. ~y.chosen
    BY <2>1 DEF Advance
  <2>3. /\ x.promised \in Nat /\ y.promised \in Nat /\ z.promised \in Nat
        /\ x.prepared \in Nat /\ y.prepared \in Nat /\ z.prepared \in Nat
        /\ x.accepted \in Nat /\ y.accepted \in Nat /\ z.accepted \in Nat
    BY DEF Record
  <2>4. ~IsRecordNewer(x, y) /\ ~IsRecordNewer(y, z)
    BY <1>2, <2>1, <2>2, <2>3 DEF Advance, IsRecordNewer
  <2> QED
    BY <2>4
<1> QED
  BY <1>1, <1>2

LEMMA UpdateMachineFresh ==
    ASSUME NEW e \in Epoch, NEW i \in Acceptors, NEW S, NEW r \in Record,
           Holds(i, S, r, TRUE), Fresh(e, i, S, r),
           e.before < e.reads => IsMajority(e.voters),
           S.op = "none", S.mem, NEW m \in PaxosCmd, MsgOK(i, m), FreshMsg(e, m),
           ~m.fast_failed
    PROVE  Fresh(e, i, UpdateMachineByPaxosCmd(i, S, m, TRUE), r)
<1> DEFINE N == UpdateMachineByPaxosCmd(i, S, m, TRUE)
           q == Update(i, m.from, S.recs, m.local)
           U == [S EXCEPT !.recs = q]
           A == AcceptIfPromised(i, U)
           T == Check(A, CalcAsserts(q[i]))
           compensate == /\ state(i, U) # state(i, S)
                         /\ state(i, U) \in {"MajorityPromise", "Chosen"}
           newer == IsRecordNewer(S.recs[i], T.recs[i])
           need_sync == IsRecordNewer(m.peer, T.recs[i])
           O == StoreEntryInfo(T)
           sync == IF need_sync THEN m.from ELSE O.peer_to_sync
           comp == IF need_sync THEN compensate ELSE O.compensate
           X == [O EXCEPT !.peer_to_sync = sync, !.compensate = comp]
           Y == SyncToPeers(i, T, {m.from})
           V == Check(T, IsLocalEmpty(i, T.recs))
           answer == [SendBack(m) EXCEPT !.check_empty = FALSE]
<1>1. /\ S \in Node /\ S.recs \in Machine /\ MachineInv(i, S.recs) /\ S.ok
      /\ Numbered(i, S) /\ m.from \in Acceptors /\ m.from # i /\ m.local \in Record
      /\ m.peer \in Record /\ S.recs[i] \in Record /\ S.recs[i] = r
      /\ S.client \in ClientCmd
  BY NodeFields, MachineFields DEF Holds, Local, MsgOK, PaxosCmd, Intact
<1>2. q \in Machine /\ MachineInv(i, q) /\ q[i].prepared = S.recs[i].prepared
      /\ Advance(S.recs[i], q[i])
      /\ (~IsRecordNewer(S.recs[i], q[i]) => q[i] = S.recs[i])
  BY <1>1, UpdateFacts, ZenonT(40)
<1>3. N = IF ~UpdateAccepts(m.local) THEN S
          ELSE IF newer THEN CountEmpty(i, X, m)
          ELSE IF need_sync THEN CountEmpty(i, Y, m)
          ELSE IF m.check_empty THEN Send(V, answer)
          ELSE CountEmpty(i, T, m)
  <2>1. U.recs = q
    BY <1>1 DEF Node
  <2>2. X = [StoreEntryInfo(T) EXCEPT !.peer_to_sync = IF need_sync THEN m.from ELSE @,
                                      !.compensate = IF need_sync THEN compensate ELSE @]
    OBVIOUS
  <2> HIDE DEF X
  <2> QED
    BY <2>1, <2>2, SMTT(30) DEF UpdateMachineByPaxosCmd
<1>4. UpdateAccepts(m.local) /\ m.local.promised > 0 => q[i].chosen \/ q[i].promised > 0
  BY <1>1, UpdateNotEmpty
<1> HIDE DEF q, N
<1>5. /\ U \in Node /\ U.recs = q /\ Still(S, U) /\ U.client = S.client /\ U.ok = S.ok
      /\ U.empty_flags = S.empty_flags /\ U.done = S.done
      /\ U.out = S.out /\ U.waiting_msg = S.waiting_msg
  BY <1>1, <1>2 DEF Node, Still
<1> HIDE DEF U
<1>6. Numbered(i, U)
  BY <1>1, <1>2, <1>5 DEF Numbered
<1>7. /\ A \in Node /\ Still(U, A) /\ A.recs[i].prepared = q[i].prepared
      /\ Advance(q[i], A.recs[i]) /\ A.out = U.out /\ A.waiting_msg = U.waiting_msg
      /\ MachineInv(i, A.recs)
      /\ (~IsRecordNewer(q[i], A.recs[i]) => A.recs[i] = q[i])
  <2>1. MachineInv(i, U.recs) /\ U.ok
    BY <1>1, <1>2, <1>5
  <2>2. /\ A \in Node /\ MachineInv(i, A.recs) /\ A.recs[i].prepared = U.recs[i].prepared
        /\ Advance(U.recs[i], A.recs[i]) /\ A.out = U.out /\ A.waiting_msg = U.waiting_msg
        /\ (~IsRecordNewer(U.recs[i], A.recs[i]) => A.recs[i] = U.recs[i])
    BY <1>5, <1>6, <2>1, AcceptIfPromisedFacts
  <2>3. Still(U, A)
    BY <1>5, <1>6, <2>1, AcceptIfPromisedFacts DEF Still
  <2> QED
    BY <1>5, <2>2, <2>3
<1>8. /\ A.client = U.client \/ A.client = NoCmd
      /\ A.empty_flags = U.empty_flags /\ A.done = U.done
  BY <1>5, AcceptIfPromisedDrifts
<1> HIDE DEF A
<1>9. CalcAsserts(q[i]) \in BOOLEAN
  BY <1>2, MachineFields DEF CalcAsserts
<1>10. /\ T \in Node /\ Still(A, T) /\ T.recs = A.recs /\ T.client = A.client
       /\ T.empty_flags = A.empty_flags /\ T.done = A.done
       /\ T.out = A.out /\ T.waiting_msg = A.waiting_msg
  BY <1>7, <1>9 DEF Check, Node, Still
<1> HIDE DEF T
<1>11. /\ T.client = S.client \/ T.client = NoCmd
       /\ T.empty_flags = S.empty_flags /\ T.done = S.done
       /\ T.mem /\ T.op = "none" /\ Held(T) = Held(S)
  BY <1>5, <1>7, <1>8, <1>10 DEF Still, Held
<1>12. T.recs \in Machine /\ T.recs[i] \in Record /\ UpdateAccepts(T.recs[i])
  BY <1>7, <1>10, NodeFields DEF MachineInv, WellFormed
<1>13. r.prepared <= T.recs[i].prepared /\ r.promised <= T.recs[i].promised
  <2>1. q[i].promised \in Nat /\ r.promised \in Nat /\ T.recs[i].promised \in Nat
        /\ r.prepared \in Nat
    BY <1>1, <1>2, <1>12, MachineFields
  <2> QED
    BY <1>1, <1>2, <1>7, <1>10, <2>1 DEF Advance
<1>14. Counts(i, S, r) = r /\ Counts(i, T, r) = r
  BY <1>11 DEF Counts
<1>15. Fresh(e, i, T, r)
  <2>1. r.prepared <= r.prepared /\ r.promised <= r.promised
    BY DEF Record
  <2> QED
    BY <1>1, <1>11, <1>14, <2>1, GrownFresh
<1>16. newer \/ need_sync => ~IsLocalEmpty(i, T.recs)
  <2>1. newer \/ need_sync => T.recs[i].chosen \/ T.recs[i].promised > 0
    BY <1>1, <1>12 DEF IsRecordNewer, UpdateAccepts, IsValidRecord, Record
  <2> HIDE DEF newer, need_sync
  <2> QED
    BY <1>12, <2>1, LocalEmpty
<1>17. ~newer => T.recs[i] = S.recs[i]
  <2>1. S.recs[i].chosen \in BOOLEAN /\ q[i] \in Record
    BY <1>1, <1>2, MachineFields
  <2> QED
    BY <1>1, <1>2, <1>7, <1>10, <1>12, <2>1, RecordStays
<1>18. newer => Fresh(e, i, CountEmpty(i, X, m), r)
  <2>1. sync \in Acceptors \cup {NoPeer} /\ comp \in BOOLEAN
    BY <1>1, <1>10 DEF Node, StoreEntryInfo, Check
  <2>2. /\ O \in Node /\ O.op = "set" /\ O.mem = T.mem /\ O.recs = T.recs
        /\ O.client = T.client /\ O.empty_flags = T.empty_flags /\ O.done = T.done
        /\ O.out = T.out /\ O.waiting_msg = T.waiting_msg /\ O.waiting_msgs = T.waiting_msgs
    <3> DEFINE b == ~uncertain(T)
    <3>1. b \in BOOLEAN
      BY DEF uncertain
    <3>2. O = [Check(T, b) EXCEPT !.op = "set"]
      BY DEF StoreEntryInfo
    <3> HIDE DEF b, O
    <3> DEFINE C == Check(T, b)
    <3>3. /\ C \in Node /\ C.mem = T.mem /\ C.recs = T.recs /\ C.client = T.client
          /\ C.empty_flags = T.empty_flags /\ C.done = T.done /\ C.out = T.out
          /\ C.waiting_msg = T.waiting_msg /\ C.waiting_msgs = T.waiting_msgs
      BY <1>10, <3>1 DEF Node, Check
    <3>4. O = [C EXCEPT !.op = "set"]
      BY <3>2
    <3> HIDE DEF C
    <3> QED
      BY <3>3, <3>4 DEF Node
  <2> HIDE DEF sync, comp, O
  <2>3. /\ X \in Node /\ X.op = "set" /\ X.mem = O.mem /\ X.recs = O.recs
        /\ X.client = O.client /\ X.empty_flags = O.empty_flags /\ X.done = O.done
        /\ X.out = O.out /\ X.waiting_msg = O.waiting_msg /\ X.waiting_msgs = O.waiting_msgs
    BY <2>1, <2>2, ZenonT(40) DEF Node
  <2> HIDE DEF X
  <2>4. Counts(i, X, r) = T.recs[i] /\ Held(X) = Held(T)
    BY <2>2, <2>3 DEF Counts, Held
  <2>5. Fresh(e, i, X, r)
    <3>1. /\ X.client = S.client \/ X.client = NoCmd
          /\ X.empty_flags = S.empty_flags /\ X.done = S.done /\ X.mem /\ Held(X) = Held(S)
      BY <1>11, <2>2, <2>3, <2>4
    <3> QED
      BY <1>1, <1>12, <1>13, <1>14, <2>4, <3>1, GrownFresh
  <2> HIDE DEF newer
  <2> QED
    BY <1>16, <2>2, <2>3, <2>5, CountEmptyFresh
<1>19. need_sync => Fresh(e, i, CountEmpty(i, Y, m), r)
  <2>1. Y \in Node /\ Drifts(e, T, Y)
    BY <1>1, <1>10, SyncToPeersType, SyncDrifts DEF GoodNode
  <2> HIDE DEF Y, need_sync
  <2>2. Fresh(e, i, Y, r) /\ Y.recs = T.recs
    BY <1>15, <2>1, DriftsFresh DEF Drifts
  <2> QED
    BY <1>16, <2>1, <2>2, CountEmptyFresh
<1>20. ~newer /\ ~need_sync /\ m.check_empty => Fresh(e, i, Send(V, answer), r)
  <2> SUFFICES ASSUME ~newer, ~need_sync, m.check_empty PROVE Fresh(e, i, Send(V, answer), r)
    OBVIOUS
  <2>1. V \in Node /\ Drifts(e, T, V)
    BY <1>10, CheckType, FieldsDrift DEF GoodNode, IsLocalEmpty
  <2> HIDE DEF V
  <2>2. m.peer = EmptyRecord /\ m.to = i
    BY DEF MsgOK
  <2>3. T.recs[i].promised = 0
    BY <1>12, <2>2 DEF IsRecordNewer, EmptyRecord, Record
  <2>4. i \notin e.voters
    BY <1>1, <1>14, <1>17, <2>3 DEF Fresh, Calm, Waits, Bound
  <2>5. SendBack(m) \in PaxosCmd /\ SendBack(m).uuid = m.uuid /\ SendBack(m).from = i
    BY <2>2, SendBackFacts DEF SendBack, PaxosCmd
  <2>6. answer \in PaxosCmd /\ answer.uuid = m.uuid /\ answer.from = i
    BY <2>5 DEF PaxosCmd
  <2> HIDE DEF answer
  <2>7. FreshMsg(e, answer)
    BY <2>4, <2>6 DEF FreshMsg
  <2>8. Drifts(e, V, Send(V, answer))
    BY <2>1, <2>6, <2>7, SendDrifts
  <2> QED
    BY <1>15, <2>1, <2>8, DriftsFresh
<1>21. UpdateAccepts(m.local) /\ ~newer /\ ~m.check_empty => Fresh(e, i, CountEmpty(i, T, m), r)
  <2> SUFFICES ASSUME UpdateAccepts(m.local), ~newer, ~m.check_empty
               PROVE  Fresh(e, i, CountEmpty(i, T, m), r)
    OBVIOUS
  <2> HIDE DEF newer
  <2>1. IsLocalEmpty(i, T.recs) => /\ Counts(i, T, r).promised = 0 /\ T.mem
                                   /\ m.uuid > e.before => m.from \notin e.voters
    <3> SUFFICES ASSUME IsLocalEmpty(i, T.recs)
                 PROVE  /\ Counts(i, T, r).promised = 0 /\ T.mem
                        /\ m.uuid > e.before => m.from \notin e.voters
      OBVIOUS
    <3>1. T.recs[i].promised = 0 /\ ~T.recs[i].chosen
      BY <1>12, LocalEmpty
    <3>2. q[i].promised = 0 /\ ~q[i].chosen
      <4>1. q[i] \in Record /\ q[i].promised \in Nat
        BY <1>2, MachineFields
      <4> QED
        BY <1>7, <1>10, <3>1, <4>1 DEF Advance
    <3>3. ~(m.local.promised > 0)
      BY <1>4, <3>2
    <3> QED
      BY <1>1, <1>11, <1>14, <1>17, <3>1, <3>3 DEF FreshMsg
  <2> QED
    BY <1>10, <1>15, <2>1, CountEmptyFresh
<1> HIDE DEF newer, need_sync, X, Y, V, answer
<1> QED
  BY <1>3, <1>18, <1>19, <1>20, <1>21 DEF N

LEMMA RestoredFresh ==
    ASSUME NEW e, NEW S \in Node, NEW m \in PaxosCmd, FreshMsg(e, m)
    PROVE  LET c == RestoreValue(S, m) IN FreshMsg(e, c) /\ c.fast_failed = m.fast_failed
<1> DEFINE restored(x) == IF x.id_only THEN RestoreValueInRecord(S.recs, x) ELSE x
           l == restored(m.local)
           p == restored(m.peer)
           c == RestoreValue(S, m)
<1>1. c = [m EXCEPT !.local = l, !.peer = p]
  BY DEF RestoreValue
<1>2. c.from = m.from /\ Copy(c.local, m.local)
  BY RestoredTells
<1> HIDE DEF l, p
<1>3. c.uuid = m.uuid /\ c.check_empty = m.check_empty /\ c.fast_failed = m.fast_failed
  BY <1>1 DEF PaxosCmd
<1> HIDE DEF c
<1>4. FreshMsg(e, c) /\ c.fast_failed = m.fast_failed
  BY <1>2, <1>3 DEF FreshMsg, Copy
<1> QED
  BY <1>4 DEF c

LEMMA ParkDrifts ==
    ASSUME NEW e, NEW S \in Node, NEW m \in PaxosCmd, FreshMsg(e, m), NEW a \in Acceptors
    PROVE  Drifts(e, S, [S EXCEPT !.waiting_msgs = [S.waiting_msgs EXCEPT ![a] = {m}]])
<1> DEFINE w == [S.waiting_msgs EXCEPT ![a] = {m}]
           T == [S EXCEPT !.waiting_msgs = w]
<1>1. \A b \in Acceptors : \A x \in w[b] : x = m \/ x \in S.waiting_msgs[b]
  BY NodeFields
<1> HIDE DEF w
<1>2. /\ T.client = S.client /\ T.empty_flags = S.empty_flags /\ T.done = S.done
      /\ T.mem = S.mem /\ T.op = S.op /\ T.recs = S.recs /\ T.out = S.out
      /\ T.waiting_msg = S.waiting_msg /\ T.waiting_msgs = w
  BY DEF Node
<1> HIDE DEF T
<1>3. Drifts(e, S, T)
  BY <1>1, <1>2 DEF Drifts, Held
<1> QED
  BY <1>3 DEF T, w

LEMMA HandleLoadedFresh ==
    ASSUME NEW e \in Epoch, NEW i \in Acceptors, NEW S, NEW r \in Record,
           Holds(i, S, r, TRUE), Fresh(e, i, S, r),
           e.before < e.reads => IsMajority(e.voters),
           S.loaded, S.op # "load", NEW m \in PaxosCmd, MsgOK(i, m), FreshMsg(e, m), NEW cu
    PROVE  Fresh(e, i, HandleLoadedPaxosCmd(i, S, m, r, TRUE, cu), r)
<1> DEFINE N == HandleLoadedPaxosCmd(i, S, m, r, TRUE, cu)
           L == LearnMaxChosen(S, m)
           mine == L.client.kind # "none" /\ L.client.uuid = m.uuid
           F == IF mine THEN FinishErr(L) ELSE L
           T == CreateEntryInfoIfMiss(L, TRUE)
           c == RestoreValue(T, m)
           P == [T EXCEPT !.waiting_msgs = [T.waiting_msgs EXCEPT ![m.from] = {c}]]
           C == Check(T, ~T.broadcast /\ T.peer_to_sync = NoPeer)
           M == UpdateMachineByPaxosCmd(i, C, c, TRUE)
<1>1. Holds(i, L, r, TRUE) /\ Steady(S, L) /\ L.op = S.op
  BY LearnHolds
<1>2. Fresh(e, i, L, r)
  BY FieldsDrift, DriftsFresh DEF Holds
<1>3. N = IF m.check_empty /\ Entry <= L.max_chosen THEN FastFail(L, m)
          ELSE IF m.fast_failed THEN TryCatchup(i, F, TRUE, cu)
          ELSE IF LocalChosen(i, L) THEN HandleIfLocalChosen(i, L, m, r)
          ELSE IF ~T.mem THEN L
          ELSE IF uncertain(T) THEN P
          ELSE TryCatchup(i, M, TRUE, cu)
  <2> HIDE DEF L
  <2>1. P = [T EXCEPT !.waiting_msgs = [@ EXCEPT ![m.from] = {c}]]
    OBVIOUS
  <2> HIDE DEF P
  <2> QED
    BY <2>1 DEF HandleLoadedPaxosCmd, EntryInfoAvailable, L
<1> HIDE DEF L
<1>4. L \in Node /\ L.loaded /\ L.op # "load" /\ m.from \in Acceptors
  BY <1>1 DEF Holds, Steady, PaxosCmd
<1>5. Fresh(e, i, FastFail(L, m), r)
  BY <1>2, <1>4, FastFailDrifts, DriftsFresh
<1>6. LocalChosen(i, L) => Fresh(e, i, HandleIfLocalChosen(i, L, m, r), r)
  BY <1>1, <1>2, <1>4, LocalChosenDrifts, DriftsFresh
<1>7. Fresh(e, i, TryCatchup(i, F, TRUE, cu), r)
  <2>1. Holds(i, FinishErr(L), r, TRUE) /\ Steady(L, FinishErr(L)) /\ Fresh(e, i, FinishErr(L), r)
    BY <1>1, <1>2, <1>4, FinishHolds, FieldsDrift, DriftsFresh
  <2>2. Holds(i, F, r, TRUE) /\ Steady(L, F) /\ Fresh(e, i, F, r)
    <3>1. CASE mine
      BY <2>1, <3>1
    <3>2. CASE ~mine
      BY <1>1, <1>2, <3>2 DEF Steady
    <3> QED
      BY <3>1, <3>2
  <2> HIDE DEF F
  <2>3. F.loaded /\ F.op # "load"
    BY <1>4, <2>2 DEF Steady
  <2>4. Drifts(e, F, TryCatchup(i, F, TRUE, cu))
    BY <2>2, <2>3, TryCatchupDrifts
  <2> QED
    BY <2>2, <2>4, DriftsFresh
<1>8. CASE ~LocalChosen(i, L)
  <2>1. L.max_cont = 0
    BY <1>4, <1>8, EntryNumbers DEF LocalChosen, Node
  <2>2. Holds(i, T, r, TRUE) /\ Steady(L, T) /\ T.max_cont = 0
    BY <1>1, <1>4, <2>1, CreateHolds
  <2>3. Drifts(e, L, T)
    BY <1>1, <1>4, CreateDrifts DEF Holds, Local
  <2> HIDE DEF T, N
  <2>4. T \in Node /\ T.loaded /\ T.op # "load"
    BY <1>4, <2>2 DEF Holds, Steady
  <2>5. Fresh(e, i, T, r)
    BY <1>2, <2>3, DriftsFresh
  <2>6. c \in PaxosCmd /\ MsgOK(i, c) /\ FreshMsg(e, c) /\ c.fast_failed = m.fast_failed
    BY <2>4, RestoredOK, RestoredFresh
  <2> HIDE DEF c
  <2>7. Fresh(e, i, P, r)
    BY <1>4, <2>4, <2>5, <2>6, ParkDrifts, DriftsFresh
  <2>8. CASE T.mem /\ ~uncertain(T) /\ ~m.fast_failed
    <3>1. T.op = "none"
      BY <2>4, <2>8 DEF uncertain, Node
    <3>2. C = T
      BY <2>2, <2>4, <3>1, CheckTrue DEF Holds, Local, Shape
    <3>3. M = UpdateMachineByPaxosCmd(i, T, c, TRUE)
      BY <3>2
    <3> HIDE DEF M
    <3>4. Holds(i, M, r, TRUE) /\ Steady(T, M)
      BY <2>2, <2>6, <2>8, <3>1, <3>3, UpdateMachineHolds
    <3>5. Fresh(e, i, M, r)
      BY <2>2, <2>5, <2>6, <2>8, <3>1, <3>3, UpdateMachineFresh
    <3>6. M.loaded /\ M.op # "load"
      BY <2>4, <3>4 DEF Steady
    <3>7. Fresh(e, i, TryCatchup(i, M, TRUE, cu), r)
      <4>1. Drifts(e, M, TryCatchup(i, M, TRUE, cu))
        BY <3>4, <3>6, TryCatchupDrifts
      <4> QED
        BY <3>5, <4>1, DriftsFresh
    <3> HIDE DEF P
    <3> QED
      BY <1>2, <1>3, <1>5, <1>7, <1>8, <2>7, <2>8, <3>7 DEF N
  <2> HIDE DEF P, M
  <2> QED
    BY <1>2, <1>3, <1>5, <1>7, <1>8, <2>7, <2>8 DEF N
<1> HIDE DEF N, P, M, F, T
<1> QED
  BY <1>3, <1>5, <1>6, <1>7, <1>8 DEF N

LEMMA HandlePaxosCmdFresh ==
    ASSUME NEW e \in Epoch, NEW i \in Acceptors, NEW S, NEW r \in Record,
           Holds(i, S, r, TRUE), Fresh(e, i, S, r),
           e.before < e.reads => IsMajority(e.voters),
           NEW m \in PaxosCmd, MsgOK(i, m), FreshMsg(e, m), NEW cu
    PROVE  Fresh(e, i, HandlePaxosCmd(i, S, m, r, TRUE, cu), r)
<1> DEFINE L == [S EXCEPT !.loaded = TRUE, !.op = "load", !.waiting_msg = {m}]
           W == [S EXCEPT !.waiting_msg = {m}]
           N == HandleLoadedPaxosCmd(i, S, m, r, TRUE, cu)
<1>1. S \in Node /\ (~S.loaded => S.op = "none")
  BY DEF Holds, Local, Shape
<1>2. HandlePaxosCmd(i, S, m, r, TRUE, cu) =
          IF ~S.loaded THEN L ELSE IF loading(S) THEN W ELSE N
  BY DEF HandlePaxosCmd
<1>3. /\ L.client = S.client /\ L.empty_flags = S.empty_flags /\ L.done = S.done
      /\ L.mem = S.mem /\ L.op = "load" /\ L.recs = S.recs /\ L.out = S.out
      /\ L.waiting_msg = {m} /\ L.waiting_msgs = S.waiting_msgs
  BY <1>1 DEF Node
<1>4. /\ W.client = S.client /\ W.empty_flags = S.empty_flags /\ W.done = S.done
      /\ W.mem = S.mem /\ W.op = S.op /\ W.recs = S.recs /\ W.out = S.out
      /\ W.waiting_msg = {m} /\ W.waiting_msgs = S.waiting_msgs
  BY <1>1 DEF Node
<1> HIDE DEF L, W
<1>5. Drifts(e, S, W) /\ (~S.loaded => Drifts(e, S, L))
  BY <1>1, <1>3, <1>4 DEF Drifts, Held
<1>6. S.loaded /\ ~loading(S) => Fresh(e, i, N, r)
  BY HandleLoadedFresh DEF loading
<1> HIDE DEF N
<1> QED
  BY <1>2, <1>5, <1>6, DriftsFresh

LEMMA UpdateByChosenClient ==
    ASSUME NEW i, NEW S \in Node
    PROVE  UpdateByChosenEntry(i, S).client = S.client
BY DEF UpdateByChosenEntry, Node

-----------------------------------------------------------------------------
(* The loop over the parked messages.                                      *)

LEMMA EndOfLoopDrifts ==
    ASSUME NEW e \in Epoch, NEW i \in Acceptors, NEW S, NEW r \in Record,
           Holds(i, S, r, TRUE), S.loaded, S.op # "load", NEW pushed \in BOOLEAN, NEW cu
    PROVE  Drifts(e, S, EndOfLoop(i, S, pushed, cu))
<1> DEFINE T == [S EXCEPT !.drain = "no"]
           N == EndOfLoop(i, S, pushed, cu)
<1>1. Holds(i, T, r, TRUE) /\ T.loaded /\ T.op # "load"
  BY DrainHolds
<1>2. N = S \/ N = TryCatchup(i, T, pushed, cu) \/ N = T
  BY DEF EndOfLoop
<1>3. Drifts(e, S, T)
  BY FieldsDrift DEF Holds
<1> HIDE DEF T, N
<1>4. Drifts(e, T, TryCatchup(i, T, pushed, cu))
  BY <1>1, TryCatchupDrifts
<1> QED
  BY <1>2, <1>3, <1>4, DriftsSelf, DriftsTrans DEF N

LEMMA HandleWaitingMsgFresh ==
    ASSUME NEW e \in Epoch, NEW i \in Acceptors, NEW S, NEW r \in Record,
           Holds(i, S, r, TRUE), Fresh(e, i, S, r),
           e.before < e.reads => IsMajority(e.voters),
           S.drain # "no", S.waiting_msgs # NoWaiting, NEW cu
    PROVE  Fresh(e, i, HandleWaitingMsg(i, S, r, TRUE, cu), r)
<1> DEFINE full == {a \in Acceptors : S.waiting_msgs[a] # {}}
           a == NextWaiting(S)
           m == CHOOSE x \in S.waiting_msgs[a] : TRUE
           w == [S.waiting_msgs EXCEPT ![a] = {}]
           T == [S EXCEPT !.waiting_msgs = w]
           N == HandleLoadedPaxosCmd(i, T, m, r, TRUE, cu)
<1>1. /\ S \in Node /\ S.waiting_msgs \in [Acceptors -> Waiting]
      /\ S.loaded /\ S.op # "load"
  BY NodeFields DEF Holds, Local, Shape
<1>2. full # {}
  BY <1>1 DEF NoWaiting
<1>3. a \in Acceptors /\ S.waiting_msgs[a] # {}
  <2>1. \E b \in full : \A d \in full : b <= d
    BY <1>2, FirstAcceptor
  <2>2. NextWaiting(S) = CHOOSE b \in Acceptors :
              /\ S.waiting_msgs[b] # {}
              /\ \A d \in Acceptors : S.waiting_msgs[d] # {} => b <= d
    BY DEF NextWaiting
  <2> QED
    BY <2>1, <2>2
<1>4. HandleWaitingMsg(i, S, r, TRUE, cu) = EndOfLoop(i, N, TRUE, cu)
  <2>1. T = [S EXCEPT !.waiting_msgs = [@ EXCEPT ![a] = {}]]
    OBVIOUS
  <2> HIDE DEF T
  <2> QED
    BY <2>1 DEF HandleWaitingMsg
<1> HIDE DEF a
<1>5. m \in PaxosCmd /\ MsgOK(i, m) /\ FreshMsg(e, m)
  <2>1. m \in S.waiting_msgs[a]
    BY <1>3
  <2>2. m \in PaxosCmd /\ MsgOK(i, m) /\ m \in Held(S)
    BY <1>1, <1>3, <2>1 DEF Holds, Local, Parked, Waiting, Held
  <2> HIDE DEF m
  <2> QED
    BY <2>2 DEF Fresh, Calm, Waits
<1> HIDE DEF m
<1>6. Holds(i, T, r, TRUE) /\ Steady(S, T)
  BY <1>3, UnparkHolds
<1>7. \A b \in Acceptors : w[b] \subseteq S.waiting_msgs[b]
  BY <1>1
<1> HIDE DEF w
<1>8. /\ T.client = S.client /\ T.empty_flags = S.empty_flags /\ T.done = S.done
      /\ T.mem = S.mem /\ T.op = S.op /\ T.recs = S.recs /\ T.out = S.out
      /\ T.waiting_msg = S.waiting_msg /\ T.waiting_msgs = w /\ T.loaded = S.loaded
  BY <1>1 DEF Node
<1> HIDE DEF T
<1>9. Drifts(e, S, T)
  BY <1>7, <1>8 DEF Drifts, Held
<1>10. Fresh(e, i, T, r)
  BY <1>9, DriftsFresh
<1>11. Fresh(e, i, N, r)
  BY <1>1, <1>5, <1>6, <1>8, <1>10, HandleLoadedFresh
<1>12. Holds(i, N, r, TRUE) /\ Steady(T, N)
  BY <1>1, <1>5, <1>6, <1>8, HandleLoadedHolds
<1> HIDE DEF N
<1>13. N.loaded /\ N.op # "load"
  BY <1>1, <1>8, <1>12 DEF Steady
<1>14. Drifts(e, N, EndOfLoop(i, N, TRUE, cu))
  BY <1>12, <1>13, EndOfLoopDrifts
<1> QED
  BY <1>4, <1>11, <1>14, DriftsFresh

(* Responses of the PlogWorker.                                            *)

(* A command is answered Ok when its value id is the one that is chosen:   *)
(* a write, or a read that no write was answered before.                   *)
LEMMA HandleSetFresh ==
    ASSUME NEW e \in Epoch, NEW i \in Acceptors, NEW S, NEW s \in Record,
           Holds(i, S, s, TRUE), Fresh(e, i, S, s), S.op = "set", S.done = NoCmd,
           e.before < e.reads /\ S.recs[i].chosen => S.recs[i].value_id = e.id
    PROVE  LET N == HandleSetFromPlog(i, S, TRUE) IN
           /\ Calm(e, i, N, S.recs[i])
           /\ \/ Silent(N)
              \/ /\ N.done.kind = "write"
                 /\ S.recs[i].chosen /\ S.client.kind = "write"
                 /\ S.client.value_id = S.recs[i].value_id /\ S.client.value_id # 0
<1> DEFINE r == S.recs[i]
           U == [S EXCEPT !.op = "none"]
           V == UpdateByChosenEntry(i, U)
           W == FinishIfChosen(i, V)
           Y == SyncPersistent(i, W)
           O == [Y EXCEPT !.broadcast = FALSE, !.compensate = FALSE,
                          !.peer_to_sync = NoPeer, !.drain = "set"]
           E == [O EXCEPT !.drain = "no"]
           N == HandleSetFromPlog(i, S, TRUE)
           told == S.recs[i].chosen /\ S.client.kind = "write"
                   /\ S.client.value_id = S.recs[i].value_id /\ S.client.value_id # 0
<1>1. S \in Node /\ S.peer_to_sync # i /\ r \in Record /\ UpdateAccepts(r) /\ S.recs \in Machine
  BY HoldsNode DEF Holds, Local, Parked, MachineInv, WellFormed
<1>2. N = IF ~W.broadcast /\ W.peer_to_sync = NoPeer THEN W
          ELSE EndOfLoop(i, O, TRUE, "none")
  BY DEF HandleSetFromPlog
<1>3. /\ U \in Node /\ U.peer_to_sync = S.peer_to_sync /\ U.op = "none"
      /\ U.client = S.client /\ U.empty_flags = S.empty_flags /\ U.done = S.done
      /\ U.mem = S.mem /\ U.recs = S.recs /\ U.out = S.out
      /\ U.waiting_msg = S.waiting_msg /\ U.waiting_msgs = S.waiting_msgs
  BY <1>1 DEF Node
<1> HIDE DEF U, N
<1>4. Calm(e, i, U, r)
  <2>1. Counts(i, U, r) = Counts(i, S, s) /\ Held(U) = Held(S)
    BY <1>3 DEF Counts, Held
  <2> QED
    BY <1>3, <2>1 DEF Fresh, Calm, Waits, Counted
<1>5. V \in Node /\ Drifts(e, U, V) /\ Still(U, V) /\ V.client = U.client
  <2>1. V.client = U.client
    BY <1>3, UpdateByChosenClient
  <2> QED
    BY <1>3, <2>1, UpdateByChosenType, UpdateByChosenDrifts, UpdateByChosenStill DEF GoodNode
<1> HIDE DEF V
<1>6. Calm(e, i, V, r) /\ V.done = NoCmd /\ V.client = S.client /\ V.recs = S.recs
  BY <1>3, <1>4, <1>5, DriftsCalm DEF Drifts
<1>7. /\ W \in Node /\ Calm(e, i, W, r) /\ W.peer_to_sync = V.peer_to_sync
      /\ Silent(W) \/ (W.done.kind = "write" /\ told)
  <2>1. CASE W = V
    BY <1>5, <1>6, <2>1 DEF Silent, NoCmd
  <2>2. CASE W # V
    <3>1. /\ W = FinishOk(V) /\ state(i, V) = "Chosen" /\ V.client.kind # "none"
          /\ V.client.value_id = V.recs[i].value_id
      BY <2>2 DEF FinishIfChosen
    <3> HIDE DEF W
    <3>2. /\ W \in Node /\ W.client = NoCmd /\ W.empty_flags = V.empty_flags
          /\ W.done = V.client /\ W.peer_to_sync = V.peer_to_sync
          /\ W.mem = V.mem /\ W.op = V.op /\ W.recs = V.recs /\ W.out = V.out
          /\ W.waiting_msg = V.waiting_msg /\ W.waiting_msgs = V.waiting_msgs
      <4>1. W \in Node
        BY <1>5, <3>1, FinishType DEF GoodNode
      <4> QED
        BY <1>5, <3>1, <4>1 DEF FinishOk, Node
    <3>3. Counts(i, W, r) = Counts(i, V, r) /\ Held(W) = Held(V)
      BY <3>2 DEF Counts, Held
    <3>4. Calm(e, i, W, r)
      <4>1. Asks(e, i, NoCmd, Counts(i, V, r)) /\ Counted(e, W, Counts(i, W, r))
        BY <3>2 DEF Asks, Counted, NoCmd, Epoch
      <4> QED
        BY <1>6, <3>2, <3>3, <4>1 DEF Calm, Waits
    <3>5. r.chosen /\ S.client.value_id = r.value_id
      BY <1>1, <1>6, <3>1, StateChosen DEF state
    <3>6. r.value_id # 0
      BY <1>1, <3>5 DEF UpdateAccepts, IsValidRecord
    <3>7. S.client.kind = "read" => ~S.client.stale
      <4> SUFFICES ASSUME S.client.kind = "read", S.client.stale PROVE FALSE
        OBVIOUS
      <4>1. S.client.uuid > e.before /\ S.client.uuid <= e.reads
        BY DEF Fresh, Calm, Asks
      <4>2. S.client.uuid \in Nat /\ e.before \in Nat /\ e.reads \in Nat
        BY <1>1, NodeFields DEF ClientCmd, Epoch
      <4>3. r.value_id = e.id
        BY <3>5, <4>1, <4>2
      <4> QED
        BY <3>5, <3>6, <4>1, <4>3 DEF Fresh, Calm, Asks
    <3>8. S.client.kind \in {"none", "write", "read"}
      BY <1>1, NodeFields DEF ClientCmd
    <3> QED
      BY <1>6, <3>1, <3>2, <3>4, <3>5, <3>6, <3>7, <3>8 DEF Silent
  <2> QED
    BY <2>1, <2>2
<1> HIDE DEF W, told
<1>8. CASE W.broadcast \/ W.peer_to_sync # NoPeer
  <2>1. W.peer_to_sync # i
    BY <1>1, <1>3, <1>5, <1>7 DEF Still
  <2>2. PICK P \in SUBSET Peers(i) : Y = SyncToPeers(i, W, P)
    BY <1>7, <1>8, <2>1, SyncPersistentFacts
  <2>3. Y \in Node /\ Drifts(e, W, Y)
    BY <1>7, <2>2, SyncToPeersType, SyncDrifts DEF GoodNode, Peers
  <2> HIDE DEF Y
  <2>4. /\ O \in Node /\ O.client = Y.client /\ O.empty_flags = Y.empty_flags
        /\ O.done = Y.done /\ O.mem = Y.mem /\ O.op = Y.op /\ O.recs = Y.recs
        /\ O.out = Y.out /\ O.waiting_msg = Y.waiting_msg /\ O.waiting_msgs = Y.waiting_msgs
        /\ O.drain = "set"
    BY <2>3 DEF Node
  <2> HIDE DEF O
  <2>5. Drifts(e, Y, O)
    BY <2>4 DEF Drifts, Held
  <2>6. Drifts(e, O, E)
    BY <2>4, FieldsDrift
  <2> HIDE DEF E
  <2>7. N = O \/ N = E
    BY <1>2, <1>8, <2>4 DEF EndOfLoop, E
  <2>8. Drifts(e, W, N)
    BY <2>3, <2>5, <2>6, <2>7, DriftsTrans
  <2> QED
    BY <1>7, <2>8, DriftsCalm DEF Drifts, Silent, N, told
<1> QED
  BY <1>2, <1>7, <1>8 DEF N, told

LEMMA HandleGetFresh ==
    ASSUME NEW e \in Epoch, NEW i \in Acceptors, NEW S, NEW r \in Record,
           Holds(i, S, r, TRUE), Fresh(e, i, S, r), Settled(S), S.op = "get",
           NEW pushed \in BOOLEAN, NEW cu
    PROVE  Fresh(e, i, HandleGetFromPlog(i, S, r, TRUE, pushed, cu), r)
<1> DEFINE U == [S EXCEPT !.op = "none"]
           q == Update(i, i, U.recs, r)
           V == [U EXCEPT !.recs = q]
           C == UpdateByChosenEntry(i, V)
           X == [C EXCEPT !.drain = "get"]
<1>1. S \in Node /\ S.recs = NewMachine /\ UpdateAccepts(r)
  BY DEF Holds, Local, Shape, Covered
<1>2. HandleGetFromPlog(i, S, r, TRUE, pushed, cu) = EndOfLoop(i, X, pushed, cu)
  BY <1>1 DEF HandleGetFromPlog
<1>3. X = RecordRead(i, S, r)
  BY DEF RecordRead
<1>4. Holds(i, X, r, TRUE) /\ X.loaded /\ X.op # "load"
  <2> HIDE DEF X
  <2> QED
    BY <1>3, RecordReadHolds
<1>5. U \in Node /\ U.recs = NewMachine
  BY <1>1 DEF Node
<1>6. q \in Machine
  <2> HIDE DEF U
  <2> QED
    BY <1>1, <1>5, MachineRead
<1> HIDE DEF q
<1>7. /\ V \in Node /\ V.client = S.client /\ V.empty_flags = S.empty_flags /\ V.done = S.done
      /\ V.mem = S.mem /\ V.op = "none" /\ V.out = S.out
      /\ V.waiting_msg = S.waiting_msg /\ V.waiting_msgs = S.waiting_msgs
  BY <1>1, <1>6 DEF Node
<1> HIDE DEF V
<1>8. Fresh(e, i, V, r)
  <2>1. Counts(i, V, r) = Counts(i, S, r) /\ Held(V) = Held(S)
    BY <1>7 DEF Counts, Held
  <2> QED
    BY <1>7, <2>1 DEF Fresh, Calm, Waits, Counted, Silent
<1>9. C \in Node /\ Drifts(e, V, C)
  BY <1>7, UpdateByChosenType, UpdateByChosenDrifts DEF GoodNode
<1> HIDE DEF C
<1>10. Drifts(e, C, X)
  BY <1>9, FieldsDrift
<1> HIDE DEF X
<1>11. Drifts(e, X, EndOfLoop(i, X, pushed, cu))
  BY <1>4, EndOfLoopDrifts
<1> QED
  BY <1>2, <1>8, <1>9, <1>10, <1>11, DriftsTrans, DriftsFresh

LEMMA HandleLoadFresh ==
    ASSUME NEW e \in Epoch, NEW i \in Acceptors, NEW S, NEW r \in Record,
           Holds(i, S, r, TRUE), Fresh(e, i, S, r),
           e.before < e.reads => IsMajority(e.voters),
           S.op = "load", NEW b \in BOOLEAN, b => r.chosen, NEW cu
    PROVE  Fresh(e, i, HandleLoadFromPlog(i, S, r, b, TRUE, cu), r)
<1> DEFINE U == EntityLoaded(S, r, b)
           m == CHOOSE x \in S.waiting_msg : TRUE
           V == IF S.waiting_msg = {} THEN U
                ELSE HandleLoadedPaxosCmd(i, U, m, r, TRUE, cu)
<1>1. HandleLoadFromPlog(i, S, r, b, TRUE, cu) =
          IF V.client.kind = "none" THEN V ELSE DispatchClientCmd(i, V, TRUE, cu)
  BY DEF HandleLoadFromPlog, EntityLoaded
<1>2. Holds(i, U, r, TRUE) /\ U.loaded /\ U.op = "none"
  BY EntityLoadedHolds
<1>3. Fresh(e, i, U, r)
  <2>1. S \in Node
    BY DEF Holds
  <2>2. /\ U.client = S.client /\ U.empty_flags = S.empty_flags /\ U.done = S.done
        /\ U.mem = S.mem /\ U.op = "none" /\ U.recs = S.recs /\ U.out = S.out
        /\ U.waiting_msg = {} /\ U.waiting_msgs = S.waiting_msgs
    BY <2>1 DEF EntityLoaded, UpdateByLoadFromPlog, Node
  <2> HIDE DEF U
  <2>3. Drifts(e, S, U)
    BY <2>2 DEF Drifts, Held
  <2> QED
    BY <2>3, DriftsFresh
<1> HIDE DEF U
<1>4. S.waiting_msg # {} => m \in PaxosCmd /\ MsgOK(i, m) /\ FreshMsg(e, m)
  BY NodeFields DEF Holds, Local, Parked, Waiting, Fresh, Calm, Waits, Held
<1> HIDE DEF m
<1>5. Holds(i, V, r, TRUE) /\ Fresh(e, i, V, r) /\ V.loaded /\ V.op # "load"
  <2>1. CASE S.waiting_msg = {}
    BY <1>2, <1>3, <2>1
  <2>2. CASE S.waiting_msg # {}
    <3> DEFINE N == HandleLoadedPaxosCmd(i, U, m, r, TRUE, cu)
    <3>1. Holds(i, N, r, TRUE) /\ Steady(U, N)
      BY <1>2, <1>4, <2>2, HandleLoadedHolds
    <3>2. Fresh(e, i, N, r)
      BY <1>2, <1>3, <1>4, <2>2, HandleLoadedFresh
    <3>3. V = N
      BY <2>2
    <3> HIDE DEF N, V
    <3> QED
      BY <1>2, <3>1, <3>2, <3>3 DEF Steady
  <2> QED
    BY <2>1, <2>2
<1> HIDE DEF V
<1>6. Holds(i, FinishErr(V), r, TRUE) /\ V \in Node
  BY <1>5, FinishHolds DEF Holds
<1>7. V.client.kind # "none" => Fresh(e, i, DispatchClientCmd(i, V, TRUE, cu), r)
  BY <1>5, <1>6, DispatchFresh DEF Fresh, Calm
<1> QED
  BY <1>1, <1>5, <1>7

(* The entry leaves the memory, or the process stops.                      *)
LEMMA DestroyFresh ==
    ASSUME NEW e, NEW i, NEW S \in Node, NEW r, S.op = "none", Fresh(e, i, S, r)
    PROVE  Fresh(e, i, DestroyEntryInfo(S), r)
<1> DEFINE T == DestroyEntryInfo(S)
<1>1. /\ T.client = S.client /\ T.empty_flags = {} /\ T.done = S.done
      /\ T.op = "none" /\ T.out = S.out
      /\ T.waiting_msg = S.waiting_msg /\ T.waiting_msgs = NoWaiting
  BY DEF DestroyEntryInfo, Node
<1> HIDE DEF T
<1>2. Counts(i, T, r) = Counts(i, S, r) /\ \A m \in Held(T) : m \in Held(S)
  BY <1>1 DEF Counts, Held, NoWaiting
<1>3. Fresh(e, i, T, r)
  BY <1>1, <1>2 DEF Fresh, Calm, Waits, Counted, Silent
<1> QED
  BY <1>3 DEF T

LEMMA AbsentFresh ==
    ASSUME NEW e \in Epoch, NEW i \in Acceptors, NEW r, Bound(e, i, r)
    PROVE  LET A == EntityAbsent(i)
               T == [A EXCEPT !.loaded = TRUE] IN
           Fresh(e, i, A, r) /\ Fresh(e, i, T, r)
<1> DEFINE A == EntityAbsent(i)
           T == [A EXCEPT !.loaded = TRUE]
<1>1. A \in Node
  BY EntityAbsentType
<1>2. /\ A.client = NoCmd /\ A.empty_flags = {} /\ A.done = NoCmd /\ A.op = "none"
      /\ A.out = {} /\ A.waiting_msg = {} /\ A.waiting_msgs = NoWaiting
  BY DEF EntityAbsent
<1> HIDE DEF A
<1>3. /\ T.client = NoCmd /\ T.empty_flags = {} /\ T.done = NoCmd /\ T.op = "none"
      /\ T.out = {} /\ T.waiting_msg = {} /\ T.waiting_msgs = NoWaiting
  BY <1>1, <1>2 DEF Node
<1> HIDE DEF T
<1>4. Held(A) = {} /\ Held(T) = {} /\ Counts(i, A, r) = r /\ Counts(i, T, r) = r
  BY <1>2, <1>3 DEF Held, Counts, NoWaiting
<1>5. Asks(e, i, NoCmd, r) /\ NoCmd.kind = "none"
  BY DEF Asks, NoCmd, Epoch
<1>6. Fresh(e, i, A, r)
  BY <1>2, <1>4, <1>5 DEF Fresh, Calm, Waits, Counted, Silent
<1>7. Fresh(e, i, T, r)
  BY <1>3, <1>4, <1>5 DEF Fresh, Calm, Waits, Counted, Silent
<1> QED
  BY <1>6, <1>7 DEF A, T

-----------------------------------------------------------------------------
(* The steps of the system.                                                *)

(* The epoch of a state: before the first write is answered Ok it says     *)
(* nothing of the reads, afterwards its value is the chosen one.           *)
Dates(e) ==
    /\ e.reads = reads /\ e.before <= reads
    /\ \A i \in Acceptors : Fresh(e, i, node[i], plog[i])
    /\ \A m \in net : FreshMsg(e, m)
    /\ acked = {} => e.before = reads
    /\ acked # {} => /\ IsMajority(e.voters)
                     /\ \E j \in Acceptors : plog[j].chosen /\ plog[j].value_id = e.id

(* The inductive invariant.                                                *)
FreshInv ==
    Undamaged => /\ ~staleRead /\ \A i \in Acceptors : node[i].done = NoCmd
                 /\ \E e \in Epoch : Dates(e)

LEMMA EpochNow ==
    ASSUME FreshInv, Undamaged
    PROVE  \E e \in Epoch : Dates(e) /\ (e.before < e.reads => IsMajority(e.voters))
BY DEF FreshInv, Dates, Epoch

(* Replica i goes to S, and the epoch afterwards is e.                     *)
LEMMA GoFresh ==
    ASSUME TypeInv, FreshInv, Undamaged, NEW e \in Epoch, e.reads = reads', e.before <= reads',
           \A m \in net : FreshMsg(e, m),
           NEW i \in Acceptors, NEW S \in Node, NEW N0, Go(i, S, N0), N0 \subseteq net,
           \A j \in Acceptors : j # i => plog'[j] = plog[j] /\ Fresh(e, j, node[j], plog[j]),
           Calm(e, i, S, plog'[i]), ~(S.done.kind = "read" /\ S.done.stale),
           acked' = {} => e.before = reads',
           acked' # {} => /\ IsMajority(e.voters)
                          /\ \E j \in Acceptors : plog'[j].chosen /\ plog'[j].value_id = e.id
    PROVE  FreshInv'
<1> DEFINE T == [S EXCEPT !.out = {}, !.done = NoCmd]
<1>1. /\ T.client = S.client /\ T.empty_flags = S.empty_flags /\ T.done = NoCmd
      /\ T.mem = S.mem /\ T.op = S.op /\ T.recs = S.recs /\ T.out = {}
      /\ T.waiting_msg = S.waiting_msg /\ T.waiting_msgs = S.waiting_msgs
  BY DEF Node
<1>2. /\ node' = [node EXCEPT ![i] = T] /\ net' = N0 \cup S.out
      /\ staleRead' = (staleRead \/ (S.done.kind = "read" /\ S.done.stale))
  BY DEF Go
<1>3. node'[i] = T /\ \A j \in Acceptors : j # i => node'[j] = node[j]
  BY <1>2 DEF TypeInv, TypeOK
<1> HIDE DEF T
<1>4. Fresh(e, i, T, plog'[i])
  <2>1. Counts(i, T, plog'[i]) = Counts(i, S, plog'[i]) /\ Held(T) \subseteq Held(S)
    BY <1>1 DEF Counts, Held
  <2> QED
    BY <1>1, <2>1 DEF Fresh, Calm, Waits, Counted, Silent, NoCmd
<1>5. \A j \in Acceptors : Fresh(e, j, node'[j], plog'[j])
  BY <1>3, <1>4
<1>6. \A m \in net' : FreshMsg(e, m)
  BY <1>2 DEF Calm, Waits, Held
<1>7. ~staleRead' /\ \A j \in Acceptors : node'[j].done = NoCmd
  BY <1>1, <1>2, <1>3 DEF FreshInv
<1>8. Dates(e)'
  BY <1>5, <1>6 DEF Dates
<1> QED
  BY <1>7, <1>8 DEF FreshInv

(* Nothing is answered and no plog changes: the epoch stays.               *)
LEMMA GoSilent ==
    ASSUME TypeInv, FreshInv, Undamaged, NEW e \in Epoch, Dates(e), plog' = plog, reads' = reads,
           NEW i \in Acceptors, NEW S \in Node, NEW N0, Go(i, S, N0), N0 \subseteq net,
           Fresh(e, i, S, plog[i])
    PROVE  FreshInv' /\ acked' = acked
<1>1. acked' = acked
  BY DEF Go, Fresh, Silent
<1>2. ~(S.done.kind = "read" /\ S.done.stale) /\ Calm(e, i, S, plog'[i])
  BY DEF Fresh, Silent
<1> QED
  BY <1>1, <1>2, GoFresh DEF Dates

(* The voters and the id stay, and the reads go on.                        *)
LEMMA LaterFresh ==
    ASSUME NEW e \in Epoch, NEW f \in Epoch, f.voters = e.voters, f.id = e.id,
           e.reads <= f.reads, e.before <= f.before,
           f.before = e.before \/ e.before = e.reads
    PROVE  /\ \A m \in PaxosCmd : FreshMsg(e, m) => FreshMsg(f, m)
           /\ \A i, r : \A S \in Node : Fresh(e, i, S, r) => Fresh(f, i, S, r)
<1>1. /\ e.reads \in Nat /\ f.reads \in Nat /\ e.before \in Nat /\ f.before \in Nat
  BY DEF Epoch
<1>2. ASSUME NEW m \in PaxosCmd, FreshMsg(e, m) PROVE FreshMsg(f, m)
  <2>1. m.uuid \in Nat
    BY DEF PaxosCmd
  <2>2. m.uuid <= f.reads /\ (m.uuid > f.before => m.uuid > e.before)
    BY <1>1, <1>2, <2>1 DEF FreshMsg
  <2> QED
    BY <1>2, <2>2 DEF FreshMsg
<1>3. ASSUME NEW i, NEW r, NEW S \in Node, Fresh(e, i, S, r) PROVE Fresh(f, i, S, r)
  <2> DEFINE x == Counts(i, S, r)
             q == S.client
  <2>1. q.uuid \in Nat
    BY NodeFields DEF ClientCmd
  <2>2. Asks(e, i, q, x) /\ Counted(e, S, x) /\ Waits(e, i, S, r) /\ Silent(S)
    BY <1>3 DEF Fresh, Calm
  <2> HIDE DEF x
  <2>3. q.uuid <= f.reads /\ (q.uuid > f.before => q.uuid > e.before)
    BY <1>1, <2>1, <2>2 DEF Asks
  <2>4. q.kind = "read" /\ q.stale => q.uuid > f.before
    BY <1>1, <2>1, <2>2 DEF Asks
  <2>5. Asks(f, i, q, x)
    BY <2>2, <2>3, <2>4 DEF Asks
  <2>6. Counted(f, S, x)
    BY <2>2, <2>3 DEF Counted
  <2>7. \A m \in Held(S) : FreshMsg(f, m)
    BY <1>2, <2>2, HeldType DEF Waits
  <2>8. Waits(f, i, S, r)
    BY <2>2, <2>7 DEF Waits, Bound
  <2> QED
    BY <2>2, <2>5, <2>6, <2>8 DEF Fresh, Calm, x
<1> QED
  BY <1>2, <1>3

LEMMA ClientFresh ==
    ASSUME TypeInv, DurableInv, FreshInv, Undamaged, NoFault', NEW i \in Acceptors,
           NEW cmd \in ClientCmd, cmd.kind # "none", cmd.value_id = 0, Idle(i),
           NEW e \in Epoch, e.reads = reads', e.before <= reads',
           \A j \in Acceptors : Fresh(e, j, node[j], plog[j]),
           \A m \in net : FreshMsg(e, m),
           acked = {} => e.before = reads',
           acked # {} => /\ IsMajority(e.voters)
                         /\ \E j \in Acceptors : plog[j].chosen /\ plog[j].value_id = e.id,
           cmd.uuid <= e.reads, cmd.stale => cmd.uuid > e.before,
           NEW pushed \in BOOLEAN, NEW cu, PlogQueue(pushed), evictions' = evictions,
           plog' = plog, Go(i, HandleClientCmd(i, node[i], cmd, pushed, cu), net)
    PROVE  FreshInv' /\ acked' = acked
<1>1. NoFault /\ pushed = TRUE
  BY QueueFault
<1>2. Holds(i, node[i], plog[i], TRUE) /\ Settled(node[i]) /\ plog[i] \in Record
  BY <1>1, NodeHolds
<1>3. Asks(e, i, cmd, Counts(i, node[i], plog[i]))
  BY DEF Asks
<1> DEFINE N == HandleClientCmd(i, node[i], cmd, TRUE, cu)
<1>4. N \in Node
  BY <1>2, HandleClientCmdHolds DEF Idle, Holds
<1>5. Fresh(e, i, N, plog[i])
  BY <1>2, <1>3, HandleClientCmdFresh
<1>6. Go(i, N, net)
  BY <1>1
<1> HIDE DEF N
<1>7. acked' = acked
  BY <1>5, <1>6 DEF Go, Fresh, Silent
<1>8. ~(N.done.kind = "read" /\ N.done.stale) /\ Calm(e, i, N, plog'[i])
  BY <1>5 DEF Fresh, Silent
<1> QED
  BY <1>4, <1>6, <1>7, <1>8, GoFresh

LEMMA WriteFresh ==
    ASSUME TypeInv, DurableInv, FreshInv, Undamaged, NoFault', NEW i \in Acceptors,
           NEW v \in Values, ClientWrite(i, v)
    PROVE  FreshInv' /\ acked' = acked
<1> DEFINE cmd == [NoCmd EXCEPT !.kind = "write", !.value = v]
<1>1. /\ cmd \in ClientCmd /\ cmd.kind = "write" /\ cmd.value_id = 0 /\ cmd.uuid = 0
      /\ cmd.stale = FALSE
  BY DEF NoCmd, ClientCmd
<1>2. PICK pushed \in BOOLEAN, cu \in CatchupChoices :
        PlogQueue(pushed) /\ Go(i, HandleClientCmd(i, node[i], cmd, pushed, cu), net)
  BY DEF ClientWrite
<1>3. evictions' = evictions /\ Idle(i) /\ plog' = plog /\ reads' = reads
  BY DEF ClientWrite
<1> HIDE DEF cmd
<1>4. PICK e \in Epoch : Dates(e)
  BY DEF FreshInv
<1>5. cmd.uuid <= e.reads
  BY <1>1 DEF Epoch
<1> QED
  BY <1>1, <1>2, <1>3, <1>4, <1>5, ClientFresh DEF Dates

(* A read that is issued when a write has been answered Ok is a later one. *)
LEMMA ReadFresh ==
    ASSUME TypeInv, DurableInv, FreshInv, Undamaged, NoFault', NEW i \in Acceptors,
           ClientRead(i)
    PROVE  FreshInv' /\ acked' = acked
<1> DEFINE cmd == [NoCmd EXCEPT !.kind = "read", !.uuid = reads + 1, !.stale = acked # {}]
<1>1. /\ reads \in Nat /\ (acked # {}) \in BOOLEAN /\ net \subseteq PaxosCmd
      /\ node \in [Acceptors -> Node]
  BY BoundsAssumption DEF TypeInv, TypeOK
<1>2. PICK pushed \in BOOLEAN, cu \in CatchupChoices :
        PlogQueue(pushed) /\ Go(i, HandleClientCmd(i, node[i], cmd, pushed, cu), net)
  BY DEF ClientRead
<1>3. evictions' = evictions /\ Idle(i) /\ plog' = plog /\ reads' = reads + 1
  BY DEF ClientRead
<1>4. cmd \in ClientCmd /\ cmd.kind = "read" /\ cmd.value_id = 0 /\ cmd.uuid = reads + 1
  <2>1. reads + 1 \in Nat /\ (acked # {}) \in BOOLEAN
    BY <1>1
  <2>2. cmd \in ClientCmd /\ cmd.kind = "read"
    BY <2>1 DEF NoCmd, ClientCmd
  <2>3. cmd.value_id = 0 /\ cmd.uuid = reads + 1
    BY DEF NoCmd
  <2> QED
    BY <2>2, <2>3
<1>5. cmd.stale <=> acked # {}
  BY <1>1 DEF NoCmd
<1> HIDE DEF cmd
<1>6. PICK e \in Epoch : Dates(e)
  BY DEF FreshInv
<1> DEFINE n == IF acked = {} THEN reads + 1 ELSE e.before
           f == [voters |-> e.voters, before |-> n, reads |-> reads + 1, id |-> e.id]
<1>7. /\ n \in Nat /\ e.before <= n /\ n <= reads + 1 /\ e.reads = reads
      /\ n = e.before \/ e.before = e.reads
      /\ (acked # {} => reads + 1 > n) /\ (acked = {} => n = reads + 1)
  BY <1>1, <1>6 DEF Dates, Epoch
<1> HIDE DEF n
<1>8. /\ f \in Epoch /\ f.voters = e.voters /\ f.before = n /\ f.reads = reads + 1
      /\ f.id = e.id
  BY <1>1, <1>7 DEF Epoch
<1> HIDE DEF f
<1>9. e.reads <= f.reads /\ e.before <= f.before
  BY <1>1, <1>7, <1>8
<1>10. /\ \A m \in net : FreshMsg(f, m)
       /\ \A j \in Acceptors : Fresh(f, j, node[j], plog[j])
  BY <1>1, <1>6, <1>7, <1>8, <1>9, LaterFresh DEF Dates
<1>11. /\ acked = {} => f.before = reads'
       /\ acked # {} => /\ IsMajority(f.voters)
                        /\ \E j \in Acceptors : plog[j].chosen /\ plog[j].value_id = f.id
  BY <1>3, <1>6, <1>7, <1>8 DEF Dates
<1>12. f.reads = reads' /\ f.before <= reads' /\ cmd.uuid <= f.reads
  BY <1>1, <1>3, <1>4, <1>7, <1>8
<1>13. cmd.stale => cmd.uuid > f.before
  BY <1>4, <1>5, <1>7, <1>8
<1> QED
  BY <1>2, <1>3, <1>4, <1>8, <1>10, <1>11, <1>12, <1>13, ClientFresh

LEMMA ReceiveFresh ==
    ASSUME TypeInv, DurableInv, FreshInv, Undamaged, NoFault', NEW m \in net,
           ReceivePaxosCmd(m)
    PROVE  FreshInv' /\ acked' = acked
<1> DEFINE i == m.to
           N0 == IF Duplicates THEN net ELSE net \ {m}
<1>1. i \in Acceptors /\ m \in PaxosCmd /\ MsgOK(i, m) /\ N0 \subseteq net
  BY DEF DurableInv, TypeInv, TypeOK, PaxosCmd
<1> HIDE DEF N0
<1>2. PICK pushed \in BOOLEAN, cu \in CatchupChoicesAt(i, m.max_chosen) :
        PlogQueue(pushed) /\ Go(i, HandlePaxosCmd(i, node[i], m, plog[i], pushed, cu), N0)
  BY DEF ReceivePaxosCmd, N0
<1>3. evictions' = evictions /\ Idle(i) /\ plog' = plog /\ reads' = reads
  BY DEF ReceivePaxosCmd
<1> HIDE DEF i
<1>4. NoFault /\ pushed = TRUE
  BY <1>2, <1>3, QueueFault
<1>5. Holds(i, node[i], plog[i], TRUE) /\ Settled(node[i]) /\ plog[i] \in Record
  BY <1>1, <1>4, NodeHolds
<1>6. PICK e \in Epoch : Dates(e) /\ (e.before < e.reads => IsMajority(e.voters))
  BY EpochNow
<1> DEFINE N == HandlePaxosCmd(i, node[i], m, plog[i], TRUE, cu)
<1>7. N \in Node
  BY <1>1, <1>3, <1>5, HandlePaxosCmdHolds DEF Idle, Holds
<1>8. Fresh(e, i, N, plog[i])
  BY <1>1, <1>5, <1>6, HandlePaxosCmdFresh DEF Dates
<1>9. Go(i, N, N0)
  BY <1>2, <1>4
<1> HIDE DEF N
<1> QED
  BY <1>1, <1>3, <1>6, <1>7, <1>8, <1>9, GoSilent

LEMMA GetFresh ==
    ASSUME TypeInv, DurableInv, FreshInv, Undamaged, NoFault', NEW i \in Acceptors,
           PlogGetRecord(i)
    PROVE  FreshInv' /\ acked' = acked
<1>1. PICK success \in BOOLEAN, pushed \in BOOLEAN, cu \in CatchupChoices :
        /\ PlogResult(success /\ pushed)
        /\ Go(i, HandleGetFromPlog(i, node[i], plog[i], success, pushed, cu), net)
  BY DEF PlogGetRecord
<1>2. evictions' = evictions /\ node[i].op = "get" /\ plog' = plog /\ reads' = reads
  BY DEF PlogGetRecord
<1>3. NoFault /\ success = TRUE
  BY <1>1, <1>2, QueueFault DEF PlogResult
<1>4. Holds(i, node[i], plog[i], TRUE) /\ Settled(node[i]) /\ plog[i] \in Record
  BY <1>3, NodeHolds
<1>5. PICK e \in Epoch : Dates(e)
  BY DEF FreshInv
<1> DEFINE N == HandleGetFromPlog(i, node[i], plog[i], TRUE, pushed, cu)
<1>6. N \in Node
  BY <1>2, <1>4, HandleGetHolds DEF Holds
<1>7. Fresh(e, i, N, plog[i])
  BY <1>2, <1>4, <1>5, HandleGetFresh DEF Dates
<1>8. Go(i, N, net)
  BY <1>1, <1>3
<1> HIDE DEF N
<1> QED
  BY <1>2, <1>5, <1>6, <1>7, <1>8, GoSilent

LEMMA LoadFresh ==
    ASSUME TypeInv, DurableInv, FreshInv, Undamaged, NoFault', NEW i \in Acceptors,
           PlogLoad(i)
    PROVE  FreshInv' /\ acked' = acked
<1> DEFINE b == i \in db
<1>1. PICK success \in BOOLEAN, pushed \in BOOLEAN, cu \in CatchupChoices :
        /\ PlogResult(success /\ pushed)
        /\ Go(i, IF success
                 THEN HandleLoadFromPlog(i, node[i], plog[i], b, pushed, cu)
                 ELSE EntityAbsent(i), net)
  BY DEF PlogLoad
<1>2. evictions' = evictions /\ node[i].op = "load" /\ plog' = plog /\ reads' = reads
  BY DEF PlogLoad
<1>3. NoFault /\ success = TRUE /\ pushed = TRUE
  BY <1>1, <1>2, QueueFault DEF PlogResult
<1>4. b \in BOOLEAN /\ (b => plog[i].chosen)
  <2>1. b => plog[i].chosen
    BY <1>3 DEF DurableInv
  <2> QED
    BY <2>1
<1> HIDE DEF b
<1>5. Holds(i, node[i], plog[i], TRUE) /\ plog[i] \in Record
  BY <1>3, NodeHolds
<1>6. PICK e \in Epoch : Dates(e) /\ (e.before < e.reads => IsMajority(e.voters))
  BY EpochNow
<1> DEFINE N == HandleLoadFromPlog(i, node[i], plog[i], b, TRUE, cu)
<1>7. N \in Node
  BY <1>2, <1>4, <1>5, HandleLoadHolds DEF Holds
<1>8. Fresh(e, i, N, plog[i])
  BY <1>2, <1>4, <1>5, <1>6, HandleLoadFresh DEF Dates
<1>9. Go(i, N, net)
  BY <1>1, <1>3
<1> HIDE DEF N
<1> QED
  BY <1>2, <1>6, <1>7, <1>8, <1>9, GoSilent

LEMMA DrainFresh ==
    ASSUME TypeInv, DurableInv, FreshInv, Undamaged, NoFault', NEW i \in Acceptors,
           DrainWaitingMsg(i)
    PROVE  FreshInv' /\ acked' = acked
<1>1. PICK pushed \in BOOLEAN, cu \in CatchupChoices :
        PlogQueue(pushed) /\ Go(i, HandleWaitingMsg(i, node[i], plog[i], pushed, cu), net)
  BY DEF DrainWaitingMsg
<1>2. evictions' = evictions /\ node[i].drain # "no" /\ node[i].waiting_msgs # NoWaiting
  BY DEF DrainWaitingMsg, Idle, TypeInv, DrainInv, Draining
<1>3. plog' = plog /\ reads' = reads
  BY DEF DrainWaitingMsg
<1>4. NoFault /\ pushed = TRUE
  BY <1>1, <1>2, QueueFault
<1>5. Holds(i, node[i], plog[i], TRUE) /\ Settled(node[i]) /\ plog[i] \in Record
  BY <1>4, NodeHolds
<1>6. PICK e \in Epoch : Dates(e) /\ (e.before < e.reads => IsMajority(e.voters))
  BY EpochNow
<1> DEFINE N == HandleWaitingMsg(i, node[i], plog[i], TRUE, cu)
<1>7. N \in Node
  BY <1>2, <1>5, HandleWaitingMsgHolds DEF Holds
<1>8. Fresh(e, i, N, plog[i])
  BY <1>2, <1>5, <1>6, HandleWaitingMsgFresh DEF Dates
<1>9. Go(i, N, net)
  BY <1>1, <1>4
<1> HIDE DEF N
<1> QED
  BY <1>3, <1>6, <1>7, <1>8, <1>9, GoSilent

LEMMA CatchupFresh ==
    ASSUME TypeInv, DurableInv, FreshInv, Undamaged, NoFault', NEW i \in Acceptors,
           IterateAndCatchup(i)
    PROVE  FreshInv' /\ acked' = acked
<1>1. PICK pushed \in BOOLEAN, cu \in CatchupChoices :
        PlogQueue(pushed) /\ Go(i, TryCatchup(i, node[i], pushed, cu), net)
  BY DEF IterateAndCatchup
<1>2. /\ evictions' = evictions /\ node[i].loaded /\ plog' = plog /\ reads' = reads
      /\ node[i].max_cont # node[i].max_chosen
  BY DEF IterateAndCatchup
<1>3. NoFault
  BY <1>1, <1>2, QueueFault
<1>4. Holds(i, node[i], plog[i], TRUE) /\ plog[i] \in Record
  BY <1>3, NodeHolds
<1>5. node[i].op # "load"
  BY <1>2, <1>4 DEF Holds, Local, Shape
<1>6. PICK e \in Epoch : Dates(e)
  BY DEF FreshInv
<1> DEFINE N == TryCatchup(i, node[i], pushed, cu)
<1>7. N \in Node
  BY <1>2, <1>4, <1>5, TryCatchupHolds DEF Holds
<1>8. Drifts(e, node[i], N)
  BY <1>2, <1>4, <1>5, TryCatchupDrifts
<1>9. Go(i, N, net)
  BY <1>1
<1> HIDE DEF N
<1>10. Fresh(e, i, N, plog[i])
  BY <1>6, <1>8, DriftsFresh DEF Dates
<1> QED
  BY <1>2, <1>6, <1>7, <1>9, <1>10, GoSilent

LEMMA CleanupFresh ==
    ASSUME TypeInv, DurableInv, FreshInv, Undamaged, NEW i \in Acceptors,
           CleanupExpiredChosenEntry(i)
    PROVE  FreshInv' /\ acked' = acked
<1>1. /\ node[i].mem /\ node[i].old /\ plog' = plog /\ reads' = reads
      /\ Go(i, DestroyEntryInfo(Check(node[i], ~uncertain(node[i]))), net)
  BY DEF CleanupExpiredChosenEntry
<1>2. Holds(i, node[i], plog[i], FALSE) /\ node[i] \in Node
  BY NodeHolds
<1>3. node[i].op = "none"
  BY <1>1, <1>2, EntryNumbers DEF Holds, Local, Shape, Node
<1>4. Check(node[i], ~uncertain(node[i])) = node[i]
  BY <1>2, <1>3, CheckTrue DEF uncertain, Holds, Local
<1>5. PICK e \in Epoch : Dates(e)
  BY DEF FreshInv
<1> DEFINE N == DestroyEntryInfo(node[i])
<1>6. N \in Node /\ Go(i, N, net)
  BY <1>1, <1>2, <1>4, DestroyType DEF GoodNode
<1>7. Fresh(e, i, N, plog[i])
  BY <1>2, <1>3, <1>5, DestroyFresh DEF Dates
<1> HIDE DEF N
<1> QED
  BY <1>1, <1>5, <1>6, <1>7, GoSilent

LEMMA CrashFresh ==
    ASSUME TypeInv, DurableInv, FreshInv, Undamaged, Undamaged', NEW i \in Acceptors, Crash(i)
    PROVE  FreshInv' /\ acked' = acked
<1>1. /\ Go(i, EntityAbsent(i), net) /\ crashes' = crashes + 1 /\ reads' = reads
      /\ (CleanStops => node[i].op # "set")
  BY DEF Crash
<1>2. CleanStops /\ node[i].op # "set"
  BY <1>1, BoundsAssumption DEF Undamaged, TypeInv, TypeOK
<1>3. plog' = plog
  BY <1>2 DEF Crash
<1>4. PICK e \in Epoch : Dates(e)
  BY DEF FreshInv
<1>5. Bound(e, i, plog[i])
  BY <1>2, <1>4 DEF Dates, Fresh, Calm, Waits, Counts
<1>6. Fresh(e, i, EntityAbsent(i), plog[i]) /\ EntityAbsent(i) \in Node
  BY <1>5, AbsentFresh, EntityAbsentType
<1> QED
  BY <1>1, <1>3, <1>4, <1>6, GoSilent

(* When a replica has stored a chosen record, a majority has promised.     *)
LEMMA ChosenVoters ==
    ASSUME TypeInv, AgreementInv, Undamaged, NEW i \in Acceptors, node[i].recs[i].chosen
    PROVE  \E Q \in SUBSET Acceptors :
               IsMajority(Q) /\ \A a \in Q : Counts(a, node[a], plog[a]).promised > 0
<1>1. PICK H, c : Accounts(H, c)
  BY DEF AgreementInv
<1>2. World(H, c) /\ \A a \in Acceptors : Known(a, node[a], plog[a], H, c)
  BY <1>1 DEF Accounts
<1>3. PICK s \in H[i] : s.chosen
  BY <1>2 DEF Known, Tells
<1>4. s.accepted > 0 /\ ChosenNum(H, s.accepted) /\ s \in Record
  BY <1>2, <1>3 DEF World, Justified
<1>5. PICK Q \in SUBSET Acceptors : IsMajority(Q) /\ \A a \in Q : Vote(H[a], s.accepted)
  BY <1>4 DEF ChosenNum
<1>6. ASSUME NEW a \in Q PROVE Counts(a, node[a], plog[a]).promised > 0
  <2>1. PICK t \in H[a] : t.promised = s.accepted
    BY <1>5 DEF Vote
  <2>2. t.promised <= c[a].promised /\ c[a] \in Record /\ c[a] = Counts(a, node[a], plog[a])
    BY <1>2, <2>1 DEF World, Past, Known
  <2>3. s.accepted \in Nat /\ c[a].promised \in Nat
    BY <1>4, <2>2, RecordFields
  <2> QED
    BY <1>4, <2>1, <2>2, <2>3
<1> QED
  BY <1>5, <1>6

(* Before the first write is answered Ok the voters and the id are free.   *)
LEMMA FirstFresh ==
    ASSUME NEW e \in Epoch, NEW f \in Epoch, e.before = e.reads, f.before = e.reads,
           f.reads = e.reads
    PROVE  /\ \A m \in PaxosCmd : FreshMsg(e, m) => FreshMsg(f, m)
           /\ \A i, r : \A S \in Node :
                Calm(e, i, S, r) /\ Bound(f, i, Counts(i, S, r)) => Calm(f, i, S, r)
<1>1. e.reads \in Nat
  BY DEF Epoch
<1>2. ASSUME NEW m \in PaxosCmd, FreshMsg(e, m) PROVE FreshMsg(f, m)
  <2>1. m.uuid \in Nat
    BY DEF PaxosCmd
  <2> QED
    BY <1>1, <1>2, <2>1 DEF FreshMsg
<1>3. ASSUME NEW i, NEW r, NEW S \in Node, Calm(e, i, S, r), Bound(f, i, Counts(i, S, r))
      PROVE  Calm(f, i, S, r)
  <2> DEFINE x == Counts(i, S, r)
             q == S.client
  <2>1. q.uuid \in Nat
    BY NodeFields DEF ClientCmd
  <2>2. Asks(e, i, q, x) /\ Waits(e, i, S, r)
    BY <1>3 DEF Calm
  <2> HIDE DEF x
  <2>3. q.uuid <= f.reads /\ ~(q.uuid > f.before)
    BY <1>1, <2>1, <2>2 DEF Asks
  <2>4. Asks(f, i, q, x) /\ Counted(f, S, x)
    BY <2>2, <2>3 DEF Asks, Counted
  <2>5. \A m \in Held(S) : FreshMsg(f, m)
    BY <1>2, <2>2, HeldType DEF Waits
  <2>6. Waits(f, i, S, r)
    BY <1>3, <2>2, <2>5 DEF Waits
  <2> QED
    BY <2>4, <2>6 DEF Calm, x
<1> QED
  BY <1>2, <1>3

LEMMA SetFresh ==
    ASSUME TypeInv, DurableInv, AgreementInv, FreshInv, Undamaged, NoFault',
           NEW i \in Acceptors, PlogSetRecord(i)
    PROVE  FreshInv'
<1> DEFINE S == node[i]
           x == S.recs[i]
           N == HandleSetFromPlog(i, S, TRUE)
<1>1. PICK success \in BOOLEAN, written \in BOOLEAN :
        /\ PlogResult(success) /\ (success => written)
        /\ plog' = IF written THEN [plog EXCEPT ![i] = x] ELSE plog
        /\ Go(i, HandleSetFromPlog(i, S, success), net)
  BY DEF PlogSetRecord
<1>2. reads' = reads /\ evictions' = evictions /\ S.op = "set"
  BY DEF PlogSetRecord
<1>3. NoFault /\ success = TRUE
  BY <1>1, <1>2, QueueFault DEF PlogResult
<1>4. /\ \A j \in Acceptors : j # i => plog'[j] = plog[j]
      /\ plog'[i] = x /\ x \in Record
  BY <1>1, <1>2, <1>3, WrittenPlog
<1>5. /\ Holds(i, S, plog[i], TRUE) /\ Settled(S) /\ S.out = {} /\ plog[i] \in Record
      /\ S \in Node /\ node \in [Acceptors -> Node] /\ net \subseteq PaxosCmd
  BY <1>3, NodeHolds DEF TypeInv, TypeOK
<1>6. PICK e \in Epoch : Dates(e)
  BY DEF FreshInv
<1>7. ASSUME NEW j \in Acceptors, plog[j].chosen PROVE plog'[j] = plog[j]
  <2>1. j = i => plog[i] = x
    BY <1>2, <1>5, <1>7 DEF Holds, Local, Intact, Advance
  <2> QED
    BY <1>4, <2>1
<1>8. e.before < e.reads /\ x.chosen => x.value_id = e.id
  <2> SUFFICES ASSUME e.before < e.reads, x.chosen PROVE x.value_id = e.id
    OBVIOUS
  <2>1. PICK j \in Acceptors : plog[j].chosen /\ plog[j].value_id = e.id
    BY <1>6 DEF Dates, Epoch
  <2>2. x \in ChosenAt(i) /\ plog[j] \in ChosenAt(j)
    BY <2>1 DEF ChosenAt
  <2> QED
    BY <2>1, <2>2, OneIdNow DEF ChosenIdsAgree
<1>9. Holds(i, N, x, TRUE) /\ N \in Node
  BY <1>2, <1>4, <1>5, HandleSetHolds DEF Holds
<1>10. /\ Calm(e, i, N, x)
       /\ \/ Silent(N)
          \/ /\ N.done.kind = "write" /\ x.chosen /\ S.client.kind = "write"
             /\ S.client.value_id = x.value_id /\ S.client.value_id # 0
  <2>1. Fresh(e, i, S, plog[i]) /\ S.done = NoCmd
    BY <1>6 DEF Dates, FreshInv
  <2> HIDE DEF S
  <2> QED
    BY <1>2, <1>5, <1>8, <2>1, HandleSetFresh
<1>11. Go(i, N, net)
  BY <1>1, <1>3
<1> HIDE DEF N, S, x
<1>12. /\ ~(N.done.kind = "read" /\ N.done.stale)
       /\ Silent(N) => acked' = acked
       /\ acked # {} => acked' # {}
       /\ N.done.kind = "write" => acked' # {}
  BY <1>10, <1>11 DEF Go, Silent
<1>13. CASE Silent(N) \/ acked # {}
  <2>1. (acked' = {}) = (acked = {})
    BY <1>12, <1>13
  <2>2. acked # {} => \E j \in Acceptors : plog'[j].chosen /\ plog'[j].value_id = e.id
    BY <1>6, <1>7 DEF Dates
  <2> QED
    BY <1>2, <1>4, <1>6, <1>9, <1>10, <1>11, <1>12, <2>1, <2>2, GoFresh DEF Dates
<1>14. CASE ~Silent(N) /\ acked = {}
  <2>1. /\ N.done.kind = "write" /\ x.chosen /\ S.client.kind = "write"
        /\ S.client.value_id = x.value_id /\ S.client.value_id # 0
    BY <1>10, <1>14
  <2>2. PICK Q \in SUBSET Acceptors :
          IsMajority(Q) /\ \A a \in Q : Counts(a, node[a], plog[a]).promised > 0
    BY <2>1, ChosenVoters DEF S, x
  <2>3. Counts(i, node[i], plog[i]) = x
    BY <1>2 DEF Counts, S, x
  <2>4. OwnedBy(x.value_id, i) /\ x.value_id <= x.prepared
    <3>1. Asks(e, i, S.client, x)
      BY <1>6, <2>3 DEF Dates, Fresh, Calm, S
    <3> QED
      BY <2>1, <3>1 DEF Asks
  <2> DEFINE f == [voters |-> Q, before |-> reads, reads |-> reads, id |-> x.value_id]
  <2>5. /\ f \in Epoch /\ f.voters = Q /\ f.before = reads /\ f.reads = reads
        /\ f.id = x.value_id /\ x.value_id \in Nat /\ reads \in Nat
    <3>1. x.value_id \in Nat /\ reads \in Nat
      BY <1>4, RecordFields, BoundsAssumption DEF TypeInv, TypeOK, Record
    <3> QED
      BY <3>1 DEF Epoch
  <2> HIDE DEF f
  <2>6. e.before = e.reads /\ e.reads = reads
    BY <1>6, <1>14 DEF Dates
  <2>7. \A m \in net : FreshMsg(f, m)
    BY <1>5, <1>6, <2>5, <2>6, FirstFresh DEF Dates
  <2>8. ASSUME NEW j \in Acceptors, j # i PROVE Fresh(f, j, node[j], plog[j])
    <3>1. Bound(f, j, Counts(j, node[j], plog[j]))
      BY <2>2, <2>4, <2>5, <2>8, OneOwner DEF Bound
    <3>2. Calm(e, j, node[j], plog[j]) /\ Silent(node[j]) /\ node[j] \in Node
      BY <1>5, <1>6 DEF Dates, Fresh
    <3>3. Calm(f, j, node[j], plog[j])
      BY <2>5, <2>6, <3>1, <3>2, FirstFresh
    <3> QED
      BY <3>2, <3>3 DEF Fresh
  <2>9. Calm(f, i, N, x)
    <3>1. Bound(f, i, x)
      BY <2>2, <2>3, <2>4, <2>5 DEF Bound
    <3>2. Bound(f, i, Counts(i, N, x))
      BY <1>4, <1>9, <2>5, <3>1, CountsGrow, BoundGrows
    <3> QED
      BY <1>9, <1>10, <2>5, <2>6, <3>2, FirstFresh
  <2>10. acked' # {} /\ plog'[i].chosen /\ plog'[i].value_id = f.id
    BY <1>4, <1>12, <2>1, <2>5
  <2>11. f.before <= reads'
    BY <1>2, <2>5
  <2> QED
    BY <1>2, <1>4, <1>9, <1>11, <1>12, <2>2, <2>5, <2>7, <2>8, <2>9, <2>10, <2>11, GoFresh
<1> QED
  BY <1>13, <1>14

LEMMA StepFresh ==
    ASSUME TypeInv, DurableInv, AgreementInv, FreshInv, [Next]_vars
    PROVE  FreshInv'
<1> SUFFICES ASSUME Undamaged' PROVE FreshInv'
  BY DEF FreshInv
<1>0. Undamaged /\ NoFault'
  BY DamageStays
<1>1. ASSUME NEW i \in Writers, NEW v \in Values, ClientWrite(i, v) PROVE FreshInv'
  BY <1>0, <1>1, WriteFresh, BoundsAssumption
<1>2. ASSUME NEW i \in Readers, ClientRead(i) PROVE FreshInv'
  BY <1>0, <1>2, ReadFresh, BoundsAssumption
<1>3. ASSUME NEW m \in net, ReceivePaxosCmd(m) PROVE FreshInv'
  BY <1>0, <1>3, ReceiveFresh
<1>4. ASSUME NEW m \in net, LoseMessage(m) PROVE FreshInv'
  <2>1. /\ UNCHANGED <<node, plog, acked, staleRead, reads>> /\ net' \subseteq net
    BY <1>4 DEF LoseMessage
  <2> QED
    BY <1>0, <2>1 DEF FreshInv, Dates
<1>5. ASSUME NEW i \in Acceptors, ClientTimeout(i) PROVE FreshInv'
  <2>1. Go(i, FinishErr(node[i]), net) /\ plog' = plog /\ reads' = reads
    BY <1>5 DEF ClientTimeout
  <2>2. node[i] \in Node /\ FinishErr(node[i]) \in Node
    BY FinishType DEF TypeInv, TypeOK, GoodNode
  <2>3. PICK e \in Epoch : Dates(e)
    BY <1>0 DEF FreshInv
  <2>4. Drifts(e, node[i], FinishErr(node[i]))
    BY <2>2, FieldsDrift
  <2>5. Fresh(e, i, FinishErr(node[i]), plog[i])
    BY <2>3, <2>4, DriftsFresh DEF Dates
  <2> QED
    BY <1>0, <2>1, <2>2, <2>3, <2>5, GoSilent
<1>6. ASSUME NEW i \in Acceptors, PlogSetRecord(i) PROVE FreshInv'
  BY <1>0, <1>6, SetFresh
<1>7. ASSUME NEW i \in Acceptors, PlogGetRecord(i) PROVE FreshInv'
  BY <1>0, <1>7, GetFresh
<1>8. ASSUME NEW i \in Acceptors, PlogLoad(i) PROVE FreshInv'
  BY <1>0, <1>8, LoadFresh
<1>9. ASSUME NEW i \in Acceptors, DrainWaitingMsg(i) PROVE FreshInv'
  BY <1>0, <1>9, DrainFresh
<1>10. ASSUME NEW i \in Acceptors, IterateAndCatchup(i) PROVE FreshInv'
  BY <1>0, <1>10, CatchupFresh
<1>11. ASSUME NEW i \in Acceptors, CleanupExpiredChosenEntry(i) PROVE FreshInv'
  BY <1>0, <1>11, CleanupFresh
<1>12. ASSUME NEW i \in Acceptors, MakeEnoughRoom(i) PROVE FreshInv'
  <2>1. evictions' = evictions + 1 /\ plogErrors' = plogErrors
    BY <1>12 DEF MakeEnoughRoom
  <2> QED
    BY <1>0, <2>1, BoundsAssumption DEF NoFault, TypeInv, TypeOK
<1>13. ASSUME NEW i \in Acceptors, Crash(i) PROVE FreshInv'
  BY <1>0, <1>13, CrashFresh
<1>14. ASSUME UNCHANGED vars PROVE FreshInv'
  BY <1>0, <1>14 DEF vars, FreshInv, Dates
<1> QED
  BY <1>1, <1>2, <1>3, <1>4, <1>5, <1>6, <1>7, <1>8, <1>9, <1>10, <1>11, <1>12,
     <1>13, <1>14 DEF Next

LEMMA InitFresh == Init => FreshInv
<1> SUFFICES ASSUME Init PROVE FreshInv
  OBVIOUS
<1> DEFINE e == [voters |-> {}, before |-> 0, reads |-> 0, id |-> 0]
<1>1. /\ e \in Epoch /\ e.voters = {} /\ e.before = 0 /\ e.reads = 0 /\ e.id = 0
  BY DEF Epoch
<1> HIDE DEF e
<1>2. ASSUME NEW i \in Acceptors
      PROVE  Fresh(e, i, node[i], plog[i]) /\ node[i].done = NoCmd
  <2>1. node[i] = [EntityAbsent(i) EXCEPT !.loaded = TRUE] /\ plog[i] = EmptyRecord
    BY DEF Init
  <2>2. Bound(e, i, EmptyRecord)
    BY <1>1 DEF Bound, EmptyRecord
  <2>3. node[i].done = NoCmd
    BY <2>1 DEF EntityAbsent
  <2> QED
    BY <1>1, <2>1, <2>2, <2>3, AbsentFresh
<1>3. Dates(e)
  BY <1>1, <1>2 DEF Init, Dates
<1> QED
  BY <1>1, <1>2, <1>3 DEF Init, FreshInv

LEMMA FreshNow == Spec => []FreshInv
<1>1. TypeInv /\ DurableInv /\ AgreementInv /\ FreshInv /\ [Next]_vars => FreshInv'
  BY StepFresh
<1> QED
  BY InitFresh, <1>1, Agreed, PTL DEF Spec

(* With any number of replicas: as long as no entry is evicted, no plog    *)
(* operation fails and no process is stopped with a plog write open, a     *)
(* read that is answered kRetCodeOk, by a majority of empty replicas or    *)
(* because its empty proposal is chosen, was not issued after a write had  *)
(* been answered Ok, whatever answers of older reads are still under way   *)
(* and however often processes restart.                                    *)
THEOREM FreshReads == Spec => [](Undamaged => ReadsAreFresh)
<1>1. FreshInv => (Undamaged => ReadsAreFresh)
  BY DEF FreshInv, ReadsAreFresh
<1> QED
  BY FreshNow, <1>1, PTL

-----------------------------------------------------------------------------
(* The values of the writes.  V names the value of every id.  A record has *)
(* the value of its id, or it has none, and the value of an id that its    *)
(* owner has not prepared yet is still open.                               *)
Carries(V, x) == x.value = V[x.value_id] \/ x.value = NoValue

Bearing(V, recs) == \A a \in Acceptors : Carries(V, recs[a])

Bears(V, m) == Carries(V, m.local) /\ Carries(V, m.peer)

Open(V, i, x) == \A n \in Nat : OwnedBy(n, i) /\ x.prepared < n => V[n] = NoValue

(* The id of a command is one of its replica and names its value.          *)
Means(V, i, q) ==
    q.kind # "none" /\ q.value_id # 0 => OwnedBy(q.value_id, i) /\ V[q.value_id] = q.value

Named(V, i, S, r) ==
    /\ Carries(V, r) /\ Bearing(V, S.recs)
    /\ \A m \in Held(S) : Bears(V, m)
    /\ Open(V, i, Counts(i, S, r)) /\ Means(V, i, S.client)

LEMMA MoveNamed ==
    ASSUME NEW V, NEW i, NEW S, NEW r, NEW T, Named(V, i, S, r),
           Counts(i, T, r) = Counts(i, S, r), T.recs = S.recs \/ T.recs = NewMachine,
           T.client = S.client \/ T.client = NoCmd,
           \A m \in Held(T) : m \in Held(S) \/ Bears(V, m)
    PROVE  Named(V, i, T, r)
<1>1. Bearing(V, NewMachine)
  BY DEF Bearing, Carries, NewMachine, EmptyRecord
<1>2. Means(V, i, NoCmd)
  BY DEF Means, NoCmd
<1> QED
  BY <1>1, <1>2 DEF Named

LEMMA SameNamed ==
    ASSUME NEW V, NEW i, NEW S, NEW r, NEW T, NEW M, Named(V, i, S, r), Same(S, T),
           T.client = S.client \/ T.client = NoCmd, T.out = S.out \cup M,
           \A m \in M : Bears(V, m)
    PROVE  Named(V, i, T, r)
<1>1. \A m \in Held(T) : m \in Held(S) \/ Bears(V, m)
  BY DEF Held, Same
<1>2. Counts(i, T, r) = Counts(i, S, r)
  BY DEF Counts, Same
<1> QED
  BY <1>1, <1>2, MoveNamed DEF Same

LEMMA QuietNamed ==
    ASSUME NEW V, NEW i, NEW S, NEW r, NEW T, Named(V, i, S, r), Same(S, T),
           T.client = S.client \/ T.client = NoCmd, T.out = S.out
    PROVE  Named(V, i, T, r)
<1> DEFINE M == {}
<1>1. T.out = S.out \cup M /\ \A m \in M : Bears(V, m)
  OBVIOUS
<1> HIDE DEF M
<1> QED
  BY <1>1, SameNamed

(* Sending.                                                                *)
LEMMA RemoveBears ==
    ASSUME NEW V, NEW m \in PaxosCmd, Bears(V, m)
    PROVE  Bears(V, RemoveValueInRecord(m))
<1> DEFINE l == IF m.local.value_id = m.peer.value_id
                THEN [m.local EXCEPT !.value = NoValue, !.id_only = TRUE] ELSE m.local
           p == [m.peer EXCEPT !.value = NoValue, !.id_only = TRUE]
           x == [m EXCEPT !.local = l, !.peer = p]
<1>1. RemoveValueInRecord(m) = IF m.peer.value_id = 0 THEN m ELSE x
  BY DEF RemoveValueInRecord
<1>2. m.local \in Record /\ m.peer \in Record
  BY DEF PaxosCmd
<1>3. Carries(V, l) /\ Carries(V, p)
  BY <1>2 DEF Bears, Carries, Record
<1> HIDE DEF l, p
<1>4. x.local = l /\ x.peer = p
  BY DEF PaxosCmd
<1> HIDE DEF x
<1>5. Bears(V, x)
  BY <1>3, <1>4 DEF Bears
<1> QED
  BY <1>1, <1>5

LEMMA SendNamed ==
    ASSUME NEW V, NEW i, NEW S \in Node, NEW r, Named(V, i, S, r),
           NEW m \in PaxosCmd, Bears(V, m)
    PROVE  Named(V, i, Send(S, m), r)
<1> DEFINE x == RemoveValueInRecord(m)
           T == [S EXCEPT !.out = S.out \cup {x}]
           M == {x}
<1>1. Send(S, m) = T /\ \A y \in M : Bears(V, y)
  BY RemoveBears DEF Send
<1> HIDE DEF x
<1>2. Same(S, T) /\ T.client = S.client /\ T.out = S.out \cup M
  BY DEF Node, Same
<1> HIDE DEF T, M
<1> QED
  BY <1>1, <1>2, SameNamed

LEMMA SyncNamed ==
    ASSUME NEW V, NEW i \in Acceptors, NEW S \in Node, NEW r, Named(V, i, S, r),
           NEW P \in SUBSET Acceptors
    PROVE  Named(V, i, SyncToPeers(i, S, P), r)
<1> DEFINE M == {RemoveValueInRecord(SyncMsg(i, S, p)) : p \in P}
           T == [S EXCEPT !.out = S.out \cup M]
<1>1. SyncToPeers(i, S, P) = T
  BY DEF SyncToPeers
<1>2. ASSUME NEW p \in P PROVE Bears(V, RemoveValueInRecord(SyncMsg(i, S, p)))
  <2>1. SyncMsg(i, S, p) \in PaxosCmd
    BY SyncMsgType
  <2>2. SyncMsg(i, S, p).local = S.recs[i] /\ SyncMsg(i, S, p).peer = S.recs[p]
    BY DEF SyncMsg
  <2>3. Bears(V, SyncMsg(i, S, p))
    BY <2>2 DEF Bears, Named, Bearing
  <2> QED
    BY <2>1, <2>3, RemoveBears
<1>3. \A m \in M : Bears(V, m)
  BY <1>2
<1> HIDE DEF M
<1>4. Same(S, T) /\ T.client = S.client /\ T.out = S.out \cup M
  BY DEF Node, Same
<1> HIDE DEF T
<1> QED
  BY <1>1, <1>3, <1>4, SameNamed

LEMMA CheckEmptyNamed ==
    ASSUME NEW V, NEW i, NEW S \in Node, NEW r, Named(V, i, S, r)
    PROVE  Named(V, i, BroadcastCheckEmpty(i, S), r)
<1> DEFINE msg(p) == [SyncMsg(i, S, p) EXCEPT !.local = EmptyRecord, !.peer = EmptyRecord,
                                              !.check_empty = TRUE, !.uuid = S.client.uuid]
           M == {msg(p) : p \in Peers(i)}
           T == [S EXCEPT !.out = S.out \cup M]
<1>1. BroadcastCheckEmpty(i, S) = T
  BY DEF BroadcastCheckEmpty
<1>2. \A p \in Peers(i) : msg(p).local = EmptyRecord /\ msg(p).peer = EmptyRecord
  BY DEF SyncMsg
<1> HIDE DEF msg
<1>3. \A m \in M : Bears(V, m)
  BY <1>2 DEF Bears, Carries, EmptyRecord
<1> HIDE DEF M
<1>4. Same(S, T) /\ T.client = S.client /\ T.out = S.out \cup M
  BY DEF Node, Same
<1> HIDE DEF T
<1> QED
  BY <1>1, <1>3, <1>4, SameNamed DEF msg

LEMMA FieldsNamed ==
    ASSUME NEW V, NEW i, NEW S \in Node, NEW r, Named(V, i, S, r), NEW b, NEW m, NEW d
    PROVE  /\ Named(V, i, FinishErr(S), r) /\ Named(V, i, FinishOk(S), r)
           /\ Named(V, i, Check(S, b), r) /\ Named(V, i, LearnMaxChosen(S, m), r)
           /\ Named(V, i, [S EXCEPT !.drain = d], r) /\ Named(V, i, Reset(S), r)
<1> DEFINE D == [S EXCEPT !.drain = d]
<1>1. FinishErr(S).client = NoCmd /\ FinishOk(S).client = NoCmd
  BY DEF FinishErr, FinishOk, Node
<1>2. Check(S, b).client = S.client /\ D.client = S.client /\ Reset(S).client = S.client
  BY DEF Check, Reset, Node
<1>3. LearnMaxChosen(S, m).client = S.client
  BY DEF LearnMaxChosen, Node
<1>4. Same(S, D) /\ D.out = S.out
  BY SameFields
<1> HIDE DEF D
<1>5. Named(V, i, D, r)
  BY <1>2, <1>4, QuietNamed
<1>6. Named(V, i, FinishErr(S), r) /\ Named(V, i, FinishOk(S), r)
  BY <1>1, SameFields, QuietNamed
<1>7. Named(V, i, Check(S, b), r) /\ Named(V, i, Reset(S), r)
  BY <1>2, SameFields, QuietNamed
<1>8. Named(V, i, LearnMaxChosen(S, m), r)
  BY <1>3, SameFields, QuietNamed
<1> QED
  BY <1>5, <1>6, <1>7, <1>8 DEF D

LEMMA UpdateByChosenNamed ==
    ASSUME NEW V, NEW i, NEW S \in Node, NEW r, Named(V, i, S, r)
    PROVE  Named(V, i, UpdateByChosenEntry(i, S), r)
<1> DEFINE auth == IF HasAcceptedMyProposal(i, S.recs, i) THEN Entry ELSE S.pre_auth
           next == S.max_cont + 1 = Entry
           old == S.old \/ next
           committing == S.committing \/ next
           U == [S EXCEPT !.max_chosen = Entry, !.pre_auth = auth, !.max_cont = Entry,
                          !.old = old, !.committing = committing]
<1>1. UpdateByChosenEntry(i, S) = S \/ UpdateByChosenEntry(i, S) = U
  BY DEF UpdateByChosenEntry
<1> HIDE DEF auth, old, committing
<1>2. /\ U.client = S.client /\ U.op = S.op /\ U.recs = S.recs /\ U.out = S.out
      /\ U.waiting_msg = S.waiting_msg /\ U.waiting_msgs = S.waiting_msgs
  BY DEF Node
<1> HIDE DEF U
<1>3. Counts(i, U, r) = Counts(i, S, r) /\ Held(U) = Held(S)
  BY <1>2 DEF Counts, Held
<1>4. Named(V, i, U, r)
  BY <1>2, <1>3, MoveNamed
<1> QED
  BY <1>1, <1>4

LEMMA CreateNamed ==
    ASSUME NEW V, NEW i, NEW S \in Node, NEW r, Named(V, i, S, r), Shape(S),
           NEW pushed \in BOOLEAN
    PROVE  Named(V, i, CreateEntryInfoIfMiss(S, pushed), r)
<1> DEFINE op == IF S.max_plog < Entry THEN S.op ELSE "get"
           T == [S EXCEPT !.mem = TRUE, !.op = op]
<1>1. CreateEntryInfoIfMiss(S, pushed) = S \/ (~S.mem /\ CreateEntryInfoIfMiss(S, pushed) = T)
  BY DEF CreateEntryInfoIfMiss
<1>2. op = S.op \/ op = "get"
  OBVIOUS
<1> HIDE DEF op
<1>3. /\ T.client = S.client /\ T.op = op /\ T.recs = S.recs /\ T.out = S.out
      /\ T.waiting_msg = S.waiting_msg /\ T.waiting_msgs = S.waiting_msgs
  BY DEF Node
<1> HIDE DEF T
<1>4. ~S.mem => S.op # "set"
  BY DEF Shape
<1>5. ~S.mem => Counts(i, T, r) = Counts(i, S, r) /\ Held(T) = Held(S)
  BY <1>2, <1>3, <1>4 DEF Counts, Held
<1>6. ~S.mem => Named(V, i, T, r)
  BY <1>3, <1>5, MoveNamed
<1> QED
  BY <1>1, <1>6

LEMMA FastFailNamed ==
    ASSUME NEW V, NEW i, NEW S \in Node, NEW r, Named(V, i, S, r),
           NEW m \in PaxosCmd, Bears(V, m)
    PROVE  Named(V, i, FastFail(S, m), r)
<1> DEFINE b == SendBack(m)
           x == [b EXCEPT !.max_chosen = S.max_chosen, !.fast_failed = TRUE, !.check_empty = FALSE]
<1>1. b \in PaxosCmd /\ b.local = m.peer /\ b.peer = m.local
  BY SendBackFacts
<1>2. FastFail(S, m) = Send(S, x)
  BY DEF FastFail
<1> HIDE DEF b
<1>3. S.max_chosen \in 0 .. Entry
  BY NodeFields
<1>4. x \in PaxosCmd /\ x.local = m.peer /\ x.peer = m.local
  BY <1>1, <1>3 DEF PaxosCmd
<1> HIDE DEF x
<1>5. Bears(V, x)
  BY <1>4 DEF Bears
<1> QED
  BY <1>2, <1>4, <1>5, SendNamed

LEMMA LocalChosenNamed ==
    ASSUME NEW V, NEW i \in Acceptors, NEW S \in Node, NEW r \in Record, Named(V, i, S, r),
           NEW m \in PaxosCmd, Bears(V, m)
    PROVE  Named(V, i, HandleIfLocalChosen(i, S, m, r), r)
<1> DEFINE mine == IF S.mem THEN S.recs[i] ELSE r
           l == [mine EXCEPT !.chosen = TRUE]
           x == [SendBack(m) EXCEPT !.local = l]
<1>1. mine \in Record /\ Carries(V, mine)
  BY NodeFields DEF Named, Bearing
<1>2. HandleIfLocalChosen(i, S, m, r) = IF m.local.chosen THEN S ELSE Send(S, x)
  BY DEF HandleIfLocalChosen
<1> HIDE DEF mine
<1>3. l \in Record /\ Carries(V, l)
  BY <1>1 DEF Record, Carries
<1> HIDE DEF l
<1>4. SendBack(m) \in PaxosCmd /\ SendBack(m).peer = m.local
  BY SendBackFacts
<1>5. x \in PaxosCmd /\ x.local = l /\ x.peer = m.local
  BY <1>3, <1>4 DEF PaxosCmd
<1> HIDE DEF x
<1>6. Bears(V, x)
  BY <1>3, <1>5 DEF Bears
<1> QED
  BY <1>2, <1>5, <1>6, SendNamed

LEMMA TryCatchupNamed ==
    ASSUME NEW V, NEW i \in Acceptors, NEW S, NEW r \in Record,
           Holds(i, S, r, TRUE), Named(V, i, S, r), S.loaded, S.op # "load",
           NEW pushed \in BOOLEAN, NEW cu
    PROVE  Named(V, i, TryCatchup(i, S, pushed, cu), r)
<1> DEFINE T == CreateEntryInfoIfMiss(S, pushed)
<1>1. CASE S.max_cont = S.max_chosen \/ (~S.mem /\ cu = "none")
  BY <1>1 DEF TryCatchup
<1>2. CASE ~(S.max_cont = S.max_chosen \/ (~S.mem /\ cu = "none"))
  <2>1. Shape(S) /\ S \in Node /\ S.max_cont \in 0 .. Entry /\ S.max_chosen \in 0 .. Entry
    BY HoldsNode DEF Holds, Local
  <2>2. S.max_cont = 0
    BY <1>2, <2>1, EntryNumbers DEF Shape
  <2>3. T \in Node /\ T.active_peer \in Acceptors
    BY <2>2, CreateHolds, HoldsNode
  <2>4. Named(V, i, T, r)
    BY <2>1, CreateNamed
  <2>5. \/ TryCatchup(i, S, pushed, cu) = T
        \/ TryCatchup(i, S, pushed, cu) = UpdateByChosenEntry(i, T)
        \/ TryCatchup(i, S, pushed, cu) = SyncToPeers(i, T, {T.active_peer})
    BY <1>2 DEF TryCatchup
  <2> HIDE DEF T
  <2>6. Named(V, i, UpdateByChosenEntry(i, T), r)
    BY <2>3, <2>4, UpdateByChosenNamed
  <2>7. Named(V, i, SyncToPeers(i, T, {T.active_peer}), r)
    BY <2>3, <2>4, SyncNamed
  <2> QED
    BY <2>4, <2>5, <2>6, <2>7
<1> QED
  BY <1>1, <1>2

(* The records that the machine computes.                                  *)
LEMMA PutBearing ==
    ASSUME NEW V, NEW recs \in Machine, Bearing(V, recs), NEW a \in Acceptors,
           NEW x, Carries(V, x)
    PROVE  Bearing(V, [recs EXCEPT ![a] = x])
BY DEF Bearing, Machine

LEMMA MarkBearing ==
    ASSUME NEW V, NEW i \in Acceptors, NEW recs \in Machine, Bearing(V, recs)
    PROVE  Bearing(V, MarkChosen(i, recs))
<1> DEFINE x == [recs[i] EXCEPT !.chosen = TRUE]
<1>1. recs[i] \in Record /\ Carries(V, recs[i])
  BY DEF Machine, Bearing
<1>2. Carries(V, x)
  BY <1>1 DEF Carries, Record
<1>3. MarkChosen(i, recs) = recs \/ MarkChosen(i, recs) = [recs EXCEPT ![i] = x]
  BY DEF MarkChosen
<1> HIDE DEF x
<1> QED
  BY <1>2, <1>3, PutBearing

LEMMA FollowCarries ==
    ASSUME NEW V, NEW local \in Record, NEW r \in Record, Carries(V, local), Carries(V, r)
    PROVE  Carries(V, FollowPeer(local, r))
<1> DEFINE promised == IF local.promised < r.promised THEN r.promised ELSE local.promised
           base == [local EXCEPT !.promised = promised]
           moved == [base EXCEPT !.accepted = r.accepted, !.chosen = r.chosen]
           taken == [moved EXCEPT !.value_id = r.value_id, !.value = r.value]
<1>1. FollowPeer(local, r) \in {base, moved, taken}
  BY DEF FollowPeer
<1> HIDE DEF promised
<1>2. base.value = local.value /\ base.value_id = local.value_id
  BY DEF Record
<1>3. moved.value = local.value /\ moved.value_id = local.value_id
  BY DEF Record
<1>4. taken.value = r.value /\ taken.value_id = r.value_id
  BY DEF Record
<1> HIDE DEF base, moved, taken
<1> QED
  BY <1>1, <1>2, <1>3, <1>4 DEF Carries

LEMMA UpdateBearing ==
    ASSUME NEW V, NEW i \in Acceptors, NEW peer \in Acceptors, NEW recs \in Machine,
           Bearing(V, recs), NEW r \in Record, Carries(V, r)
    PROVE  Bearing(V, Update(i, peer, recs, r))
<1> DEFINE seen == [recs EXCEPT ![peer] = r]
           f == FollowPeer(seen[i], r)
           followed == [seen EXCEPT ![i] = f]
<1>1. seen \in Machine /\ Bearing(V, seen)
  BY PutBearing DEF Machine
<1>2. Update(i, peer, recs, r) \in {recs, seen, MarkChosen(i, seen), MarkChosen(i, followed)}
  BY DEF Update
<1> HIDE DEF seen
<1>3. seen[i] \in Record /\ Carries(V, seen[i])
  BY <1>1 DEF Machine, Bearing
<1>4. f \in Record /\ Carries(V, f)
  BY <1>3, FollowPeerType, FollowCarries
<1> HIDE DEF f
<1>5. followed \in Machine
  BY <1>1, <1>4 DEF Machine
<1>6. Bearing(V, followed)
  BY <1>1, <1>4, PutBearing
<1> HIDE DEF followed
<1>7. Bearing(V, MarkChosen(i, seen)) /\ Bearing(V, MarkChosen(i, followed))
  BY <1>1, <1>5, <1>6, MarkBearing
<1> QED
  BY <1>1, <1>2, <1>7

LEMMA PromiseBearing ==
    ASSUME NEW V, NEW i \in Acceptors, NEW recs \in Machine, Bearing(V, recs),
           NEW pre_auth \in BOOLEAN
    PROVE  Bearing(V, Promise(i, recs, pre_auth))
<1> DEFINE b == NextProposal(i, recs[i].promised, pre_auth)
           x == [recs[i] EXCEPT !.prepared = b, !.promised = b]
           q == [recs EXCEPT ![i] = x]
<1>1. recs[i] \in Record /\ recs[i].promised \in Nat /\ Carries(V, recs[i])
  BY DEF Machine, Record, Bearing
<1>2. b \in Nat
  BY <1>1, NextProposalFacts
<1>3. Promise(i, recs, pre_auth) = MarkChosen(i, q)
  BY DEF Promise
<1> HIDE DEF b
<1>4. x \in Record /\ Carries(V, x)
  BY <1>1, <1>2 DEF Carries, Record
<1> HIDE DEF x
<1>5. q \in Machine /\ Bearing(V, q)
  BY <1>4, PutBearing DEF Machine
<1> HIDE DEF q
<1> QED
  BY <1>3, <1>5, MarkBearing

LEMMA AcceptBearing ==
    ASSUME NEW V, NEW i \in Acceptors, NEW recs \in Machine, Bearing(V, recs),
           NEW value \in Values \cup {NoValue}, NEW value_id \in Nat,
           value = V[value_id] \/ value = NoValue
    PROVE  Bearing(V, Accept(i, recs, value, value_id))
<1> DEFINE own == PreparedValueAccepted(recs)
           from == recs[Selected(recs)]
           v == IF own THEN value ELSE from.value
           n == IF own THEN value_id ELSE from.value_id
           x == [recs[i] EXCEPT !.accepted = recs[i].promised, !.value = v, !.value_id = n]
           q == [recs EXCEPT ![i] = x]
<1>1. from \in Record /\ recs[i] \in Record /\ Carries(V, from)
  BY SelectedFacts DEF Machine, Bearing
<1>2. Accept(i, recs, value, value_id) = MarkChosen(i, q)
  BY DEF Accept
<1>3. /\ v \in Values \cup {NoValue} /\ n \in Nat /\ (v = V[n] \/ v = NoValue)
      /\ recs[i].promised \in Nat
  BY <1>1 DEF Record, Carries
<1> HIDE DEF v, n
<1>4. x \in Record /\ x.value = v /\ x.value_id = n
  BY <1>1, <1>3 DEF Record
<1> HIDE DEF x
<1>5. Carries(V, x)
  BY <1>3, <1>4 DEF Carries
<1>6. q \in Machine /\ Bearing(V, q)
  BY <1>4, <1>5, PutBearing DEF Machine
<1> HIDE DEF q
<1> QED
  BY <1>2, <1>6, MarkBearing

LEMMA RestoreCarries ==
    ASSUME NEW V, NEW recs \in Machine, Bearing(V, recs), NEW r \in Record
    PROVE  Carries(V, RestoreValueInRecord(recs, r))
<1> DEFINE holders == {a \in Acceptors : recs[a].value_id = r.value_id}
           first == CHOOSE a \in holders : \A b \in holders : a <= b
           x == [r EXCEPT !.id_only = FALSE, !.value = recs[first].value]
           y == [r EXCEPT !.id_only = FALSE, !.value = NoValue, !.chosen = FALSE]
<1>1. RestoreValueInRecord(recs, r) = IF holders # {} THEN x ELSE y
  BY DEF RestoreValueInRecord
<1>2. Carries(V, y)
  BY DEF Carries, Record
<1>3. holders # {} => Carries(V, x)
  <2> SUFFICES ASSUME holders # {} PROVE Carries(V, x)
    OBVIOUS
  <2>1. holders \in SUBSET Acceptors
    OBVIOUS
  <2>2. \E a \in holders : \A b \in holders : a <= b
    BY <2>1, FirstAcceptor
  <2>3. first \in holders
    BY <2>2
  <2> HIDE DEF first
  <2>4. Carries(V, recs[first]) /\ recs[first].value_id = r.value_id
    BY <2>3 DEF Bearing
  <2>5. x.value = recs[first].value /\ x.value_id = r.value_id
    BY DEF Record
  <2> HIDE DEF x
  <2> QED
    BY <2>4, <2>5 DEF Carries
<1> HIDE DEF x, y
<1> QED
  BY <1>1, <1>2, <1>3

LEMMA RestoredBears ==
    ASSUME NEW V, NEW S \in Node, NEW m \in PaxosCmd, Bearing(V, S.recs), Bears(V, m)
    PROVE  Bears(V, RestoreValue(S, m))
<1> DEFINE restored(x) == IF x.id_only THEN RestoreValueInRecord(S.recs, x) ELSE x
           l == restored(m.local)
           p == restored(m.peer)
           c == [m EXCEPT !.local = l, !.peer = p]
<1>1. RestoreValue(S, m) = c
  BY DEF RestoreValue
<1>2. m.local \in Record /\ m.peer \in Record /\ S.recs \in Machine
  BY NodeFields DEF PaxosCmd
<1>3. Carries(V, l) /\ Carries(V, p)
  BY <1>2, RestoreCarries DEF Bears
<1> HIDE DEF l, p
<1>4. c.local = l /\ c.peer = p
  BY DEF PaxosCmd
<1> HIDE DEF c
<1> QED
  BY <1>1, <1>3, <1>4 DEF Bears

-----------------------------------------------------------------------------
(* A command that makes a proposal names the value of a new id.            *)
Names == [Nat -> Values \cup {NoValue}]

Later(V, W, i) ==
    \A n \in Nat : W[n] = V[n] \/ (V[n] = NoValue /\ OwnedBy(n, i))

NamedFrom(V, i, S, r) == \E W \in Names : Later(V, W, i) /\ Named(W, i, S, r)

LEMMA NamedNow ==
    ASSUME NEW V \in Names, NEW i, NEW S, NEW r, Named(V, i, S, r)
    PROVE  NamedFrom(V, i, S, r)
BY DEF NamedFrom, Later

LEMMA LaterCarries ==
    ASSUME NEW V, NEW W, NEW i, Later(V, W, i)
    PROVE  /\ \A x \in Record : Carries(V, x) => Carries(W, x)
           /\ \A m \in PaxosCmd : Bears(V, m) => Bears(W, m)
           /\ \A recs \in Machine : Bearing(V, recs) => Bearing(W, recs)
<1>1. ASSUME NEW x \in Record, Carries(V, x) PROVE Carries(W, x)
  <2>1. x.value_id \in Nat
    BY DEF Record
  <2> QED
    BY <1>1, <2>1 DEF Carries, Later
<1>2. ASSUME NEW m \in PaxosCmd, Bears(V, m) PROVE Bears(W, m)
  <2>1. m.local \in Record /\ m.peer \in Record
    BY DEF PaxosCmd
  <2> QED
    BY <1>1, <1>2, <2>1 DEF Bears
<1>3. ASSUME NEW recs \in Machine, Bearing(V, recs) PROVE Bearing(W, recs)
  BY <1>1, <1>3 DEF Bearing, Machine
<1> QED
  BY <1>1, <1>2, <1>3

(* The part of a replica that does not depend on its command.              *)
Keeps(V, i, S, r) ==
    /\ Carries(V, r) /\ Bearing(V, S.recs)
    /\ \A m \in Held(S) : Bears(V, m)
    /\ Open(V, i, Counts(i, S, r))

LEMMA HandleWriteNamed ==
    ASSUME NEW V \in Names, NEW i \in Acceptors, NEW S \in Node, NEW r \in Record,
           Holds(i, FinishErr(S), r, TRUE), Keeps(V, i, S, r),
           S.client.kind # "none", S.op = "none", S.mem, S.max_cont = 0
    PROVE  NamedFrom(V, i, HandleWriteCmd(i, S, TRUE), r)
<1> DEFINE pre_auth == EnablePreAuth /\ S.pre_auth # NoEntry
                                     /\ S.pre_auth + 1 = Entry
           promised == Promise(i, S.recs, pre_auth)
           b == promised[i].promised
           v == S.client.value
           cmd == [S.client EXCEPT !.value_id = b]
           P == [S EXCEPT !.recs = promised, !.client = cmd]
           accepted == Accept(i, promised, P.client.value, P.client.value_id)
           B == [P EXCEPT !.recs = accepted]
           A == Check(B, PreparedValueAccepted(promised))
           Q == IF IsLocalAcceptable(i, promised)
                THEN Check(A, state(i, A) = "AcceptLocal") ELSE P
           T == [StoreEntryInfo(Q) EXCEPT !.broadcast = TRUE]
           W == [V EXCEPT ![b] = v]
<1>1. /\ S.recs \in Machine /\ S.client \in ClientCmd /\ MachineInv(i, S.recs)
      /\ S.recs[i] \in Record /\ ~S.recs[i].chosen /\ S.recs[i] = r
  <2> DEFINE E == FinishErr(S)
  <2>1. E.recs = S.recs /\ E.op = S.op /\ E.mem = S.mem /\ E.max_cont = S.max_cont
    BY FinishErrFields
  <2> HIDE DEF E
  <2>2. Holds(i, E, r, TRUE)
    BY DEF E
  <2> QED
    BY <2>1, <2>2, NodeFields, EntryNumbers DEF Holds, Local, ChosenKnown, Intact
<1>2. pre_auth \in BOOLEAN
  BY BoundsAssumption
<1>3. r.prepared \in Nat /\ r.promised \in Nat /\ r.prepared <= r.promised
  BY <1>1, MachineFields DEF MachineInv, WellFormed, UpdateAccepts, IsValidRecord
<1> HIDE DEF pre_auth
<1>4. /\ promised \in Machine /\ MachineInv(i, promised)
      /\ b = promised[i].prepared /\ b > r.promised /\ ~promised[i].chosen
      /\ promised[i].accepted = r.accepted
      /\ entry_state(i, promised) = "PromiseLocal"
  BY <1>1, <1>2, PromiseFacts
<1>5. OwnedBy(b, i) /\ b \in Nat
  BY <1>1, <1>2, <1>3, PromiseNumber, NextProposalFacts DEF OwnedBy
<1>6. HandleWriteCmd(i, S, TRUE) = T
  BY <1>4 DEF HandleWriteCmd, pre_auth
<1>7. v \in Values \cup {NoValue}
  BY <1>1 DEF ClientCmd
<1>8. Bearing(V, promised)
  BY <1>1, <1>2, PromiseBearing DEF Keeps
<1> HIDE DEF promised
<1>9. /\ cmd.kind = S.client.kind /\ cmd.value_id = b /\ cmd.value = v
  BY <1>1, <1>5 DEF ClientCmd
<1> HIDE DEF cmd
<1>10. P.client = cmd
  BY DEF Node
<1>11. Counts(i, S, r) = r /\ V[b] = NoValue
  <2>1. Counts(i, S, r) = r
    BY DEF Counts
  <2> HIDE DEF b
  <2> QED
    BY <1>3, <1>4, <1>5, <2>1 DEF Keeps, Open
<1>12. W \in Names /\ Later(V, W, i) /\ W[b] = v
  <2> HIDE DEF b, v
  <2> QED
    BY <1>5, <1>7, <1>11 DEF Names, Later
<1>13. \A n \in Nat : n # b => W[n] = V[n]
  BY DEF Names
<1> HIDE DEF W
<1>14. Bearing(W, promised) /\ Carries(W, r) /\ \A m \in Held(S) : Bears(W, m)
  BY <1>4, <1>8, <1>12, LaterCarries, HeldType DEF Keeps
<1>15. Bearing(W, accepted)
  BY <1>4, <1>5, <1>7, <1>9, <1>10, <1>12, <1>14, AcceptBearing
<1>16. IsLocalAcceptable(i, promised) => accepted[i].prepared = b
  <2>1. promised[i].accepted < promised[i].promised /\ b \in Nat \ {0}
    BY <1>1, <1>3, <1>4, <1>5, MachineFields DEF MachineInv, WellFormed, UpdateAccepts, IsValidRecord
  <2> QED
    BY <1>4, <1>7, <1>9, <1>10, <2>1, AcceptFacts
<1> HIDE DEF accepted, b, v
<1>17. /\ T.recs = IF IsLocalAcceptable(i, promised) THEN accepted ELSE promised
       /\ T.op = "set" /\ T.out = S.out /\ T.client = cmd
       /\ T.waiting_msg = S.waiting_msg /\ T.waiting_msgs = S.waiting_msgs
  BY DEF Node, StoreEntryInfo, Check
<1> HIDE DEF T
<1>18. T.recs[i].prepared = b /\ Counts(i, T, r) = T.recs[i] /\ Held(T) = Held(S)
  BY <1>4, <1>16, <1>17 DEF Counts, Held
<1>19. Open(W, i, Counts(i, T, r))
  <2> SUFFICES ASSUME NEW n \in Nat, OwnedBy(n, i), b < n PROVE W[n] = NoValue
    BY <1>18 DEF Open
  <2>1. n # b /\ r.prepared < n
    BY <1>3, <1>4, <1>5
  <2> QED
    BY <1>11, <1>13, <2>1 DEF Keeps, Open
<1>20. Means(W, i, T.client)
  BY <1>5, <1>9, <1>12, <1>17 DEF Means
<1>21. Named(W, i, T, r)
  BY <1>14, <1>15, <1>17, <1>18, <1>19, <1>20 DEF Named
<1> QED
  BY <1>6, <1>12, <1>21 DEF NamedFrom

LEMMA HandleReadNamed ==
    ASSUME NEW V \in Names, NEW i \in Acceptors, NEW S \in Node, NEW r \in Record,
           Holds(i, FinishErr(S), r, TRUE), Keeps(V, i, S, r), Means(V, i, S.client),
           S.client.kind # "none", S.op = "none", S.mem, S.max_cont = 0
    PROVE  NamedFrom(V, i, HandleReadCmd(i, S, TRUE), r)
<1> DEFINE F == [S EXCEPT !.empty_flags = {i}]
<1>1. HandleReadCmd(i, S, TRUE) = IF ~IsLocalEmpty(i, S.recs) THEN HandleWriteCmd(i, S, TRUE)
                                  ELSE BroadcastCheckEmpty(i, F)
  BY DEF HandleReadCmd
<1>2. Named(V, i, S, r)
  BY DEF Keeps, Named
<1>3. F \in Node /\ F.client = S.client /\ F.out = S.out /\ Same(S, F)
  BY DEF Node, Same
<1> HIDE DEF F
<1>4. Named(V, i, F, r)
  BY <1>2, <1>3, QuietNamed
<1>5. Named(V, i, BroadcastCheckEmpty(i, F), r)
  BY <1>3, <1>4, CheckEmptyNamed
<1> QED
  BY <1>1, <1>5, HandleWriteNamed, NamedNow

LEMMA DispatchNamed ==
    ASSUME NEW V \in Names, NEW i \in Acceptors, NEW S \in Node, NEW r \in Record,
           Holds(i, FinishErr(S), r, TRUE), Named(V, i, S, r), S.client.kind # "none",
           S.loaded, S.op # "load", NEW cu
    PROVE  NamedFrom(V, i, DispatchClientCmd(i, S, TRUE, cu), r)
<1> DEFINE E == FinishErr(S)
           T == CreateEntryInfoIfMiss(S, TRUE)
<1>1. /\ E \in Node /\ E.loaded = S.loaded /\ E.op = S.op
      /\ E.max_chosen = S.max_chosen /\ E.max_cont = S.max_cont
  BY FinishErrFields
<1>2. Named(V, i, E, r)
  BY FieldsNamed
<1>3. Holds(i, E, r, TRUE)
  OBVIOUS
<1>4. CASE Entry # S.max_chosen + 1
  <2>1. DispatchClientCmd(i, S, TRUE, cu) = TryCatchup(i, E, TRUE, cu)
    BY <1>4 DEF DispatchClientCmd
  <2> HIDE DEF E
  <2>2. Named(V, i, TryCatchup(i, E, TRUE, cu), r)
    BY <1>1, <1>2, <1>3, TryCatchupNamed
  <2> QED
    BY <2>1, <2>2, NamedNow
<1>5. CASE Entry = S.max_chosen + 1
  <2>1. DispatchClientCmd(i, S, TRUE, cu) \in
            {E, FinishErr(T)} \cup (IF T.mem /\ ~uncertain(T)
                THEN {HandleWriteCmd(i, T, TRUE), HandleReadCmd(i, T, TRUE)} ELSE {})
    BY <1>5 DEF DispatchClientCmd, EntryInfoAvailable
  <2>2. T \in Node
    BY CreateType DEF GoodNode
  <2>3. Shape(S) /\ S.max_cont = 0
    <3>1. Shape(S)
      <4>1. Shape(E)
        BY <1>3 DEF Holds, Local
      <4>2. /\ E.mem = S.mem /\ E.recs = S.recs /\ E.old = S.old /\ E.max_plog = S.max_plog
            /\ E.drain = S.drain /\ E.broadcast = S.broadcast /\ E.peer_to_sync = S.peer_to_sync
        BY FinishErrFields
      <4> HIDE DEF E
      <4> QED
        BY <1>1, <4>1, <4>2 DEF Shape
    <3>2. S.max_cont \in 0 .. Entry /\ S.max_chosen \in 0 .. Entry
      BY DEF Node
    <3> QED
      BY <1>5, <3>1, <3>2, EntryNumbers DEF Shape
  <2>4. Named(V, i, T, r) /\ T.client = S.client
    <3>1. T.client = S.client
      BY DEF CreateEntryInfoIfMiss, Node
    <3> QED
      BY <2>3, <3>1, CreateNamed
  <2>5. Named(V, i, FinishErr(T), r)
    BY <2>2, <2>4, FieldsNamed
  <2>6. Holds(i, FinishErr(T), r, TRUE)
    <3>1. E.loaded /\ E.op # "load" /\ E.max_cont = 0
      BY <1>1, <2>3
    <3> HIDE DEF E
    <3>2. LET N == CreateEntryInfoIfMiss(E, TRUE) IN Holds(i, N, r, TRUE) /\ N.max_cont = 0
      BY <1>3, <3>1, CreateHolds
    <3>3. FinishErr(T) = CreateEntryInfoIfMiss(E, TRUE)
      BY CreateFinish DEF E
    <3> HIDE DEF T
    <3> QED
      BY <3>2, <3>3
  <2>7. T.max_cont = 0 /\ T.op # "load"
    <3>1. T.max_cont = S.max_cont /\ (S.op # "load" => T.op # "load")
      BY DEF CreateEntryInfoIfMiss, Node
    <3> QED
      BY <2>3, <3>1
  <2> HIDE DEF T, E
  <2>8. CASE T.mem /\ ~uncertain(T)
    <3>1. T.op = "none"
      BY <2>2, <2>7, <2>8 DEF uncertain, Node
    <3>2. Keeps(V, i, T, r) /\ Means(V, i, T.client)
      BY <2>4 DEF Named, Keeps
    <3>3. NamedFrom(V, i, HandleWriteCmd(i, T, TRUE), r)
      BY <2>2, <2>4, <2>6, <2>7, <2>8, <3>1, <3>2, HandleWriteNamed
    <3>4. NamedFrom(V, i, HandleReadCmd(i, T, TRUE), r)
      BY <2>2, <2>4, <2>6, <2>7, <2>8, <3>1, <3>2, HandleReadNamed
    <3>5. NamedFrom(V, i, E, r) /\ NamedFrom(V, i, FinishErr(T), r)
      BY <1>2, <2>5, NamedNow
    <3> QED
      BY <2>1, <2>8, <3>3, <3>4, <3>5
  <2>9. CASE ~(T.mem /\ ~uncertain(T))
    <3>1. NamedFrom(V, i, E, r) /\ NamedFrom(V, i, FinishErr(T), r)
      BY <1>2, <2>5, NamedNow
    <3> QED
      BY <2>1, <2>9, <3>1
  <2> QED
    BY <2>8, <2>9
<1> QED
  BY <1>4, <1>5

(* A new command has no id yet.                                            *)
LEMMA HandleClientCmdNamed ==
    ASSUME NEW V \in Names, NEW i \in Acceptors, NEW S, NEW r \in Record,
           Holds(i, S, r, TRUE), Named(V, i, S, r),
           NEW cmd \in ClientCmd, cmd.kind # "none", cmd.value_id = 0, NEW cu
    PROVE  NamedFrom(V, i, HandleClientCmd(i, S, cmd, TRUE, cu), r)
<1> DEFINE T == [S EXCEPT !.client = cmd]
           L == [T EXCEPT !.loaded = TRUE, !.op = "load"]
<1>1. /\ S \in Node /\ T \in Node /\ T.client = cmd
      /\ Same(S, T) /\ T.out = S.out /\ T.loaded = S.loaded
  BY DEF Holds, Node, Same
<1>2. FinishErr(T) = FinishErr(S)
  BY <1>1 DEF FinishErr, Node
<1>3. HandleClientCmd(i, S, cmd, TRUE, cu) =
          IF ~S.loaded THEN L
          ELSE IF loading(S) THEN T ELSE DispatchClientCmd(i, T, TRUE, cu)
  BY DEF HandleClientCmd
<1>4. /\ L.recs = S.recs /\ L.op = "load" /\ L.client = cmd /\ L.out = S.out
      /\ L.waiting_msg = S.waiting_msg /\ L.waiting_msgs = S.waiting_msgs
  BY <1>1 DEF Node
<1> HIDE DEF T, L
<1>5. Means(V, i, cmd)
  BY DEF Means
<1>6. Named(V, i, T, r)
  <2>1. Counts(i, T, r) = Counts(i, S, r) /\ Held(T) = Held(S) /\ T.recs = S.recs
    BY <1>1 DEF Counts, Same, Held
  <2> QED
    BY <1>1, <1>5, <2>1 DEF Named
<1>7. CASE ~S.loaded
  <2>1. S.op = "none"
    BY <1>7 DEF Holds, Local, Shape
  <2>2. Held(L) = Held(S) /\ Counts(i, L, r) = Counts(i, S, r)
    BY <1>4, <2>1 DEF Held, Counts
  <2>3. Named(V, i, L, r)
    BY <1>4, <1>5, <2>2 DEF Named
  <2> QED
    BY <1>3, <1>7, <2>3, NamedNow
<1>8. CASE S.loaded
  <2>1. Holds(i, FinishErr(T), r, TRUE)
    BY <1>2, FinishHolds
  <2>2. ~loading(S) => NamedFrom(V, i, DispatchClientCmd(i, T, TRUE, cu), r)
    BY <1>1, <1>6, <1>8, <2>1, DispatchNamed DEF loading, Same
  <2> QED
    BY <1>3, <1>6, <1>8, <2>2, NamedNow
<1> QED
  BY <1>7, <1>8

-----------------------------------------------------------------------------
LEMMA CountEmptyNamed ==
    ASSUME NEW V, NEW i, NEW S \in Node, NEW r, Named(V, i, S, r), NEW m \in PaxosCmd
    PROVE  Named(V, i, CountEmpty(i, S, m), r)
<1> DEFINE flags == S.empty_flags \cup {m.from}
           T == [S EXCEPT !.empty_flags = flags]
<1>1. CountEmpty(i, S, m) \in {S, FinishErr(S), FinishOk(T), T}
  BY DEF CountEmpty
<1>2. flags \in SUBSET Acceptors
  BY DEF Node, PaxosCmd
<1> HIDE DEF flags
<1>3. T \in Node /\ T.client = S.client /\ T.out = S.out /\ Same(S, T)
  BY <1>2 DEF Node, Same
<1> HIDE DEF T
<1>4. Named(V, i, T, r)
  BY <1>3, QuietNamed
<1>5. Named(V, i, FinishErr(S), r) /\ Named(V, i, FinishOk(T), r)
  BY <1>3, <1>4, FieldsNamed
<1> QED
  BY <1>1, <1>4, <1>5

(* What is accepted is the value of the command, nothing, or the value of  *)
(* a peer.                                                                 *)
LEMMA AcceptIfPromisedNamed ==
    ASSUME NEW V, NEW i \in Acceptors, NEW S \in Node, Numbered(i, S),
           Bearing(V, S.recs), Means(V, i, S.client)
    PROVE  LET T == AcceptIfPromised(i, S) IN
           Bearing(V, T.recs) /\ (T.client = S.client \/ T.client = NoCmd)
<1> DEFINE mine == S.client.kind # "none"
           v == IF mine THEN S.client.value ELSE NoValue
           n == IF mine THEN S.client.value_id ELSE S.recs[i].promised
           recs == Accept(i, S.recs, v, n)
           B == [S EXCEPT !.recs = recs]
           T == Check(B, entry_state(i, recs) = "AcceptLocal")
           E == FinishErr(T)
<1>1. \/ AcceptIfPromised(i, S) = S
      \/ /\ state(i, S) = "MajorityPromise"
         /\ AcceptIfPromised(i, S) = T \/ AcceptIfPromised(i, S) = E
  BY DEF AcceptIfPromised
<1>2. S.recs \in Machine /\ S.client \in ClientCmd
  BY NodeFields
<1>3. state(i, S) = "MajorityPromise" =>
          v \in Values \cup {NoValue} /\ n \in Nat /\ (v = V[n] \/ v = NoValue)
  <2>1. /\ S.recs[i].promised \in Nat /\ S.recs[i].prepared \in Nat
        /\ S.recs[i].chosen \in BOOLEAN /\ S.recs[i].accepted \in Nat
    BY <1>2, MachineFields
  <2>2. state(i, S) = "MajorityPromise" => S.recs[i].prepared # 0
    BY <2>1 DEF state, entry_state
  <2> QED
    BY <1>2, <2>1, <2>2 DEF Numbered, Means, ClientCmd
<1> HIDE DEF v, n
<1>4. state(i, S) = "MajorityPromise" => Bearing(V, recs)
  BY <1>2, <1>3, AcceptBearing
<1> HIDE DEF recs
<1>5. T.recs = recs /\ T.client = S.client /\ E.recs = recs /\ E.client = NoCmd
  BY DEF Check, FinishErr, Node
<1> HIDE DEF T, E
<1> QED
  BY <1>1, <1>4, <1>5

LEMMA OpenGrows ==
    ASSUME NEW V, NEW i, NEW x \in Record, NEW y \in Record, Open(V, i, x),
           x.prepared <= y.prepared
    PROVE  Open(V, i, y)
<1>1. x.prepared \in Nat /\ y.prepared \in Nat
  BY DEF Record
<1> QED
  BY <1>1 DEF Open

LEMMA UpdateMachineNamed ==
    ASSUME NEW V, NEW i \in Acceptors, NEW S, NEW r \in Record,
           Holds(i, S, r, TRUE), Named(V, i, S, r),
           S.op = "none", S.mem, NEW m \in PaxosCmd, MsgOK(i, m), Bears(V, m)
    PROVE  Named(V, i, UpdateMachineByPaxosCmd(i, S, m, TRUE), r)
<1> DEFINE N == UpdateMachineByPaxosCmd(i, S, m, TRUE)
           q == Update(i, m.from, S.recs, m.local)
           U == [S EXCEPT !.recs = q]
           A == AcceptIfPromised(i, U)
           T == Check(A, CalcAsserts(q[i]))
           compensate == /\ state(i, U) # state(i, S)
                         /\ state(i, U) \in {"MajorityPromise", "Chosen"}
           newer == IsRecordNewer(S.recs[i], T.recs[i])
           need_sync == IsRecordNewer(m.peer, T.recs[i])
           O == StoreEntryInfo(T)
           sync == IF need_sync THEN m.from ELSE O.peer_to_sync
           comp == IF need_sync THEN compensate ELSE O.compensate
           X == [O EXCEPT !.peer_to_sync = sync, !.compensate = comp]
           Y == SyncToPeers(i, T, {m.from})
           C == Check(T, IsLocalEmpty(i, T.recs))
           answer == [SendBack(m) EXCEPT !.check_empty = FALSE]
<1>1. /\ S \in Node /\ S.recs \in Machine /\ MachineInv(i, S.recs) /\ S.ok
      /\ Numbered(i, S) /\ m.from \in Acceptors /\ m.from # i /\ m.local \in Record
      /\ S.recs[i] \in Record /\ S.recs[i] = r /\ S.client \in ClientCmd
  BY NodeFields, MachineFields DEF Holds, Local, MsgOK, PaxosCmd, Intact
<1>2. q \in Machine /\ MachineInv(i, q) /\ q[i].prepared = S.recs[i].prepared
  BY <1>1, UpdateFacts, ZenonT(40)
<1>3. N = IF ~UpdateAccepts(m.local) THEN S
          ELSE IF newer THEN CountEmpty(i, X, m)
          ELSE IF need_sync THEN CountEmpty(i, Y, m)
          ELSE IF m.check_empty THEN Send(C, answer)
          ELSE CountEmpty(i, T, m)
  <2>1. U.recs = q
    BY <1>1 DEF Node
  <2>2. X = [StoreEntryInfo(T) EXCEPT !.peer_to_sync = IF need_sync THEN m.from ELSE @,
                                      !.compensate = IF need_sync THEN compensate ELSE @]
    OBVIOUS
  <2> HIDE DEF X
  <2> QED
    BY <2>1, <2>2, SMTT(30) DEF UpdateMachineByPaxosCmd
<1>4. Bearing(V, q)
  BY <1>1, UpdateBearing DEF Named, Bears
<1> HIDE DEF q, N
<1>5. /\ U \in Node /\ U.recs = q /\ Still(S, U) /\ U.client = S.client /\ U.ok = S.ok
      /\ U.out = S.out /\ U.waiting_msg = S.waiting_msg
  BY <1>1, <1>2 DEF Node, Still
<1> HIDE DEF U
<1>6. Numbered(i, U) /\ MachineInv(i, U.recs) /\ U.ok
  BY <1>1, <1>2, <1>5 DEF Numbered
<1>7. /\ A \in Node /\ A.recs[i].prepared = q[i].prepared
      /\ A.out = U.out /\ A.waiting_msg = U.waiting_msg
  BY <1>5, <1>6, AcceptIfPromisedFacts
<1>8. Still(U, A)
  BY <1>5, <1>6, AcceptIfPromisedFacts DEF Still
<1>9. Bearing(V, A.recs) /\ (A.client = U.client \/ A.client = NoCmd)
  BY <1>4, <1>5, <1>6, AcceptIfPromisedNamed DEF Named
<1> HIDE DEF A
<1>10. CalcAsserts(q[i]) \in BOOLEAN
  BY <1>2, MachineFields DEF CalcAsserts
<1>11. /\ T \in Node /\ Still(A, T) /\ T.recs = A.recs /\ T.client = A.client
       /\ T.out = A.out /\ T.waiting_msg = A.waiting_msg
  BY <1>7, <1>10 DEF Check, Node, Still
<1> HIDE DEF T
<1>12. /\ T.client = S.client \/ T.client = NoCmd
       /\ T.op = "none" /\ Held(T) = Held(S) /\ Bearing(V, T.recs)
  BY <1>5, <1>7, <1>8, <1>9, <1>11 DEF Still, Held
<1>13. Means(V, i, T.client)
  BY <1>12 DEF Named, Means, NoCmd
<1>14. Counts(i, S, r) = r /\ Counts(i, T, r) = r
  BY <1>12 DEF Counts
<1>15. Named(V, i, T, r)
  BY <1>12, <1>13, <1>14 DEF Named
<1>16. Named(V, i, CountEmpty(i, X, m), r)
  <2>1. sync \in Acceptors \cup {NoPeer} /\ comp \in BOOLEAN
    BY <1>1, <1>11 DEF Node, StoreEntryInfo, Check
  <2>2. /\ O \in Node /\ O.op = "set" /\ O.recs = T.recs /\ O.client = T.client
        /\ O.out = T.out /\ O.waiting_msg = T.waiting_msg /\ O.waiting_msgs = T.waiting_msgs
    <3> DEFINE b == ~uncertain(T)
    <3>1. b \in BOOLEAN
      BY DEF uncertain
    <3>2. O = [Check(T, b) EXCEPT !.op = "set"]
      BY DEF StoreEntryInfo
    <3> HIDE DEF b, O
    <3> DEFINE Z == Check(T, b)
    <3>3. /\ Z \in Node /\ Z.recs = T.recs /\ Z.client = T.client
          /\ Z.out = T.out /\ Z.waiting_msg = T.waiting_msg /\ Z.waiting_msgs = T.waiting_msgs
      BY <1>11, <3>1 DEF Node, Check
    <3>4. O = [Z EXCEPT !.op = "set"]
      BY <3>2
    <3> HIDE DEF Z
    <3> QED
      BY <3>3, <3>4 DEF Node
  <2> HIDE DEF sync, comp, O
  <2>3. /\ X \in Node /\ X.op = "set" /\ X.recs = O.recs /\ X.client = O.client
        /\ X.out = O.out /\ X.waiting_msg = O.waiting_msg /\ X.waiting_msgs = O.waiting_msgs
    BY <2>1, <2>2, ZenonT(40) DEF Node
  <2> HIDE DEF X
  <2>4. Counts(i, X, r) = T.recs[i] /\ Held(X) = Held(T)
    BY <2>2, <2>3 DEF Counts, Held
  <2>5. T.recs[i] \in Record /\ r.prepared <= T.recs[i].prepared
    <3>1. T.recs[i] \in Record /\ T.recs[i].prepared = r.prepared /\ r.prepared \in Nat
      BY <1>1, <1>2, <1>7, <1>11, NodeFields DEF Record
    <3> QED
      BY <3>1
  <2>6. Open(V, i, T.recs[i])
    BY <1>14, <2>5, OpenGrows DEF Named
  <2>7. Named(V, i, X, r)
    BY <1>12, <1>13, <2>2, <2>3, <2>4, <2>6 DEF Named
  <2> QED
    BY <2>3, <2>7, CountEmptyNamed
<1>17. Named(V, i, CountEmpty(i, Y, m), r)
  <2>1. Y \in Node
    BY <1>1, <1>11, SyncToPeersType DEF GoodNode
  <2>2. Named(V, i, Y, r)
    BY <1>1, <1>11, <1>15, SyncNamed
  <2> HIDE DEF Y
  <2> QED
    BY <2>1, <2>2, CountEmptyNamed
<1>18. Named(V, i, Send(C, answer), r)
  <2>1. C \in Node
    BY <1>11, CheckType DEF GoodNode, IsLocalEmpty
  <2>2. Named(V, i, C, r)
    BY <1>11, <1>15, FieldsNamed
  <2> HIDE DEF C
  <2>3. SendBack(m) \in PaxosCmd /\ SendBack(m).local = m.peer /\ SendBack(m).peer = m.local
    BY SendBackFacts
  <2>4. answer \in PaxosCmd /\ answer.local = m.peer /\ answer.peer = m.local
    BY <2>3 DEF PaxosCmd
  <2> HIDE DEF answer
  <2>5. Bears(V, answer)
    BY <2>4 DEF Bears
  <2> QED
    BY <2>1, <2>2, <2>4, <2>5, SendNamed
<1>19. Named(V, i, CountEmpty(i, T, m), r)
  BY <1>11, <1>15, CountEmptyNamed
<1> HIDE DEF newer, need_sync, X, Y, C, answer
<1> QED
  BY <1>3, <1>16, <1>17, <1>18, <1>19 DEF N

LEMMA ParkNamed ==
    ASSUME NEW V, NEW i, NEW S \in Node, NEW r, Named(V, i, S, r),
           NEW m \in PaxosCmd, Bears(V, m), NEW a \in Acceptors
    PROVE  Named(V, i, [S EXCEPT !.waiting_msgs = [S.waiting_msgs EXCEPT ![a] = {m}]], r)
<1> DEFINE w == [S.waiting_msgs EXCEPT ![a] = {m}]
           T == [S EXCEPT !.waiting_msgs = w]
<1>1. \A b \in Acceptors : \A x \in w[b] : x = m \/ x \in S.waiting_msgs[b]
  BY NodeFields
<1> HIDE DEF w
<1>2. /\ T.client = S.client /\ T.op = S.op /\ T.recs = S.recs /\ T.out = S.out
      /\ T.waiting_msg = S.waiting_msg /\ T.waiting_msgs = w
  BY DEF Node
<1> HIDE DEF T
<1>3. Counts(i, T, r) = Counts(i, S, r) /\ \A x \in Held(T) : x \in Held(S) \/ Bears(V, x)
  BY <1>1, <1>2 DEF Counts, Held
<1>4. Named(V, i, T, r)
  BY <1>2, <1>3, MoveNamed
<1> QED
  BY <1>4 DEF T, w

LEMMA HandleLoadedNamed ==
    ASSUME NEW V, NEW i \in Acceptors, NEW S, NEW r \in Record,
           Holds(i, S, r, TRUE), Named(V, i, S, r),
           S.loaded, S.op # "load", NEW m \in PaxosCmd, MsgOK(i, m), Bears(V, m), NEW cu
    PROVE  Named(V, i, HandleLoadedPaxosCmd(i, S, m, r, TRUE, cu), r)
<1> DEFINE N == HandleLoadedPaxosCmd(i, S, m, r, TRUE, cu)
           L == LearnMaxChosen(S, m)
           mine == L.client.kind # "none" /\ L.client.uuid = m.uuid
           F == IF mine THEN FinishErr(L) ELSE L
           T == CreateEntryInfoIfMiss(L, TRUE)
           c == RestoreValue(T, m)
           P == [T EXCEPT !.waiting_msgs = [T.waiting_msgs EXCEPT ![m.from] = {c}]]
           C == Check(T, ~T.broadcast /\ T.peer_to_sync = NoPeer)
           M == UpdateMachineByPaxosCmd(i, C, c, TRUE)
<1>1. Holds(i, L, r, TRUE) /\ Steady(S, L) /\ L.op = S.op
  BY LearnHolds
<1>2. Named(V, i, L, r)
  BY FieldsNamed DEF Holds
<1>3. N = IF m.check_empty /\ Entry <= L.max_chosen THEN FastFail(L, m)
          ELSE IF m.fast_failed THEN TryCatchup(i, F, TRUE, cu)
          ELSE IF LocalChosen(i, L) THEN HandleIfLocalChosen(i, L, m, r)
          ELSE IF ~T.mem THEN L
          ELSE IF uncertain(T) THEN P
          ELSE TryCatchup(i, M, TRUE, cu)
  <2> HIDE DEF L
  <2>1. P = [T EXCEPT !.waiting_msgs = [@ EXCEPT ![m.from] = {c}]]
    OBVIOUS
  <2> HIDE DEF P
  <2> QED
    BY <2>1 DEF HandleLoadedPaxosCmd, EntryInfoAvailable, L
<1> HIDE DEF L
<1>4. L \in Node /\ L.loaded /\ L.op # "load" /\ m.from \in Acceptors
  BY <1>1 DEF Holds, Steady, PaxosCmd
<1>5. Named(V, i, FastFail(L, m), r)
  BY <1>2, <1>4, FastFailNamed
<1>6. Named(V, i, HandleIfLocalChosen(i, L, m, r), r)
  BY <1>2, <1>4, LocalChosenNamed
<1>7. Named(V, i, TryCatchup(i, F, TRUE, cu), r)
  <2>1. Holds(i, FinishErr(L), r, TRUE) /\ Steady(L, FinishErr(L)) /\ Named(V, i, FinishErr(L), r)
    BY <1>1, <1>2, <1>4, FinishHolds, FieldsNamed
  <2>2. Holds(i, F, r, TRUE) /\ Steady(L, F) /\ Named(V, i, F, r)
    <3>1. CASE mine
      BY <2>1, <3>1
    <3>2. CASE ~mine
      BY <1>1, <1>2, <3>2 DEF Steady
    <3> QED
      BY <3>1, <3>2
  <2> HIDE DEF F
  <2>3. F.loaded /\ F.op # "load"
    BY <1>4, <2>2 DEF Steady
  <2> QED
    BY <2>2, <2>3, TryCatchupNamed
<1>8. CASE ~LocalChosen(i, L)
  <2>1. L.max_cont = 0
    BY <1>4, <1>8, EntryNumbers DEF LocalChosen, Node
  <2>2. Holds(i, T, r, TRUE) /\ Steady(L, T) /\ T.max_cont = 0
    BY <1>1, <1>4, <2>1, CreateHolds
  <2>3. Named(V, i, T, r)
    BY <1>1, <1>2, <1>4, CreateNamed DEF Holds, Local
  <2> HIDE DEF T, N
  <2>4. T \in Node /\ T.loaded /\ T.op # "load"
    BY <1>4, <2>2 DEF Holds, Steady
  <2>5. c \in PaxosCmd /\ MsgOK(i, c)
    BY <2>4, RestoredOK
  <2>6. Bears(V, c)
    BY <2>3, <2>4, RestoredBears DEF Named
  <2> HIDE DEF c
  <2>7. Named(V, i, P, r)
    BY <1>4, <2>3, <2>4, <2>5, <2>6, ParkNamed
  <2>8. CASE T.mem /\ ~uncertain(T)
    <3>1. T.op = "none"
      BY <2>4, <2>8 DEF uncertain, Node
    <3>2. C = T
      BY <2>2, <2>4, <3>1, CheckTrue DEF Holds, Local, Shape
    <3>3. M = UpdateMachineByPaxosCmd(i, T, c, TRUE)
      BY <3>2
    <3> HIDE DEF M
    <3>4. Holds(i, M, r, TRUE) /\ Steady(T, M)
      BY <2>2, <2>5, <2>8, <3>1, <3>3, UpdateMachineHolds
    <3>5. Named(V, i, M, r)
      BY <2>2, <2>3, <2>5, <2>6, <2>8, <3>1, <3>3, UpdateMachineNamed
    <3>6. M.loaded /\ M.op # "load"
      BY <2>4, <3>4 DEF Steady
    <3>7. Named(V, i, TryCatchup(i, M, TRUE, cu), r)
      BY <3>4, <3>5, <3>6, TryCatchupNamed
    <3> HIDE DEF P
    <3> QED
      BY <1>2, <1>3, <1>5, <1>7, <1>8, <2>7, <2>8, <3>7 DEF N
  <2> HIDE DEF P, M
  <2> QED
    BY <1>2, <1>3, <1>5, <1>7, <1>8, <2>7, <2>8 DEF N
<1> HIDE DEF N, P, M, F, T
<1> QED
  BY <1>3, <1>5, <1>6, <1>7, <1>8 DEF N

LEMMA HandlePaxosCmdNamed ==
    ASSUME NEW V, NEW i \in Acceptors, NEW S, NEW r \in Record,
           Holds(i, S, r, TRUE), Named(V, i, S, r),
           NEW m \in PaxosCmd, MsgOK(i, m), Bears(V, m), NEW cu
    PROVE  Named(V, i, HandlePaxosCmd(i, S, m, r, TRUE, cu), r)
<1> DEFINE L == [S EXCEPT !.loaded = TRUE, !.op = "load", !.waiting_msg = {m}]
           W == [S EXCEPT !.waiting_msg = {m}]
           N == HandleLoadedPaxosCmd(i, S, m, r, TRUE, cu)
<1>1. S \in Node /\ (~S.loaded => S.op = "none")
  BY DEF Holds, Local, Shape
<1>2. HandlePaxosCmd(i, S, m, r, TRUE, cu) =
          IF ~S.loaded THEN L ELSE IF loading(S) THEN W ELSE N
  BY DEF HandlePaxosCmd
<1>3. /\ L.client = S.client /\ L.op = "load" /\ L.recs = S.recs /\ L.out = S.out
      /\ L.waiting_msg = {m} /\ L.waiting_msgs = S.waiting_msgs
  BY <1>1 DEF Node
<1>4. /\ W.client = S.client /\ W.op = S.op /\ W.recs = S.recs /\ W.out = S.out
      /\ W.waiting_msg = {m} /\ W.waiting_msgs = S.waiting_msgs
  BY <1>1 DEF Node
<1> HIDE DEF L, W
<1>5. /\ \A x \in Held(L) : x \in Held(S) \/ Bears(V, x)
      /\ \A x \in Held(W) : x \in Held(S) \/ Bears(V, x)
      /\ Counts(i, W, r) = Counts(i, S, r)
      /\ ~S.loaded => Counts(i, L, r) = Counts(i, S, r)
  BY <1>1, <1>3, <1>4 DEF Held, Counts
<1>6. Named(V, i, W, r)
  BY <1>4, <1>5, MoveNamed
<1>7. ~S.loaded => Named(V, i, L, r)
  BY <1>3, <1>5, MoveNamed
<1>8. S.loaded /\ ~loading(S) => Named(V, i, N, r)
  BY HandleLoadedNamed DEF loading
<1> HIDE DEF N
<1> QED
  BY <1>2, <1>6, <1>7, <1>8

LEMMA EndOfLoopNamed ==
    ASSUME NEW V, NEW i \in Acceptors, NEW S, NEW r \in Record, Named(V, i, S, r),
           Holds(i, S, r, TRUE), S.loaded, S.op # "load", NEW pushed \in BOOLEAN, NEW cu
    PROVE  Named(V, i, EndOfLoop(i, S, pushed, cu), r)
<1> DEFINE T == [S EXCEPT !.drain = "no"]
           N == EndOfLoop(i, S, pushed, cu)
<1>1. Holds(i, T, r, TRUE) /\ T.loaded /\ T.op # "load"
  BY DrainHolds
<1>2. N = S \/ N = TryCatchup(i, T, pushed, cu) \/ N = T
  BY DEF EndOfLoop
<1>3. Named(V, i, T, r)
  BY FieldsNamed DEF Holds
<1> HIDE DEF T, N
<1>4. Named(V, i, TryCatchup(i, T, pushed, cu), r)
  BY <1>1, <1>3, TryCatchupNamed
<1> QED
  BY <1>2, <1>3, <1>4 DEF N

LEMMA HandleWaitingMsgNamed ==
    ASSUME NEW V, NEW i \in Acceptors, NEW S, NEW r \in Record,
           Holds(i, S, r, TRUE), Named(V, i, S, r),
           S.drain # "no", S.waiting_msgs # NoWaiting, NEW cu
    PROVE  Named(V, i, HandleWaitingMsg(i, S, r, TRUE, cu), r)
<1> DEFINE full == {a \in Acceptors : S.waiting_msgs[a] # {}}
           a == NextWaiting(S)
           m == CHOOSE x \in S.waiting_msgs[a] : TRUE
           w == [S.waiting_msgs EXCEPT ![a] = {}]
           T == [S EXCEPT !.waiting_msgs = w]
           N == HandleLoadedPaxosCmd(i, T, m, r, TRUE, cu)
<1>1. /\ S \in Node /\ S.waiting_msgs \in [Acceptors -> Waiting]
      /\ S.loaded /\ S.op # "load"
  BY NodeFields DEF Holds, Local, Shape
<1>2. full # {}
  BY <1>1 DEF NoWaiting
<1>3. a \in Acceptors /\ S.waiting_msgs[a] # {}
  <2>1. \E b \in full : \A d \in full : b <= d
    BY <1>2, FirstAcceptor
  <2>2. NextWaiting(S) = CHOOSE b \in Acceptors :
              /\ S.waiting_msgs[b] # {}
              /\ \A d \in Acceptors : S.waiting_msgs[d] # {} => b <= d
    BY DEF NextWaiting
  <2> QED
    BY <2>1, <2>2
<1>4. HandleWaitingMsg(i, S, r, TRUE, cu) = EndOfLoop(i, N, TRUE, cu)
  <2>1. T = [S EXCEPT !.waiting_msgs = [@ EXCEPT ![a] = {}]]
    OBVIOUS
  <2> HIDE DEF T
  <2> QED
    BY <2>1 DEF HandleWaitingMsg
<1> HIDE DEF a
<1>5. m \in PaxosCmd /\ MsgOK(i, m) /\ Bears(V, m)
  <2>1. m \in S.waiting_msgs[a]
    BY <1>3
  <2>2. m \in PaxosCmd /\ MsgOK(i, m) /\ m \in Held(S)
    BY <1>1, <1>3, <2>1 DEF Holds, Local, Parked, Waiting, Held
  <2> HIDE DEF m
  <2> QED
    BY <2>2 DEF Named
<1> HIDE DEF m
<1>6. Holds(i, T, r, TRUE) /\ Steady(S, T)
  BY <1>3, UnparkHolds
<1>7. \A b \in Acceptors : w[b] \subseteq S.waiting_msgs[b]
  BY <1>1
<1> HIDE DEF w
<1>8. /\ T.client = S.client /\ T.op = S.op /\ T.recs = S.recs /\ T.out = S.out
      /\ T.waiting_msg = S.waiting_msg /\ T.waiting_msgs = w /\ T.loaded = S.loaded
  BY <1>1 DEF Node
<1> HIDE DEF T
<1>9. Counts(i, T, r) = Counts(i, S, r) /\ \A x \in Held(T) : x \in Held(S)
  BY <1>7, <1>8 DEF Counts, Held
<1>10. Named(V, i, T, r)
  BY <1>8, <1>9, MoveNamed
<1>11. Named(V, i, N, r)
  BY <1>1, <1>5, <1>6, <1>8, <1>10, HandleLoadedNamed
<1>12. Holds(i, N, r, TRUE) /\ Steady(T, N)
  BY <1>1, <1>5, <1>6, <1>8, HandleLoadedHolds
<1> HIDE DEF N
<1>13. N.loaded /\ N.op # "load"
  BY <1>1, <1>8, <1>12 DEF Steady
<1> QED
  BY <1>4, <1>11, <1>12, <1>13, EndOfLoopNamed

(* The value that is answered Ok is the one of the chosen id.              *)
LEMMA HandleSetNamed ==
    ASSUME NEW V, NEW i \in Acceptors, NEW S, NEW s \in Record,
           Holds(i, S, s, TRUE), Named(V, i, S, s), S.op = "set", S.done = NoCmd
    PROVE  LET N == HandleSetFromPlog(i, S, TRUE) IN
           /\ Named(V, i, N, S.recs[i])
           /\ N.done.kind = "write" =>
                  S.recs[i].chosen /\ V[S.recs[i].value_id] = N.done.value
<1> DEFINE r == S.recs[i]
           U == [S EXCEPT !.op = "none"]
           C == UpdateByChosenEntry(i, U)
           W == FinishIfChosen(i, C)
           Y == SyncPersistent(i, W)
           O == [Y EXCEPT !.broadcast = FALSE, !.compensate = FALSE,
                          !.peer_to_sync = NoPeer, !.drain = "set"]
           E == [O EXCEPT !.drain = "no"]
           N == HandleSetFromPlog(i, S, TRUE)
           Told(d) == d.kind = "write" => r.chosen /\ V[r.value_id] = d.value
<1>1. S \in Node /\ S.peer_to_sync # i /\ r \in Record /\ UpdateAccepts(r) /\ S.recs \in Machine
  BY HoldsNode DEF Holds, Local, Parked, MachineInv, WellFormed
<1>2. N = IF ~W.broadcast /\ W.peer_to_sync = NoPeer THEN W
          ELSE EndOfLoop(i, O, TRUE, "none")
  BY DEF HandleSetFromPlog
<1>3. /\ U \in Node /\ U.peer_to_sync = S.peer_to_sync /\ U.op = "none"
      /\ U.client = S.client /\ U.done = S.done /\ U.recs = S.recs /\ U.out = S.out
      /\ U.waiting_msg = S.waiting_msg /\ U.waiting_msgs = S.waiting_msgs
  BY <1>1 DEF Node
<1> HIDE DEF U, N
<1>4. Named(V, i, U, r)
  <2>1. Counts(i, U, r) = Counts(i, S, s) /\ Held(U) = Held(S) /\ Carries(V, r)
    BY <1>3 DEF Counts, Held, Named, Bearing
  <2> QED
    BY <1>3, <2>1 DEF Named
<1>5. C \in Node /\ Still(U, C) /\ C.client = U.client /\ C.done = U.done /\ C.recs = U.recs
  <2>1. C.client = U.client /\ C.done = U.done /\ C.recs = U.recs
    <3>1. \A e : Drifts(e, U, C)
      BY <1>3, UpdateByChosenDrifts
    <3> QED
      BY <1>3, <3>1, UpdateByChosenClient DEF Drifts
  <2> QED
    BY <1>3, <2>1, UpdateByChosenType, UpdateByChosenStill DEF GoodNode
<1>6. Named(V, i, C, r)
  BY <1>3, <1>4, UpdateByChosenNamed
<1> HIDE DEF C
<1>7. /\ W \in Node /\ Named(V, i, W, r) /\ W.peer_to_sync = C.peer_to_sync /\ Told(W.done)
  <2>1. CASE W = C
    BY <1>3, <1>5, <1>6, <2>1 DEF NoCmd
  <2>2. CASE W # C
    <3>1. /\ W = FinishOk(C) /\ state(i, C) = "Chosen" /\ C.client.kind # "none"
          /\ C.client.value_id = C.recs[i].value_id
      BY <2>2 DEF FinishIfChosen
    <3> HIDE DEF W
    <3>2. W \in Node /\ W.done = C.client /\ W.peer_to_sync = C.peer_to_sync
      <4>1. W \in Node
        BY <1>5, <3>1, FinishType DEF GoodNode
      <4> QED
        BY <1>5, <3>1, <4>1 DEF FinishOk, Node
    <3>3. Named(V, i, W, r)
      BY <1>5, <1>6, <3>1, FieldsNamed
    <3>4. r.chosen /\ C.client.value_id = r.value_id
      BY <1>1, <1>3, <1>5, <3>1, StateChosen DEF state
    <3>5. r.value_id # 0
      BY <1>1, <3>4 DEF UpdateAccepts, IsValidRecord
    <3>6. V[r.value_id] = C.client.value
      BY <1>6, <3>1, <3>4, <3>5 DEF Named, Means
    <3> QED
      BY <3>2, <3>3, <3>4, <3>6
  <2> QED
    BY <2>1, <2>2
<1> HIDE DEF W, Told
<1>8. CASE W.broadcast \/ W.peer_to_sync # NoPeer
  <2>1. W.peer_to_sync # i
    BY <1>1, <1>3, <1>5, <1>7 DEF Still
  <2>2. PICK P \in SUBSET Peers(i) : Y = SyncToPeers(i, W, P)
    BY <1>7, <1>8, <2>1, SyncPersistentFacts
  <2>3. P \in SUBSET Acceptors
    BY DEF Peers
  <2>4. Y \in Node /\ Named(V, i, Y, r) /\ Y.done = W.done
    <3>1. Y.done = W.done
      BY <1>7, <2>2 DEF SyncToPeers, Node
    <3> QED
      BY <1>7, <2>2, <2>3, <3>1, SyncToPeersType, SyncNamed DEF GoodNode
  <2> HIDE DEF Y
  <2>5. /\ O \in Node /\ O.client = Y.client /\ O.done = Y.done /\ O.op = Y.op
        /\ O.recs = Y.recs /\ O.out = Y.out /\ O.waiting_msg = Y.waiting_msg
        /\ O.waiting_msgs = Y.waiting_msgs /\ O.drain = "set"
    BY <2>4 DEF Node
  <2> HIDE DEF O
  <2>6. Counts(i, O, r) = Counts(i, Y, r) /\ Held(O) = Held(Y)
    BY <2>5 DEF Counts, Held
  <2>7. Named(V, i, O, r)
    BY <2>4, <2>5, <2>6, MoveNamed
  <2>8. Named(V, i, E, r) /\ E.done = O.done
    BY <2>5, <2>7, FieldsNamed DEF Node
  <2> HIDE DEF E
  <2>9. N = O \/ N = E
    BY <1>2, <1>8, <2>5 DEF EndOfLoop, E
  <2> QED
    BY <1>7, <2>4, <2>5, <2>7, <2>8, <2>9 DEF N, Told
<1> QED
  BY <1>2, <1>7, <1>8 DEF N, Told

LEMMA HandleGetNamed ==
    ASSUME NEW V, NEW i \in Acceptors, NEW S, NEW r \in Record,
           Holds(i, S, r, TRUE), Named(V, i, S, r), Settled(S), S.op = "get",
           NEW pushed \in BOOLEAN, NEW cu
    PROVE  Named(V, i, HandleGetFromPlog(i, S, r, TRUE, pushed, cu), r)
<1> DEFINE U == [S EXCEPT !.op = "none"]
           q == Update(i, i, U.recs, r)
           G == [U EXCEPT !.recs = q]
           C == UpdateByChosenEntry(i, G)
           X == [C EXCEPT !.drain = "get"]
<1>1. S \in Node /\ S.recs = NewMachine /\ UpdateAccepts(r)
  BY DEF Holds, Local, Shape, Covered
<1>2. HandleGetFromPlog(i, S, r, TRUE, pushed, cu) = EndOfLoop(i, X, pushed, cu)
  BY <1>1 DEF HandleGetFromPlog
<1>3. X = RecordRead(i, S, r)
  BY DEF RecordRead
<1>4. Holds(i, X, r, TRUE) /\ X.loaded /\ X.op # "load"
  <2> HIDE DEF X
  <2> QED
    BY <1>3, RecordReadHolds
<1>5. U \in Node /\ U.recs = S.recs
  BY <1>1 DEF Node
<1>6. q \in Machine /\ Bearing(V, q)
  <2> HIDE DEF U
  <2>1. U.recs \in Machine
    BY <1>5, NodeFields
  <2> QED
    BY <1>5, <2>1, UpdateType, UpdateBearing DEF Named
<1> HIDE DEF q
<1>7. /\ G \in Node /\ G.client = S.client /\ G.op = "none" /\ G.out = S.out /\ G.recs = q
      /\ G.waiting_msg = S.waiting_msg /\ G.waiting_msgs = S.waiting_msgs
  BY <1>1, <1>6 DEF Node
<1> HIDE DEF G
<1>8. Named(V, i, G, r)
  <2>1. Counts(i, G, r) = Counts(i, S, r) /\ Held(G) = Held(S)
    BY <1>7 DEF Counts, Held
  <2> QED
    BY <1>6, <1>7, <2>1 DEF Named
<1>9. C \in Node /\ Named(V, i, C, r)
  BY <1>7, <1>8, UpdateByChosenType, UpdateByChosenNamed DEF GoodNode
<1> HIDE DEF C
<1>10. Named(V, i, X, r)
  BY <1>9, FieldsNamed
<1> HIDE DEF X
<1> QED
  BY <1>2, <1>4, <1>10, EndOfLoopNamed

LEMMA HandleLoadNamed ==
    ASSUME NEW V \in Names, NEW i \in Acceptors, NEW S, NEW r \in Record,
           Holds(i, S, r, TRUE), Named(V, i, S, r),
           S.op = "load", NEW b \in BOOLEAN, b => r.chosen, NEW cu
    PROVE  NamedFrom(V, i, HandleLoadFromPlog(i, S, r, b, TRUE, cu), r)
<1> DEFINE U == EntityLoaded(S, r, b)
           m == CHOOSE x \in S.waiting_msg : TRUE
           G == IF S.waiting_msg = {} THEN U
                ELSE HandleLoadedPaxosCmd(i, U, m, r, TRUE, cu)
<1>1. HandleLoadFromPlog(i, S, r, b, TRUE, cu) =
          IF G.client.kind = "none" THEN G ELSE DispatchClientCmd(i, G, TRUE, cu)
  BY DEF HandleLoadFromPlog, EntityLoaded
<1>2. Holds(i, U, r, TRUE) /\ U.loaded /\ U.op = "none"
  BY EntityLoadedHolds
<1>3. Named(V, i, U, r)
  <2>1. S \in Node
    BY DEF Holds
  <2>2. /\ U.client = S.client /\ U.op = "none" /\ U.recs = S.recs /\ U.out = S.out
        /\ U.waiting_msg = {} /\ U.waiting_msgs = S.waiting_msgs
    BY <2>1 DEF EntityLoaded, UpdateByLoadFromPlog, Node
  <2> HIDE DEF U
  <2>3. Counts(i, U, r) = Counts(i, S, r) /\ \A x \in Held(U) : x \in Held(S)
    BY <2>2 DEF Counts, Held
  <2> QED
    BY <2>2, <2>3, MoveNamed
<1> HIDE DEF U
<1>4. S.waiting_msg # {} => m \in PaxosCmd /\ MsgOK(i, m) /\ Bears(V, m)
  BY NodeFields DEF Holds, Local, Parked, Waiting, Named, Held
<1> HIDE DEF m
<1>5. Holds(i, G, r, TRUE) /\ Named(V, i, G, r) /\ G.loaded /\ G.op # "load"
  <2>1. CASE S.waiting_msg = {}
    BY <1>2, <1>3, <2>1
  <2>2. CASE S.waiting_msg # {}
    <3> DEFINE N == HandleLoadedPaxosCmd(i, U, m, r, TRUE, cu)
    <3>1. Holds(i, N, r, TRUE) /\ Steady(U, N)
      BY <1>2, <1>4, <2>2, HandleLoadedHolds
    <3>2. Named(V, i, N, r)
      BY <1>2, <1>3, <1>4, <2>2, HandleLoadedNamed
    <3>3. G = N
      BY <2>2
    <3> HIDE DEF N, G
    <3> QED
      BY <1>2, <3>1, <3>2, <3>3 DEF Steady
  <2> QED
    BY <2>1, <2>2
<1> HIDE DEF G
<1>6. Holds(i, FinishErr(G), r, TRUE) /\ G \in Node
  BY <1>5, FinishHolds DEF Holds
<1>7. G.client.kind # "none" => NamedFrom(V, i, DispatchClientCmd(i, G, TRUE, cu), r)
  BY <1>5, <1>6, DispatchNamed
<1> QED
  BY <1>1, <1>5, <1>7, NamedNow

LEMMA DestroyNamed ==
    ASSUME NEW V, NEW i, NEW S \in Node, NEW r, S.op = "none", Named(V, i, S, r)
    PROVE  Named(V, i, DestroyEntryInfo(S), r)
<1> DEFINE T == DestroyEntryInfo(S)
<1>1. /\ T.client = S.client /\ T.recs = NewMachine /\ T.op = "none" /\ T.out = S.out
      /\ T.waiting_msg = S.waiting_msg /\ T.waiting_msgs = NoWaiting
  BY DEF DestroyEntryInfo, Node
<1> HIDE DEF T
<1>2. Counts(i, T, r) = Counts(i, S, r) /\ \A m \in Held(T) : m \in Held(S)
  BY <1>1 DEF Counts, Held, NoWaiting
<1>3. Named(V, i, T, r)
  BY <1>1, <1>2, MoveNamed
<1> QED
  BY <1>3 DEF T

LEMMA AbsentNamed ==
    ASSUME NEW V, NEW i \in Acceptors, NEW r, Carries(V, r), Open(V, i, r)
    PROVE  LET A == EntityAbsent(i)
               T == [A EXCEPT !.loaded = TRUE] IN
           Named(V, i, A, r) /\ Named(V, i, T, r)
<1> DEFINE A == EntityAbsent(i)
           T == [A EXCEPT !.loaded = TRUE]
<1>1. A \in Node
  BY EntityAbsentType
<1>2. /\ A.client = NoCmd /\ A.recs = NewMachine /\ A.op = "none"
      /\ A.out = {} /\ A.waiting_msg = {} /\ A.waiting_msgs = NoWaiting
  BY DEF EntityAbsent
<1> HIDE DEF A
<1>3. /\ T.client = NoCmd /\ T.recs = NewMachine /\ T.op = "none"
      /\ T.out = {} /\ T.waiting_msg = {} /\ T.waiting_msgs = NoWaiting
  BY <1>1, <1>2 DEF Node
<1> HIDE DEF T
<1>4. Held(A) = {} /\ Held(T) = {} /\ Counts(i, A, r) = r /\ Counts(i, T, r) = r
  BY <1>2, <1>3 DEF Held, Counts, NoWaiting
<1>5. Means(V, i, NoCmd) /\ Bearing(V, NewMachine)
  BY DEF Means, NoCmd, Bearing, Carries, NewMachine, EmptyRecord
<1> QED
  BY <1>2, <1>3, <1>4, <1>5 DEF Named, A, T

-----------------------------------------------------------------------------
(* The steps of the system.                                                *)

(* Every record and message has the value of its id, and every value that  *)
(* was answered Ok is the one of a chosen id.                              *)
Registers(V) ==
    /\ \A i \in Acceptors : Named(V, i, node[i], plog[i])
    /\ \A m \in net : Bears(V, m)
    /\ \A v \in acked : \E j \in Acceptors : plog[j].chosen /\ V[plog[j].value_id] = v

(* The inductive invariant.                                                *)
ValueInv == Undamaged => \E V \in Names : Registers(V)

LEMMA LaterNamed ==
    ASSUME NEW V \in Names, NEW W \in Names, NEW i \in Acceptors, Later(V, W, i),
           NEW j \in Acceptors, j # i, NEW S \in Node, NEW r \in Record, Named(V, j, S, r)
    PROVE  Named(W, j, S, r)
<1>1. \A n \in Nat : OwnedBy(n, j) => W[n] = V[n]
  BY OneOwner DEF Later
<1>2. Open(W, j, Counts(j, S, r))
  BY <1>1 DEF Named, Open
<1>3. Means(W, j, S.client)
  <2>1. S.client.value_id \in Nat
    BY NodeFields DEF ClientCmd
  <2> QED
    BY <1>1, <2>1 DEF Named, Means
<1>4. Carries(W, r) /\ Bearing(W, S.recs) /\ \A m \in Held(S) : Bears(W, m)
  BY LaterCarries, HeldType, NodeFields DEF Named
<1> QED
  BY <1>2, <1>3, <1>4 DEF Named

(* Replica i goes to S, and W names the values afterwards.                 *)
LEMMA GoNamed ==
    ASSUME TypeInv, NEW V \in Names, Registers(V), NEW W \in Names, NEW i \in Acceptors,
           Later(V, W, i), NEW S \in Node, NEW N0, Go(i, S, N0), N0 \subseteq net,
           \A j \in Acceptors : j # i \/ plog[j].chosen => plog'[j] = plog[j],
           Named(W, i, S, plog'[i]),
           \A v \in acked' : v \in acked \/ (plog'[i].chosen /\ W[plog'[i].value_id] = v)
    PROVE  ValueInv'
<1> DEFINE T == [S EXCEPT !.out = {}, !.done = NoCmd]
<1>1. /\ T.client = S.client /\ T.op = S.op /\ T.recs = S.recs /\ T.out = {}
      /\ T.waiting_msg = S.waiting_msg /\ T.waiting_msgs = S.waiting_msgs
  BY DEF Node
<1>2. node' = [node EXCEPT ![i] = T] /\ net' = N0 \cup S.out
  BY DEF Go
<1>3. /\ node \in [Acceptors -> Node] /\ plog \in [Acceptors -> Record]
      /\ net \subseteq PaxosCmd /\ acked \subseteq Values
  BY DEF TypeInv, TypeOK
<1>4. node'[i] = T /\ \A j \in Acceptors : j # i => node'[j] = node[j]
  BY <1>2, <1>3
<1> HIDE DEF T
<1>5. Named(W, i, T, plog'[i])
  <2>1. Counts(i, T, plog'[i]) = Counts(i, S, plog'[i]) /\ \A m \in Held(T) : m \in Held(S)
    BY <1>1 DEF Counts, Held
  <2> QED
    BY <1>1, <2>1, MoveNamed
<1>6. ASSUME NEW j \in Acceptors, j # i PROVE Named(W, j, node'[j], plog'[j])
  <2>1. Named(W, j, node[j], plog[j])
    BY <1>3, <1>6, LaterNamed DEF Registers
  <2> QED
    BY <1>4, <1>6, <2>1
<1>7. \A m \in net' : Bears(W, m)
  BY <1>2, <1>3, LaterCarries DEF Registers, Named, Held
<1>8. ASSUME NEW v \in acked'
      PROVE  \E j \in Acceptors : plog'[j].chosen /\ W[plog'[j].value_id] = v
  <2>1. CASE v \in acked
    <3>1. PICK j \in Acceptors : plog[j].chosen /\ V[plog[j].value_id] = v
      BY <2>1 DEF Registers
    <3>2. plog[j].value_id \in Nat /\ v # NoValue
      BY <1>3, <2>1, NoValueAssumption DEF Record
    <3>3. W[plog[j].value_id] = v
      BY <3>1, <3>2 DEF Later
    <3> QED
      BY <3>1, <3>3
  <2> QED
    BY <1>8, <2>1
<1>9. \A j \in Acceptors : Named(W, j, node'[j], plog'[j])
  BY <1>4, <1>5, <1>6
<1>10. Registers(W)'
  BY <1>7, <1>8, <1>9 DEF Registers
<1> QED
  BY <1>10 DEF ValueInv

(* Nothing is answered and no plog changes.                                *)
LEMMA GoNamedFrom ==
    ASSUME TypeInv, NEW V \in Names, Registers(V), plog' = plog, acked' = acked,
           NEW i \in Acceptors, NEW S \in Node, NEW N0, Go(i, S, N0), N0 \subseteq net,
           NamedFrom(V, i, S, plog[i])
    PROVE  ValueInv'
<1>1. PICK W \in Names : Later(V, W, i) /\ Named(W, i, S, plog[i])
  BY DEF NamedFrom
<1> QED
  BY <1>1, GoNamed

LEMMA ClientNamed ==
    ASSUME TypeInv, DurableInv, ValueInv, Undamaged, NoFault', NEW i \in Acceptors,
           NEW cmd \in ClientCmd, cmd.kind # "none", cmd.value_id = 0, Idle(i),
           NEW pushed \in BOOLEAN, NEW cu, PlogQueue(pushed), evictions' = evictions,
           plog' = plog, acked' = acked,
           Go(i, HandleClientCmd(i, node[i], cmd, pushed, cu), net)
    PROVE  ValueInv'
<1>1. NoFault /\ pushed = TRUE
  BY QueueFault
<1>2. Holds(i, node[i], plog[i], TRUE) /\ Settled(node[i]) /\ plog[i] \in Record
  BY <1>1, NodeHolds
<1>3. PICK V \in Names : Registers(V)
  BY DEF ValueInv
<1> DEFINE N == HandleClientCmd(i, node[i], cmd, TRUE, cu)
<1>4. N \in Node
  BY <1>2, HandleClientCmdHolds DEF Idle, Holds
<1>5. NamedFrom(V, i, N, plog[i])
  BY <1>2, <1>3, HandleClientCmdNamed DEF Registers
<1>6. Go(i, N, net)
  BY <1>1
<1> HIDE DEF N
<1> QED
  BY <1>3, <1>4, <1>5, <1>6, GoNamedFrom

LEMMA WriteNamed ==
    ASSUME TypeInv, DurableInv, FreshInv, ValueInv, Undamaged, NoFault', NEW i \in Acceptors,
           NEW v \in Values, ClientWrite(i, v)
    PROVE  ValueInv'
<1> DEFINE cmd == [NoCmd EXCEPT !.kind = "write", !.value = v]
<1>1. cmd \in ClientCmd /\ cmd.kind = "write" /\ cmd.value_id = 0
  BY DEF NoCmd, ClientCmd
<1>2. PICK pushed \in BOOLEAN, cu \in CatchupChoices :
        PlogQueue(pushed) /\ Go(i, HandleClientCmd(i, node[i], cmd, pushed, cu), net)
  BY DEF ClientWrite
<1>3. evictions' = evictions /\ Idle(i) /\ plog' = plog
  BY DEF ClientWrite
<1>4. acked' = acked
  BY WriteFresh
<1> HIDE DEF cmd
<1> QED
  BY <1>1, <1>2, <1>3, <1>4, ClientNamed

LEMMA ReadNamed ==
    ASSUME TypeInv, DurableInv, FreshInv, ValueInv, Undamaged, NoFault', NEW i \in Acceptors,
           ClientRead(i)
    PROVE  ValueInv'
<1> DEFINE late == acked # {}
           cmd == [NoCmd EXCEPT !.kind = "read", !.uuid = reads + 1, !.stale = late]
<1>1. reads + 1 \in Nat /\ late \in BOOLEAN
  BY BoundsAssumption DEF TypeInv, TypeOK
<1>2. PICK pushed \in BOOLEAN, cu \in CatchupChoices :
        PlogQueue(pushed) /\ Go(i, HandleClientCmd(i, node[i], cmd, pushed, cu), net)
  BY DEF ClientRead
<1> HIDE DEF late
<1>3. cmd \in ClientCmd /\ cmd.kind = "read"
  BY <1>1 DEF NoCmd, ClientCmd
<1>4. cmd.value_id = 0
  BY DEF NoCmd
<1>5. evictions' = evictions /\ Idle(i) /\ plog' = plog
  BY DEF ClientRead
<1>6. acked' = acked
  BY ReadFresh
<1> HIDE DEF cmd
<1> QED
  BY <1>2, <1>3, <1>4, <1>5, <1>6, ClientNamed

LEMMA ReceiveNamed ==
    ASSUME TypeInv, DurableInv, FreshInv, ValueInv, Undamaged, NoFault', NEW m \in net,
           ReceivePaxosCmd(m)
    PROVE  ValueInv'
<1> DEFINE i == m.to
           N0 == IF Duplicates THEN net ELSE net \ {m}
<1>1. i \in Acceptors /\ m \in PaxosCmd /\ MsgOK(i, m) /\ N0 \subseteq net
  BY DEF DurableInv, TypeInv, TypeOK, PaxosCmd
<1> HIDE DEF N0
<1>2. PICK pushed \in BOOLEAN, cu \in CatchupChoicesAt(i, m.max_chosen) :
        PlogQueue(pushed) /\ Go(i, HandlePaxosCmd(i, node[i], m, plog[i], pushed, cu), N0)
  BY DEF ReceivePaxosCmd, N0
<1>3. evictions' = evictions /\ Idle(i) /\ plog' = plog
  BY DEF ReceivePaxosCmd
<1>4. acked' = acked
  BY ReceiveFresh
<1> HIDE DEF i
<1>5. NoFault /\ pushed = TRUE
  BY <1>2, <1>3, QueueFault
<1>6. Holds(i, node[i], plog[i], TRUE) /\ Settled(node[i]) /\ plog[i] \in Record
  BY <1>1, <1>5, NodeHolds
<1>7. PICK V \in Names : Registers(V)
  BY DEF ValueInv
<1> DEFINE N == HandlePaxosCmd(i, node[i], m, plog[i], TRUE, cu)
<1>8. N \in Node
  BY <1>1, <1>3, <1>6, HandlePaxosCmdHolds DEF Idle, Holds
<1>9. Named(V, i, N, plog[i])
  BY <1>1, <1>6, <1>7, HandlePaxosCmdNamed DEF Registers
<1>10. Go(i, N, N0)
  BY <1>2, <1>5
<1> HIDE DEF N
<1> QED
  BY <1>1, <1>3, <1>4, <1>7, <1>8, <1>9, <1>10, NamedNow, GoNamedFrom

LEMMA GetNamed ==
    ASSUME TypeInv, DurableInv, FreshInv, ValueInv, Undamaged, NoFault', NEW i \in Acceptors,
           PlogGetRecord(i)
    PROVE  ValueInv'
<1>1. PICK success \in BOOLEAN, pushed \in BOOLEAN, cu \in CatchupChoices :
        /\ PlogResult(success /\ pushed)
        /\ Go(i, HandleGetFromPlog(i, node[i], plog[i], success, pushed, cu), net)
  BY DEF PlogGetRecord
<1>2. evictions' = evictions /\ node[i].op = "get" /\ plog' = plog
  BY DEF PlogGetRecord
<1>3. NoFault /\ success = TRUE
  BY <1>1, <1>2, QueueFault DEF PlogResult
<1>4. Holds(i, node[i], plog[i], TRUE) /\ Settled(node[i]) /\ plog[i] \in Record
  BY <1>3, NodeHolds
<1>5. acked' = acked
  BY GetFresh
<1>6. PICK V \in Names : Registers(V)
  BY DEF ValueInv
<1> DEFINE N == HandleGetFromPlog(i, node[i], plog[i], TRUE, pushed, cu)
<1>7. N \in Node
  BY <1>2, <1>4, HandleGetHolds DEF Holds
<1>8. Named(V, i, N, plog[i])
  BY <1>2, <1>4, <1>6, HandleGetNamed DEF Registers
<1>9. Go(i, N, net)
  BY <1>1, <1>3
<1> HIDE DEF N
<1> QED
  BY <1>2, <1>5, <1>6, <1>7, <1>8, <1>9, NamedNow, GoNamedFrom

LEMMA LoadNamed ==
    ASSUME TypeInv, DurableInv, FreshInv, ValueInv, Undamaged, NoFault', NEW i \in Acceptors,
           PlogLoad(i)
    PROVE  ValueInv'
<1> DEFINE b == i \in db
<1>1. PICK success \in BOOLEAN, pushed \in BOOLEAN, cu \in CatchupChoices :
        /\ PlogResult(success /\ pushed)
        /\ Go(i, IF success
                 THEN HandleLoadFromPlog(i, node[i], plog[i], b, pushed, cu)
                 ELSE EntityAbsent(i), net)
  BY DEF PlogLoad
<1>2. evictions' = evictions /\ node[i].op = "load" /\ plog' = plog
  BY DEF PlogLoad
<1>3. NoFault /\ success = TRUE /\ pushed = TRUE
  BY <1>1, <1>2, QueueFault DEF PlogResult
<1>4. b \in BOOLEAN /\ (b => plog[i].chosen)
  <2>1. b => plog[i].chosen
    BY <1>3 DEF DurableInv
  <2> QED
    BY <2>1
<1> HIDE DEF b
<1>5. Holds(i, node[i], plog[i], TRUE) /\ plog[i] \in Record
  BY <1>3, NodeHolds
<1>6. acked' = acked
  BY LoadFresh
<1>7. PICK V \in Names : Registers(V)
  BY DEF ValueInv
<1> DEFINE N == HandleLoadFromPlog(i, node[i], plog[i], b, TRUE, cu)
<1>8. N \in Node
  BY <1>2, <1>4, <1>5, HandleLoadHolds DEF Holds
<1>9. NamedFrom(V, i, N, plog[i])
  BY <1>2, <1>4, <1>5, <1>7, HandleLoadNamed DEF Registers
<1>10. Go(i, N, net)
  BY <1>1, <1>3
<1> HIDE DEF N
<1> QED
  BY <1>2, <1>6, <1>7, <1>8, <1>9, <1>10, GoNamedFrom

LEMMA DrainNamed ==
    ASSUME TypeInv, DurableInv, FreshInv, ValueInv, Undamaged, NoFault', NEW i \in Acceptors,
           DrainWaitingMsg(i)
    PROVE  ValueInv'
<1>1. PICK pushed \in BOOLEAN, cu \in CatchupChoices :
        PlogQueue(pushed) /\ Go(i, HandleWaitingMsg(i, node[i], plog[i], pushed, cu), net)
  BY DEF DrainWaitingMsg
<1>2. evictions' = evictions /\ node[i].drain # "no" /\ node[i].waiting_msgs # NoWaiting
  BY DEF DrainWaitingMsg, Idle, TypeInv, DrainInv, Draining
<1>3. plog' = plog /\ acked' = acked
  BY DrainFresh DEF DrainWaitingMsg
<1>4. NoFault /\ pushed = TRUE
  BY <1>1, <1>2, QueueFault
<1>5. Holds(i, node[i], plog[i], TRUE) /\ Settled(node[i]) /\ plog[i] \in Record
  BY <1>4, NodeHolds
<1>6. PICK V \in Names : Registers(V)
  BY DEF ValueInv
<1> DEFINE N == HandleWaitingMsg(i, node[i], plog[i], TRUE, cu)
<1>7. N \in Node
  BY <1>2, <1>5, HandleWaitingMsgHolds DEF Holds
<1>8. Named(V, i, N, plog[i])
  BY <1>2, <1>5, <1>6, HandleWaitingMsgNamed DEF Registers
<1>9. Go(i, N, net)
  BY <1>1, <1>4
<1> HIDE DEF N
<1> QED
  BY <1>3, <1>6, <1>7, <1>8, <1>9, NamedNow, GoNamedFrom

LEMMA CatchupNamed ==
    ASSUME TypeInv, DurableInv, FreshInv, ValueInv, Undamaged, NoFault', NEW i \in Acceptors,
           IterateAndCatchup(i)
    PROVE  ValueInv'
<1>1. PICK pushed \in BOOLEAN, cu \in CatchupChoices :
        PlogQueue(pushed) /\ Go(i, TryCatchup(i, node[i], pushed, cu), net)
  BY DEF IterateAndCatchup
<1>2. evictions' = evictions /\ node[i].loaded /\ plog' = plog
  BY DEF IterateAndCatchup
<1>3. node[i].max_cont # node[i].max_chosen /\ acked' = acked
  BY CatchupFresh DEF IterateAndCatchup
<1>4. NoFault
  BY <1>1, <1>2, QueueFault
<1>5. Holds(i, node[i], plog[i], TRUE) /\ plog[i] \in Record
  BY <1>4, NodeHolds
<1>6. node[i].op # "load"
  BY <1>3, <1>5 DEF Holds, Local, Shape
<1>7. PICK V \in Names : Registers(V)
  BY DEF ValueInv
<1> DEFINE N == TryCatchup(i, node[i], pushed, cu)
<1>8. N \in Node
  BY <1>2, <1>5, <1>6, TryCatchupHolds DEF Holds
<1>9. Named(V, i, N, plog[i])
  BY <1>2, <1>5, <1>6, <1>7, TryCatchupNamed DEF Registers
<1>10. Go(i, N, net)
  BY <1>1
<1> HIDE DEF N
<1> QED
  BY <1>2, <1>3, <1>7, <1>8, <1>9, <1>10, NamedNow, GoNamedFrom

LEMMA CleanupNamed ==
    ASSUME TypeInv, DurableInv, FreshInv, ValueInv, Undamaged, NEW i \in Acceptors,
           CleanupExpiredChosenEntry(i)
    PROVE  ValueInv'
<1>1. /\ node[i].mem /\ node[i].old /\ plog' = plog
      /\ Go(i, DestroyEntryInfo(Check(node[i], ~uncertain(node[i]))), net)
  BY DEF CleanupExpiredChosenEntry
<1>2. Holds(i, node[i], plog[i], FALSE) /\ node[i] \in Node
  BY NodeHolds
<1>3. node[i].op = "none"
  BY <1>1, <1>2, EntryNumbers DEF Holds, Local, Shape, Node
<1>4. Check(node[i], ~uncertain(node[i])) = node[i]
  BY <1>2, <1>3, CheckTrue DEF uncertain, Holds, Local
<1>5. acked' = acked
  BY CleanupFresh
<1>6. PICK V \in Names : Registers(V)
  BY DEF ValueInv
<1> DEFINE N == DestroyEntryInfo(node[i])
<1>7. N \in Node /\ Go(i, N, net)
  BY <1>1, <1>2, <1>4, DestroyType DEF GoodNode
<1>8. Named(V, i, N, plog[i])
  BY <1>2, <1>3, <1>6, DestroyNamed DEF Registers
<1> HIDE DEF N
<1> QED
  BY <1>1, <1>5, <1>6, <1>7, <1>8, NamedNow, GoNamedFrom

LEMMA CrashNamed ==
    ASSUME TypeInv, DurableInv, FreshInv, ValueInv, Undamaged, Undamaged',
           NEW i \in Acceptors, Crash(i)
    PROVE  ValueInv'
<1>1. /\ Go(i, EntityAbsent(i), net) /\ crashes' = crashes + 1
      /\ (CleanStops => node[i].op # "set")
  BY DEF Crash
<1>2. CleanStops /\ node[i].op # "set"
  BY <1>1, BoundsAssumption DEF Undamaged, TypeInv, TypeOK
<1>3. plog' = plog
  BY <1>2 DEF Crash
<1>4. acked' = acked
  BY CrashFresh
<1>5. PICK V \in Names : Registers(V)
  BY DEF ValueInv
<1>6. Carries(V, plog[i]) /\ Open(V, i, plog[i])
  BY <1>2, <1>5 DEF Registers, Named, Counts
<1>7. Named(V, i, EntityAbsent(i), plog[i]) /\ EntityAbsent(i) \in Node
  BY <1>6, AbsentNamed, EntityAbsentType
<1> QED
  BY <1>1, <1>3, <1>4, <1>5, <1>7, NamedNow, GoNamedFrom

LEMMA SetNamed ==
    ASSUME TypeInv, DurableInv, FreshInv, ValueInv, Undamaged, NoFault',
           NEW i \in Acceptors, PlogSetRecord(i)
    PROVE  ValueInv'
<1> DEFINE S == node[i]
           x == S.recs[i]
           N == HandleSetFromPlog(i, S, TRUE)
<1>1. PICK success \in BOOLEAN, written \in BOOLEAN :
        /\ PlogResult(success) /\ (success => written)
        /\ plog' = IF written THEN [plog EXCEPT ![i] = x] ELSE plog
        /\ Go(i, HandleSetFromPlog(i, S, success), net)
  BY DEF PlogSetRecord
<1>2. evictions' = evictions /\ S.op = "set"
  BY DEF PlogSetRecord
<1>3. NoFault /\ success = TRUE
  BY <1>1, <1>2, QueueFault DEF PlogResult
<1>4. /\ \A j \in Acceptors : j # i => plog'[j] = plog[j]
      /\ plog'[i] = x /\ x \in Record
  BY <1>1, <1>2, <1>3, WrittenPlog
<1>5. Holds(i, S, plog[i], TRUE) /\ Settled(S) /\ S.out = {} /\ plog[i] \in Record
  BY <1>3, NodeHolds DEF TypeInv, TypeOK
<1>6. PICK V \in Names : Registers(V)
  BY DEF ValueInv
<1>7. plog[i].chosen => plog'[i] = plog[i]
  BY <1>2, <1>4, <1>5 DEF Holds, Local, Intact, Advance
<1>8. N \in Node
  BY <1>2, <1>4, <1>5, HandleSetHolds DEF Holds
<1>9. Named(V, i, N, x) /\ (N.done.kind = "write" => x.chosen /\ V[x.value_id] = N.done.value)
  <2>1. Named(V, i, S, plog[i]) /\ S.done = NoCmd
    BY <1>6 DEF Registers, FreshInv
  <2>2. PICK s \in Record : s = plog[i]
    BY <1>5
  <2>3. Holds(i, S, s, TRUE) /\ Named(V, i, S, s) /\ S.op = "set" /\ S.done = NoCmd
    BY <1>2, <1>5, <2>1, <2>2
  <2>4. Named(V, i, HandleSetFromPlog(i, S, TRUE), S.recs[i])
    <3> HIDE DEF S
    <3> QED BY <2>3, HandleSetNamed
  <2>5. HandleSetFromPlog(i, S, TRUE).done.kind = "write" =>
            S.recs[i].chosen /\ V[S.recs[i].value_id] = HandleSetFromPlog(i, S, TRUE).done.value
    <3> HIDE DEF S
    <3> QED BY <2>3, HandleSetNamed
  <2> QED
    BY <2>4, <2>5
<1>10. Go(i, N, net) /\ Later(V, V, i)
  BY <1>1, <1>3 DEF Later
<1> HIDE DEF N, S, x
<1>11. \A v \in acked' : v \in acked \/ (plog'[i].chosen /\ V[plog'[i].value_id] = v)
  BY <1>4, <1>9, <1>10 DEF Go
<1>12. \A j \in Acceptors : j # i \/ plog[j].chosen => plog'[j] = plog[j]
  BY <1>4, <1>7
<1> QED
  BY <1>4, <1>6, <1>8, <1>9, <1>10, <1>11, <1>12, GoNamed

LEMMA StepNamed ==
    ASSUME TypeInv, DurableInv, FreshInv, ValueInv, [Next]_vars
    PROVE  ValueInv'
<1> SUFFICES ASSUME Undamaged' PROVE ValueInv'
  BY DEF ValueInv
<1>0. Undamaged /\ NoFault'
  BY DamageStays
<1>1. ASSUME NEW i \in Writers, NEW v \in Values, ClientWrite(i, v) PROVE ValueInv'
  BY <1>0, <1>1, WriteNamed, BoundsAssumption
<1>2. ASSUME NEW i \in Readers, ClientRead(i) PROVE ValueInv'
  BY <1>0, <1>2, ReadNamed, BoundsAssumption
<1>3. ASSUME NEW m \in net, ReceivePaxosCmd(m) PROVE ValueInv'
  BY <1>0, <1>3, ReceiveNamed
<1>4. ASSUME NEW m \in net, LoseMessage(m) PROVE ValueInv'
  <2>1. UNCHANGED <<node, plog, acked>> /\ net' \subseteq net
    BY <1>4 DEF LoseMessage
  <2> QED
    BY <1>0, <2>1 DEF ValueInv, Registers
<1>5. ASSUME NEW i \in Acceptors, ClientTimeout(i) PROVE ValueInv'
  <2>1. Go(i, FinishErr(node[i]), net) /\ plog' = plog
    BY <1>5 DEF ClientTimeout
  <2>2. node[i] \in Node /\ FinishErr(node[i]) \in Node
    BY FinishType DEF TypeInv, TypeOK, GoodNode
  <2>3. PICK V \in Names : Registers(V)
    BY <1>0 DEF ValueInv
  <2>4. Named(V, i, FinishErr(node[i]), plog[i])
    BY <2>2, <2>3, FieldsNamed DEF Registers
  <2>5. acked' = acked
    <3>1. FinishErr(node[i]).done = node[i].done /\ node[i].done = NoCmd
      BY <1>0, <2>2 DEF FinishErr, Node, FreshInv
    <3> QED
      BY <2>1, <3>1 DEF Go, NoCmd
  <2> QED
    BY <2>1, <2>2, <2>3, <2>4, <2>5, NamedNow, GoNamedFrom
<1>6. ASSUME NEW i \in Acceptors, PlogSetRecord(i) PROVE ValueInv'
  BY <1>0, <1>6, SetNamed
<1>7. ASSUME NEW i \in Acceptors, PlogGetRecord(i) PROVE ValueInv'
  BY <1>0, <1>7, GetNamed
<1>8. ASSUME NEW i \in Acceptors, PlogLoad(i) PROVE ValueInv'
  BY <1>0, <1>8, LoadNamed
<1>9. ASSUME NEW i \in Acceptors, DrainWaitingMsg(i) PROVE ValueInv'
  BY <1>0, <1>9, DrainNamed
<1>10. ASSUME NEW i \in Acceptors, IterateAndCatchup(i) PROVE ValueInv'
  BY <1>0, <1>10, CatchupNamed
<1>11. ASSUME NEW i \in Acceptors, CleanupExpiredChosenEntry(i) PROVE ValueInv'
  BY <1>0, <1>11, CleanupNamed
<1>12. ASSUME NEW i \in Acceptors, MakeEnoughRoom(i) PROVE ValueInv'
  <2>1. evictions' = evictions + 1 /\ plogErrors' = plogErrors
    BY <1>12 DEF MakeEnoughRoom
  <2> QED
    BY <1>0, <2>1, BoundsAssumption DEF NoFault, TypeInv, TypeOK
<1>13. ASSUME NEW i \in Acceptors, Crash(i) PROVE ValueInv'
  BY <1>0, <1>13, CrashNamed
<1>14. ASSUME UNCHANGED vars PROVE ValueInv'
  BY <1>0, <1>14 DEF vars, ValueInv, Registers
<1> QED
  BY <1>1, <1>2, <1>3, <1>4, <1>5, <1>6, <1>7, <1>8, <1>9, <1>10, <1>11, <1>12,
     <1>13, <1>14 DEF Next

LEMMA InitNamed == Init => ValueInv
<1> SUFFICES ASSUME Init PROVE ValueInv
  OBVIOUS
<1> DEFINE V == [n \in Nat |-> NoValue]
<1>1. V \in Names /\ \A n \in Nat : V[n] = NoValue
  BY DEF Names
<1> HIDE DEF V
<1>2. ASSUME NEW i \in Acceptors PROVE Named(V, i, node[i], plog[i])
  <2>1. node[i] = [EntityAbsent(i) EXCEPT !.loaded = TRUE] /\ plog[i] = EmptyRecord
    BY DEF Init
  <2>2. Carries(V, EmptyRecord) /\ Open(V, i, EmptyRecord)
    BY <1>1 DEF Carries, Open, EmptyRecord
  <2> QED
    BY <2>1, <2>2, AbsentNamed
<1>3. Registers(V)
  BY <1>2 DEF Init, Registers
<1> QED
  BY <1>1, <1>3 DEF ValueInv

(* The id that is chosen has one value.                                    *)
LEMMA OneValueNow ==
    ASSUME TypeInv, DurableInv, AgreementInv, ValueInv
    PROVE  OneWriteWins
<1> SUFFICES ASSUME Undamaged
             PROVE  \E v \in Values \cup {NoValue} :
                      acked \cup {r.value : r \in UNION {ChosenAt(i) : i \in Acceptors}}
                          \subseteq {v, NoValue}
  BY DEF OneWriteWins
<1>1. PICK V \in Names : Registers(V)
  BY DEF ValueInv
<1> DEFINE K == UNION {ChosenAt(i) : i \in Acceptors}
<1>2. ASSUME NEW r \in K PROVE r \in Record /\ Carries(V, r)
  <2>1. PICK i \in Acceptors : r = node[i].recs[i] \/ r = plog[i]
    BY DEF ChosenAt
  <2>2. node[i] \in Node /\ plog[i] \in Record
    BY DEF TypeInv, TypeOK
  <2> QED
    BY <1>1, <2>1, <2>2, NodeFields DEF Registers, Named, Bearing
<1>3. \A r, s \in K : r.value_id = s.value_id
  BY OneIdNow DEF ChosenIdsAgree
<1>4. \A v \in acked : \E s \in K : V[s.value_id] = v
  BY <1>1 DEF Registers, ChosenAt
<1> HIDE DEF K
<1>5. CASE K = {}
  BY <1>4, <1>5 DEF K
<1>6. CASE K # {}
  <2>1. PICK s \in K : TRUE
    BY <1>6
  <2> DEFINE v == V[s.value_id]
  <2>2. v \in Values \cup {NoValue}
    BY <1>2, <2>1 DEF Names, Record
  <2>3. \A r \in K : r.value \in {v, NoValue}
    BY <1>2, <1>3, <2>1 DEF Carries
  <2>4. \A w \in acked : w = v
    BY <1>3, <1>4, <2>1
  <2> HIDE DEF v
  <2>5. acked \cup {r.value : r \in K} \subseteq {v, NoValue}
    BY <2>3, <2>4
  <2> QED
    BY <2>2, <2>5 DEF K
<1> QED
  BY <1>5, <1>6

(* With any number of replicas: as long as no entry is evicted, no plog    *)
(* operation fails and no process is stopped with a plog write open, at    *)
(* most one of the values that the clients write is ever answered          *)
(* kRetCodeOk or is the value of a record that some replica takes for      *)
(* chosen, whatever clients time out, messages are restored without their  *)
(* value and processes restart.                                            *)
THEOREM OneWrite == Spec => []OneWriteWins
<1>1. TypeInv /\ DurableInv /\ AgreementInv /\ FreshInv /\ ValueInv /\ [Next]_vars => ValueInv'
  BY StepNamed
<1>2. TypeInv /\ DurableInv /\ AgreementInv /\ ValueInv => OneWriteWins
  BY OneValueNow
<1> QED
  BY InitNamed, <1>1, <1>2, Agreed, FreshNow, PTL DEF Spec
=============================================================================
