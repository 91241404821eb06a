------------------------- MODULE CertainEntryProofs -------------------------
(***************************************************************************)
(* Theorems about CertainEntry, for every number of replicas, set of       *)
(* values and bound of the faults.                                         *)
(***************************************************************************)
EXTENDS CertainEntry, EntryStateProofs

(* What a handler called with state S and with "drain" unchanged returns.  *)
GoodNode(S, T) == T \in Node /\ T.drain = S.drain

-----------------------------------------------------------------------------
(* Messages.                                                               *)

LEMMA NodeFields ==
    ASSUME NEW S \in Node
    PROVE  /\ S.recs \in Machine /\ S.client \in ClientCmd
           /\ S.out \subseteq PaxosCmd /\ S.done \in ClientCmd
           /\ S.max_chosen \in 0 .. Entry /\ S.active_peer \in Acceptors
           /\ S.waiting_msgs \in [Acceptors -> Waiting] /\ S.waiting_msg \in Waiting
           /\ S.peer_to_sync \in Acceptors \cup {NoPeer}
           /\ \A a \in Acceptors : S.recs[a] \in Record
BY DEF Node, Machine

LEMMA RemoveValueType ==
    ASSUME NEW m \in PaxosCmd
    PROVE  RemoveValueInRecord(m) \in PaxosCmd
<1> DEFINE bare(r) == [r EXCEPT !.value = NoValue, !.id_only = TRUE]
<1>1. m.local \in Record /\ m.peer \in Record
  BY DEF PaxosCmd
<1>2. bare(m.local) \in Record /\ bare(m.peer) \in Record
  BY <1>1 DEF Record
<1> QED
  BY <1>1, <1>2 DEF RemoveValueInRecord, PaxosCmd

LEMMA SendBackType ==
    ASSUME NEW m \in PaxosCmd
    PROVE  SendBack(m) \in PaxosCmd
BY DEF SendBack, PaxosCmd

LEMMA SyncMsgType ==
    ASSUME NEW i \in Acceptors, NEW p \in Acceptors, NEW S \in Node
    PROVE  SyncMsg(i, S, p) \in PaxosCmd
BY NodeFields DEF SyncMsg, PaxosCmd

LEMMA NoCmdType == NoCmd \in ClientCmd
BY DEF NoCmd, ClientCmd

LEMMA EntityAbsentType ==
    ASSUME NEW i \in Acceptors
    PROVE  EntityAbsent(i) \in Node /\ EntityAbsent(i).drain = "no"
<1>1. (i + 1) % AcceptorNum \in Acceptors
  BY AcceptorNumAssumption DEF Acceptors
<1>2. NoWaiting \in [Acceptors -> Waiting] /\ {} \in Waiting
  BY DEF NoWaiting, Waiting
<1>3. /\ (IF i = 0 THEN 0 ELSE NoEntry) \in NoEntry .. Entry
      /\ 0 \in 0 .. Entry
  BY DEF NoEntry, Entry
<1> QED
  BY <1>1, <1>2, <1>3, EmptyRecordType, NoCmdType DEF EntityAbsent, Node

LEMMA FinishType ==
    ASSUME NEW S \in Node
    PROVE  GoodNode(S, FinishOk(S)) /\ GoodNode(S, FinishErr(S))
BY NoCmdType, NodeFields DEF FinishOk, FinishErr, GoodNode, Node

LEMMA CheckType ==
    ASSUME NEW S \in Node, NEW b \in BOOLEAN
    PROVE  GoodNode(S, Check(S, b))
BY DEF Check, GoodNode, Node

LEMMA DestroyType ==
    ASSUME NEW S \in Node
    PROVE  GoodNode(S, DestroyEntryInfo(S)) /\ GoodNode(S, ClearEntryInfo(S))
<1>1. NoWaiting \in [Acceptors -> Waiting]
  BY DEF NoWaiting, Waiting
<1>2. ASSUME NEW T \in Node PROVE GoodNode(T, DestroyEntryInfo(T))
  BY <1>1, EmptyRecordType DEF DestroyEntryInfo, GoodNode, Node
<1>3. FinishErr(S) \in Node /\ FinishErr(S).drain = S.drain
  BY FinishType DEF GoodNode
<1> QED
  BY <1>2, <1>3 DEF ClearEntryInfo, GoodNode

LEMMA StoreType ==
    ASSUME NEW S \in Node
    PROVE  GoodNode(S, StoreEntryInfo(S))
<1>1. Check(S, ~uncertain(S)) \in Node /\ Check(S, ~uncertain(S)).drain = S.drain
  BY CheckType DEF GoodNode
<1> QED
  BY <1>1 DEF StoreEntryInfo, GoodNode, Node

LEMMA CreateType ==
    ASSUME NEW S \in Node, NEW pushed \in BOOLEAN
    PROVE  GoodNode(S, CreateEntryInfoIfMiss(S, pushed))
<1> DEFINE op == IF S.max_plog < Entry THEN S.op ELSE "get"
           T == [S EXCEPT !.mem = TRUE, !.op = op]
<1>1. op \in {"none", "load", "get", "set"}
  BY DEF Node
<1> HIDE DEF op
<1>2. T \in Node /\ T.drain = S.drain
  BY <1>1 DEF Node
<1>3. CreateEntryInfoIfMiss(S, pushed) =
          IF S.mem \/ (S.max_plog >= Entry /\ ~pushed) THEN S ELSE T
  BY DEF CreateEntryInfoIfMiss, op
<1> QED
  BY <1>2, <1>3 DEF GoodNode

-----------------------------------------------------------------------------
(* Sending.                                                                *)

LEMMA SendType ==
    ASSUME NEW S \in Node, NEW m \in PaxosCmd
    PROVE  GoodNode(S, Send(S, m))
BY RemoveValueType DEF Send, GoodNode, Node

LEMMA SyncToPeersType ==
    ASSUME NEW i \in Acceptors, NEW S \in Node, NEW P \in SUBSET Acceptors
    PROVE  GoodNode(S, SyncToPeers(i, S, P))
<1>1. \A p \in P : RemoveValueInRecord(SyncMsg(i, S, p)) \in PaxosCmd
  BY RemoveValueType, SyncMsgType
<1> QED
  BY <1>1 DEF SyncToPeers, GoodNode, Node

LEMMA BroadcastTypes ==
    ASSUME NEW i \in Acceptors, NEW S \in Node
    PROVE  /\ GoodNode(S, Broadcast(i, S))
           /\ GoodNode(S, BroadcastOnAccept(i, S))
           /\ GoodNode(S, BroadcastOnChosen(i, S))
BY SyncToPeersType DEF Broadcast, BroadcastOnAccept, BroadcastOnChosen, Peers

LEMMA BroadcastCheckEmptyType ==
    ASSUME NEW i \in Acceptors, NEW S \in Node
    PROVE  GoodNode(S, BroadcastCheckEmpty(i, S))
<1> DEFINE msg(p) == [SyncMsg(i, S, p) EXCEPT
                         !.local = EmptyRecord, !.peer = EmptyRecord,
                         !.check_empty = TRUE, !.uuid = S.client.uuid]
<1>1. S.client.uuid \in Nat
  BY NodeFields DEF ClientCmd
<1>2. \A p \in Peers(i) : msg(p) \in PaxosCmd
  <2>1. TAKE p \in Peers(i)
  <2>2. SyncMsg(i, S, p) \in PaxosCmd
    BY SyncMsgType DEF Peers
  <2> QED
    BY <1>1, <2>2, EmptyRecordType DEF PaxosCmd
<1> DEFINE asked == {msg(p) : p \in Peers(i)}
<1>3. asked \subseteq PaxosCmd
  BY <1>2
<1>4. BroadcastCheckEmpty(i, S) = [S EXCEPT !.out = S.out \cup asked]
  BY DEF BroadcastCheckEmpty
<1> HIDE DEF asked
<1> QED
  BY <1>3, <1>4 DEF GoodNode, Node

-----------------------------------------------------------------------------
(* Progress of the entity and client commands.                             *)

LEMMA UpdateByChosenType ==
    ASSUME NEW i \in Acceptors, NEW S \in Node
    PROVE  GoodNode(S, UpdateByChosenEntry(i, S))
<1>1. Entry \in 0 .. Entry /\ Entry \in NoEntry .. Entry
  BY DEF Entry, NoEntry
<1> DEFINE next == S.max_cont + 1 = Entry
           pre_auth == IF HasAcceptedMyProposal(i, S.recs, i)
                       THEN Entry ELSE S.pre_auth
           old == S.old \/ next
           committing == S.committing \/ next
           T == [S EXCEPT !.max_chosen = Entry, !.pre_auth = pre_auth,
                          !.max_cont = Entry, !.old = old,
                          !.committing = committing]
<1>2. pre_auth \in NoEntry .. Entry
  BY <1>1 DEF Node
<1>3. old \in BOOLEAN /\ committing \in BOOLEAN
  OBVIOUS
<1>4. UpdateByChosenEntry(i, S) = IF state(i, S) # "Chosen" THEN S ELSE T
  BY DEF UpdateByChosenEntry
<1> HIDE DEF pre_auth, old, committing
<1>5. T \in Node /\ T.drain = S.drain
  BY <1>1, <1>2, <1>3 DEF Node
<1> QED
  BY <1>4, <1>5 DEF GoodNode

LEMMA TryCatchupType ==
    ASSUME NEW i \in Acceptors, NEW S \in Node, NEW pushed \in BOOLEAN,
           NEW cu \in CatchupChoices
    PROVE  GoodNode(S, TryCatchup(i, S, pushed, cu))
<1> DEFINE T == CreateEntryInfoIfMiss(S, pushed)
<1>1. T \in Node /\ T.drain = S.drain
  BY CreateType DEF GoodNode
<1>2. GoodNode(T, UpdateByChosenEntry(i, T))
  BY <1>1, UpdateByChosenType
<1>3. GoodNode(T, SyncToPeers(i, T, {T.active_peer}))
  BY <1>1, NodeFields, SyncToPeersType
<1> QED
  BY <1>1, <1>2, <1>3 DEF TryCatchup, GoodNode

LEMMA HandleWriteCmdType ==
    ASSUME NEW i \in Acceptors, NEW S \in Node, NEW pushed \in BOOLEAN
    PROVE  GoodNode(S, HandleWriteCmd(i, S, pushed))
<1> DEFINE pre_auth == EnablePreAuth /\ S.pre_auth # NoEntry
                                     /\ S.pre_auth + 1 = Entry
           promised == Promise(i, S.recs, pre_auth)
           P == [S EXCEPT !.recs = promised,
                          !.client = [@ EXCEPT !.value_id = promised[i].promised]]
           accepted == Accept(i, promised, P.client.value, P.client.value_id)
           A == Check([P EXCEPT !.recs = accepted], PreparedValueAccepted(promised))
           Q == IF IsLocalAcceptable(i, promised)
                THEN Check(A, state(i, A) = "AcceptLocal") ELSE P
<1>1. promised \in Machine /\ promised[i] \in Record /\ promised[i].promised \in Nat
  <2>1. pre_auth \in BOOLEAN
    BY BoundsAssumption
  <2> HIDE DEF pre_auth
  <2>2. promised \in Machine
    BY <2>1, NodeFields, PromiseType
  <2> QED
    BY <2>2 DEF Machine, Record
<1> HIDE DEF promised
<1>2. [S.client EXCEPT !.value_id = promised[i].promised] \in ClientCmd
  BY <1>1, NodeFields DEF ClientCmd
<1>3. P \in Node /\ P.drain = S.drain
  BY <1>1, <1>2 DEF Node
<1> HIDE DEF P
<1>4. P.client.value \in Values \cup {NoValue} /\ P.client.value_id \in Nat
  BY <1>3, NodeFields DEF ClientCmd
<1>5. accepted \in Machine
  BY <1>1, <1>4, AcceptType
<1> HIDE DEF accepted
<1>6. [P EXCEPT !.recs = accepted] \in Node /\ [P EXCEPT !.recs = accepted].drain = S.drain
  BY <1>3, <1>5 DEF Node
<1>7. A \in Node /\ A.drain = S.drain
  BY <1>6, CheckType DEF GoodNode, PreparedValueAccepted
<1> HIDE DEF A
<1>8. Q \in Node /\ Q.drain = S.drain
  BY <1>3, <1>7, CheckType DEF GoodNode
<1> HIDE DEF Q
<1>9. GoodNode(P, FinishErr(P)) /\ GoodNode(Q, ClearEntryInfo(Q))
  BY <1>3, <1>8, FinishType, DestroyType
<1>10. GoodNode(Q, [StoreEntryInfo(Q) EXCEPT !.broadcast = TRUE])
  <2>1. StoreEntryInfo(Q) \in Node /\ StoreEntryInfo(Q).drain = Q.drain
    BY <1>8, StoreType DEF GoodNode
  <2> QED
    BY <2>1 DEF GoodNode, Node
<1>11. HandleWriteCmd(i, S, pushed) =
           IF entry_state(i, promised) # "PromiseLocal" THEN FinishErr(P)
           ELSE IF ~pushed THEN ClearEntryInfo(Q)
           ELSE [StoreEntryInfo(Q) EXCEPT !.broadcast = TRUE]
  BY DEF HandleWriteCmd, promised, P, Q, A, accepted
<1> QED
  BY <1>3, <1>8, <1>9, <1>10, <1>11 DEF GoodNode

LEMMA HandleReadCmdType ==
    ASSUME NEW i \in Acceptors, NEW S \in Node, NEW pushed \in BOOLEAN
    PROVE  GoodNode(S, HandleReadCmd(i, S, pushed))
<1> DEFINE T == [S EXCEPT !.empty_flags = {i}]
<1>1. T \in Node /\ T.drain = S.drain
  BY DEF Node
<1>2. GoodNode(T, BroadcastCheckEmpty(i, T))
  BY <1>1, BroadcastCheckEmptyType
<1>3. GoodNode(S, HandleWriteCmd(i, S, pushed))
  BY HandleWriteCmdType
<1> QED
  BY <1>1, <1>2, <1>3 DEF HandleReadCmd, GoodNode

LEMMA DispatchType ==
    ASSUME NEW i \in Acceptors, NEW S \in Node, NEW pushed \in BOOLEAN,
           NEW cu \in CatchupChoices
    PROVE  GoodNode(S, DispatchClientCmd(i, S, pushed, cu))
<1> DEFINE T == CreateEntryInfoIfMiss(S, pushed)
<1>1. T \in Node /\ T.drain = S.drain
  BY CreateType DEF GoodNode
<1>2. GoodNode(S, FinishErr(S)) /\ GoodNode(T, FinishErr(T))
  BY <1>1, FinishType
<1>3. GoodNode(FinishErr(S), TryCatchup(i, FinishErr(S), pushed, cu))
  BY <1>2, TryCatchupType DEF GoodNode
<1>4. /\ GoodNode(T, HandleWriteCmd(i, T, pushed))
      /\ GoodNode(T, HandleReadCmd(i, T, pushed))
  BY <1>1, HandleWriteCmdType, HandleReadCmdType
<1> QED
  BY <1>1, <1>2, <1>3, <1>4 DEF DispatchClientCmd, GoodNode

LEMMA HandleClientCmdType ==
    ASSUME NEW i \in Acceptors, NEW S \in Node, NEW cmd \in ClientCmd,
           NEW pushed \in BOOLEAN, NEW cu \in CatchupChoices
    PROVE  GoodNode(S, HandleClientCmd(i, S, cmd, pushed, cu))
<1> DEFINE T == [S EXCEPT !.client = cmd]
           L == [T EXCEPT !.loaded = TRUE, !.op = "load"]
<1>1. T \in Node /\ T.drain = S.drain
  BY DEF Node
<1>2. L \in Node /\ L.drain = S.drain
  BY <1>1 DEF Node
<1>3. GoodNode(T, DispatchClientCmd(i, T, pushed, cu))
  BY <1>1, DispatchType
<1> QED
  BY <1>1, <1>2, <1>3 DEF HandleClientCmd, GoodNode

-----------------------------------------------------------------------------
(* Messages from peers.                                                    *)

LEMMA RestoreMsgType ==
    ASSUME NEW S \in Node, NEW m \in PaxosCmd
    PROVE  RestoreValue(S, m) \in PaxosCmd /\ RestoreValue(S, m).from = m.from
<1> DEFINE restored(r) == IF r.id_only THEN RestoreValueInRecord(S.recs, r) ELSE r
<1>1. m.local \in Record /\ m.peer \in Record
  BY DEF PaxosCmd
<1>2. restored(m.local) \in Record /\ restored(m.peer) \in Record
  BY <1>1, NodeFields, RestoreValueType
<1>3. RestoreValue(S, m) = [m EXCEPT !.local = restored(m.local), !.peer = restored(m.peer)]
  BY DEF RestoreValue
<1> HIDE DEF restored
<1> QED
  BY <1>2, <1>3 DEF PaxosCmd

LEMMA HandleIfLocalChosenType ==
    ASSUME NEW i \in Acceptors, NEW S \in Node, NEW m \in PaxosCmd, NEW r \in Record
    PROVE  GoodNode(S, HandleIfLocalChosen(i, S, m, r))
<1> DEFINE mine == IF S.mem THEN S.recs[i] ELSE r
           chosen == [mine EXCEPT !.chosen = TRUE]
           answer == [SendBack(m) EXCEPT !.local = chosen]
<1>1. mine \in Record
  BY NodeFields
<1>2. chosen \in Record
  BY <1>1 DEF Record
<1>3. SendBack(m) \in PaxosCmd
  BY SendBackType
<1>4. answer \in PaxosCmd
  BY <1>2, <1>3 DEF PaxosCmd
<1>5. HandleIfLocalChosen(i, S, m, r) = IF m.local.chosen THEN S ELSE Send(S, answer)
  BY DEF HandleIfLocalChosen
<1> HIDE DEF answer
<1> QED
  BY <1>4, <1>5, SendType DEF GoodNode

LEMMA CountEmptyType ==
    ASSUME NEW i \in Acceptors, NEW S \in Node, NEW m \in PaxosCmd
    PROVE  GoodNode(S, CountEmpty(i, S, m))
<1> DEFINE T == [S EXCEPT !.empty_flags = S.empty_flags \cup {m.from}]
<1>1. m.from \in Acceptors
  BY DEF PaxosCmd
<1>2. T \in Node /\ T.drain = S.drain
  BY <1>1 DEF Node
<1>3. GoodNode(S, FinishErr(S)) /\ GoodNode(T, FinishOk(T))
  BY <1>2, FinishType
<1> QED
  BY <1>2, <1>3 DEF CountEmpty, GoodNode

LEMMA AcceptIfPromisedType ==
    ASSUME NEW i \in Acceptors, NEW S \in Node
    PROVE  GoodNode(S, AcceptIfPromised(i, S))
<1> DEFINE mine == S.client.kind # "none"
           value == IF mine THEN S.client.value ELSE NoValue
           value_id == IF mine THEN S.client.value_id ELSE S.recs[i].promised
           recs == Accept(i, S.recs, value, value_id)
           A == [S EXCEPT !.recs = recs]
           T == Check(A, entry_state(i, recs) = "AcceptLocal")
<1>1. value \in Values \cup {NoValue} /\ value_id \in Nat
  BY NodeFields DEF ClientCmd, Record
<1>2. AcceptIfPromised(i, S) =
          IF state(i, S) # "MajorityPromise" THEN S
          ELSE IF PreparedValueAccepted(S.recs) THEN T ELSE FinishErr(T)
  BY DEF AcceptIfPromised
<1> HIDE DEF value, value_id
<1>3. recs \in Machine
  BY <1>1, NodeFields, AcceptType
<1> HIDE DEF recs
<1>4. A \in Node /\ A.drain = S.drain
  BY <1>3 DEF Node
<1>5. T \in Node /\ T.drain = S.drain
  BY <1>4, CheckType DEF GoodNode
<1> HIDE DEF T
<1>6. GoodNode(T, FinishErr(T))
  BY <1>5, FinishType
<1> QED
  BY <1>2, <1>5, <1>6 DEF GoodNode

LEMMA UpdateMachineType ==
    ASSUME NEW i \in Acceptors, NEW S \in Node, NEW m \in PaxosCmd,
           NEW pushed \in BOOLEAN
    PROVE  GoodNode(S, UpdateMachineByPaxosCmd(i, S, m, pushed))
<1> DEFINE U == [S EXCEPT !.recs = Update(i, m.from, S.recs, m.local)]
           T == Check(AcceptIfPromised(i, U), CalcAsserts(U.recs[i]))
           compensate == /\ state(i, U) # state(i, S)
                         /\ state(i, U) \in {"MajorityPromise", "Chosen"}
           need_sync == IsRecordNewer(m.peer, T.recs[i])
           local_updated == IsRecordNewer(S.recs[i], T.recs[i])
           peer == IF need_sync THEN m.from ELSE StoreEntryInfo(T).peer_to_sync
           comp == IF need_sync THEN compensate ELSE StoreEntryInfo(T).compensate
           stored == [StoreEntryInfo(T) EXCEPT !.peer_to_sync = peer, !.compensate = comp]
           checked == Check(T, IsLocalEmpty(i, T.recs))
           empty == [SendBack(m) EXCEPT !.check_empty = FALSE]
<1>1. m.from \in Acceptors /\ m.local \in Record
  BY DEF PaxosCmd
<1>2. Update(i, m.from, S.recs, m.local) \in Machine
  BY <1>1, NodeFields, UpdateType
<1>3. U \in Node /\ U.drain = S.drain
  BY <1>2 DEF Node
<1> HIDE DEF U
<1>4. T \in Node /\ T.drain = S.drain
  <2>1. AcceptIfPromised(i, U) \in Node /\ AcceptIfPromised(i, U).drain = S.drain
    BY <1>3, AcceptIfPromisedType DEF GoodNode
  <2>2. U.recs[i].chosen \in BOOLEAN
    BY <1>3, NodeFields DEF Record
  <2>3. CalcAsserts(U.recs[i]) \in BOOLEAN
    BY <2>2 DEF CalcAsserts
  <2> QED
    BY <2>1, <2>3, CheckType DEF GoodNode
<1>5. UpdateMachineByPaxosCmd(i, S, m, pushed) =
        IF ~UpdateAccepts(m.local) THEN S
        ELSE IF local_updated /\ ~pushed THEN ClearEntryInfo(T)
        ELSE IF local_updated THEN CountEmpty(i, stored, m)
        ELSE IF need_sync THEN CountEmpty(i, SyncToPeers(i, T, {m.from}), m)
        ELSE IF m.check_empty THEN Send(checked, empty)
        ELSE CountEmpty(i, T, m)
  BY DEF UpdateMachineByPaxosCmd, U
<1> HIDE DEF T, compensate, need_sync, local_updated
<1>6. GoodNode(T, ClearEntryInfo(T)) /\ GoodNode(T, CountEmpty(i, T, m))
  BY <1>4, DestroyType, CountEmptyType
<1>7. GoodNode(T, CountEmpty(i, stored, m))
  <2>1. StoreEntryInfo(T) \in Node /\ StoreEntryInfo(T).drain = T.drain
    BY <1>4, StoreType DEF GoodNode
  <2>2. peer \in Acceptors \cup {NoPeer}
    BY <1>1, <2>1, NodeFields
  <2>3. comp \in BOOLEAN
    <3>1. compensate \in BOOLEAN /\ StoreEntryInfo(T).compensate \in BOOLEAN
      BY <2>1 DEF compensate, Node
    <3> QED
      BY <3>1
  <2> HIDE DEF peer, comp
  <2>4. stored \in Node /\ stored.drain = T.drain
    BY <2>1, <2>2, <2>3 DEF Node
  <2> HIDE DEF stored
  <2> QED
    BY <2>4, CountEmptyType DEF GoodNode
<1>8. GoodNode(T, CountEmpty(i, SyncToPeers(i, T, {m.from}), m))
  <2>1. GoodNode(T, SyncToPeers(i, T, {m.from}))
    BY <1>1, <1>4, SyncToPeersType
  <2> QED
    BY <2>1, CountEmptyType DEF GoodNode
<1>9. GoodNode(T, Send(checked, empty))
  <2>1. checked \in Node /\ checked.drain = T.drain
    BY <1>4, CheckType DEF GoodNode, IsLocalEmpty
  <2>2. SendBack(m) \in PaxosCmd
    BY SendBackType
  <2>3. empty \in PaxosCmd
    BY <2>2 DEF PaxosCmd
  <2> HIDE DEF checked, empty
  <2> QED
    BY <2>1, <2>3, SendType DEF GoodNode
<1> HIDE DEF stored, checked, empty
<1> QED
  BY <1>4, <1>5, <1>6, <1>7, <1>8, <1>9 DEF GoodNode

LEMMA LearnMaxChosenType ==
    ASSUME NEW S \in Node, NEW m \in PaxosCmd
    PROVE  GoodNode(S, LearnMaxChosen(S, m))
<1>1. m.from \in Acceptors /\ m.max_chosen \in 0 .. Entry
  BY DEF PaxosCmd
<1> DEFINE T == [S EXCEPT !.max_chosen = m.max_chosen, !.active_peer = m.from]
<1>2. T \in Node /\ T.drain = S.drain
  BY <1>1 DEF Node
<1>3. LearnMaxChosen(S, m) = IF S.max_chosen < m.max_chosen THEN T ELSE S
  BY DEF LearnMaxChosen
<1> QED
  BY <1>2, <1>3 DEF GoodNode

LEMMA FastFailType ==
    ASSUME NEW S \in Node, NEW m \in PaxosCmd
    PROVE  GoodNode(S, FastFail(S, m))
<1> DEFINE answer == [SendBack(m) EXCEPT !.max_chosen = S.max_chosen,
                                         !.fast_failed = TRUE, !.check_empty = FALSE]
<1>1. SendBack(m) \in PaxosCmd /\ S.max_chosen \in 0 .. Entry
  BY SendBackType, NodeFields
<1>2. answer \in PaxosCmd
  BY <1>1 DEF PaxosCmd
<1> QED
  BY <1>2, SendType DEF FastFail

LEMMA HandleLoadedType ==
    ASSUME NEW i \in Acceptors, NEW S \in Node, NEW m \in PaxosCmd, NEW r \in Record,
           NEW pushed \in BOOLEAN, NEW cu \in CatchupChoices
    PROVE  GoodNode(S, HandleLoadedPaxosCmd(i, S, m, r, pushed, cu))
<1> DEFINE L == LearnMaxChosen(S, m)
           mine == L.client.kind # "none" /\ L.client.uuid = m.uuid
           T == CreateEntryInfoIfMiss(L, pushed)
           c == RestoreValue(T, m)
           parked == [T EXCEPT !.waiting_msgs = [T.waiting_msgs EXCEPT ![m.from] = {c}]]
           checked == Check(T, ~T.broadcast /\ T.peer_to_sync = NoPeer)
           updated == UpdateMachineByPaxosCmd(i, checked, c, pushed)
           failed == IF mine THEN FinishErr(L) ELSE L
<1>1. L \in Node /\ L.drain = S.drain
  BY LearnMaxChosenType DEF GoodNode
<1>2. HandleLoadedPaxosCmd(i, S, m, r, pushed, cu) =
        IF m.check_empty /\ Entry <= L.max_chosen THEN FastFail(L, m)
        ELSE IF m.fast_failed THEN TryCatchup(i, failed, pushed, cu)
        ELSE IF LocalChosen(i, L) THEN HandleIfLocalChosen(i, L, m, r)
        ELSE IF ~EntryInfoAvailable(L, pushed) THEN L
        ELSE IF uncertain(T) THEN parked
        ELSE TryCatchup(i, updated, pushed, cu)
  BY DEF HandleLoadedPaxosCmd
<1> HIDE DEF L
<1>3. T \in Node /\ T.drain = S.drain
  BY <1>1, CreateType DEF GoodNode
<1> HIDE DEF T
<1>4. c \in PaxosCmd /\ m.from \in Acceptors
  BY <1>3, RestoreMsgType DEF PaxosCmd
<1> HIDE DEF c
<1>5. parked \in Node /\ parked.drain = S.drain
  <2>1. {c} \in Waiting
    BY <1>4 DEF Waiting
  <2>2. [T.waiting_msgs EXCEPT ![m.from] = {c}] \in [Acceptors -> Waiting]
    BY <1>3, <1>4, <2>1, NodeFields
  <2> QED
    BY <1>3, <2>2 DEF Node
<1>6. checked \in Node /\ checked.drain = S.drain
  BY <1>3, CheckType DEF GoodNode
<1> HIDE DEF checked
<1>7. updated \in Node /\ updated.drain = S.drain
  BY <1>4, <1>6, UpdateMachineType DEF GoodNode
<1> HIDE DEF updated, parked
<1>8. GoodNode(S, TryCatchup(i, updated, pushed, cu))
  BY <1>7, TryCatchupType DEF GoodNode
<1>9. failed \in Node /\ failed.drain = S.drain
  BY <1>1, FinishType DEF GoodNode
<1> HIDE DEF failed
<1>10. GoodNode(S, TryCatchup(i, failed, pushed, cu))
  BY <1>9, TryCatchupType DEF GoodNode
<1>11. /\ GoodNode(L, FastFail(L, m))
       /\ GoodNode(L, HandleIfLocalChosen(i, L, m, r))
  BY <1>1, FastFailType, HandleIfLocalChosenType
<1> QED
  BY <1>1, <1>2, <1>5, <1>8, <1>10, <1>11 DEF GoodNode

LEMMA HandlePaxosCmdType ==
    ASSUME NEW i \in Acceptors, NEW S \in Node, NEW m \in PaxosCmd, NEW r \in Record,
           NEW pushed \in BOOLEAN, NEW cu \in CatchupChoices
    PROVE  GoodNode(S, HandlePaxosCmd(i, S, m, r, pushed, cu))
<1> DEFINE A == [S EXCEPT !.loaded = TRUE, !.op = "load", !.waiting_msg = {m}]
           B == [S EXCEPT !.waiting_msg = {m}]
<1>1. {m} \in Waiting
  BY DEF Waiting
<1>2. A \in Node /\ A.drain = S.drain
  BY <1>1 DEF Node
<1>3. B \in Node /\ B.drain = S.drain
  BY <1>1 DEF Node
<1>4. GoodNode(S, HandleLoadedPaxosCmd(i, S, m, r, pushed, cu))
  BY HandleLoadedType
<1> QED
  BY <1>2, <1>3, <1>4 DEF HandlePaxosCmd, GoodNode

-----------------------------------------------------------------------------
(* Responses of the PlogWorker.                                            *)

(* The loop of HandleWaitingMsg goes on only while a message is parked, so *)
(* that NextWaiting has something to choose.                               *)
Draining(T) == T.drain # "no" => T.waiting_msgs # NoWaiting

LEMMA GoodNodeIdle ==
    ASSUME NEW S, NEW T, GoodNode(S, T), S.drain = "no"
    PROVE  T \in Node /\ Draining(T)
BY DEF GoodNode, Draining

LEMMA EndOfLoopType ==
    ASSUME NEW i \in Acceptors, NEW S \in Node, NEW pushed \in BOOLEAN,
           NEW cu \in CatchupChoices
    PROVE  EndOfLoop(i, S, pushed, cu) \in Node /\ Draining(EndOfLoop(i, S, pushed, cu))
<1> DEFINE T == [S EXCEPT !.drain = "no"]
<1>1. T \in Node /\ T.drain = "no"
  BY DEF Node
<1>2. GoodNode(T, TryCatchup(i, T, pushed, cu))
  BY <1>1, TryCatchupType
<1>3. CASE S.drain # "no" /\ S.mem /\ ~uncertain(S) /\ S.waiting_msgs # NoWaiting
  BY <1>3 DEF EndOfLoop, Draining
<1>4. CASE /\ ~(S.drain # "no" /\ S.mem /\ ~uncertain(S) /\ S.waiting_msgs # NoWaiting)
           /\ S.drain = "get"
  <2>1. EndOfLoop(i, S, pushed, cu) = TryCatchup(i, T, pushed, cu)
    BY <1>4 DEF EndOfLoop
  <2> QED
    BY <1>1, <1>2, <2>1, GoodNodeIdle
<1>5. CASE /\ ~(S.drain # "no" /\ S.mem /\ ~uncertain(S) /\ S.waiting_msgs # NoWaiting)
           /\ S.drain # "get"
  <2>1. EndOfLoop(i, S, pushed, cu) = T
    BY <1>5 DEF EndOfLoop
  <2> QED
    BY <1>1, <2>1 DEF Draining
<1> QED
  BY <1>3, <1>4, <1>5

LEMMA HandleWaitingMsgType ==
    ASSUME NEW i \in Acceptors, NEW S \in Node, NEW r \in Record,
           NEW pushed \in BOOLEAN, NEW cu \in CatchupChoices,
           S.waiting_msgs # NoWaiting
    PROVE  LET T == HandleWaitingMsg(i, S, r, pushed, cu) IN T \in Node /\ Draining(T)
<1> DEFINE full == {a \in Acceptors : S.waiting_msgs[a] # {}}
           a == NextWaiting(S)
           m == CHOOSE x \in S.waiting_msgs[a] : TRUE
           rest == [S.waiting_msgs EXCEPT ![a] = {}]
           T == [S EXCEPT !.waiting_msgs = rest]
           H == HandleLoadedPaxosCmd(i, T, m, r, pushed, cu)
<1>1. full # {}
  BY NodeFields DEF NoWaiting
<1>2. a \in Acceptors /\ S.waiting_msgs[a] # {}
  <2>1. \E b \in full : \A c \in full : b <= c
    BY <1>1, FirstAcceptor
  <2>2. NextWaiting(S) = CHOOSE b \in Acceptors :
              /\ S.waiting_msgs[b] # {}
              /\ \A c \in Acceptors : S.waiting_msgs[c] # {} => b <= c
    BY DEF NextWaiting
  <2> QED
    BY <2>1, <2>2
<1>3. HandleWaitingMsg(i, S, r, pushed, cu) = EndOfLoop(i, H, pushed, cu)
  BY DEF HandleWaitingMsg
<1> HIDE DEF a
<1>4. m \in PaxosCmd
  <2>1. S.waiting_msgs[a] \in Waiting
    BY <1>2, NodeFields
  <2>2. S.waiting_msgs[a] \subseteq PaxosCmd
    BY <2>1 DEF Waiting
  <2>3. m \in S.waiting_msgs[a]
    BY <1>2
  <2> QED
    BY <2>2, <2>3
<1>5. rest \in [Acceptors -> Waiting]
  <2>1. {} \in Waiting
    BY DEF Waiting
  <2> QED
    BY <2>1, NodeFields
<1> HIDE DEF m, rest
<1>6. T \in Node
  BY <1>5 DEF Node
<1> HIDE DEF T
<1>7. H \in Node
  BY <1>4, <1>6, HandleLoadedType DEF GoodNode
<1> HIDE DEF H
<1> QED
  BY <1>3, <1>7, EndOfLoopType

LEMMA SyncPersistentType ==
    ASSUME NEW i \in Acceptors, NEW S \in Node, S.broadcast \/ S.peer_to_sync # NoPeer
    PROVE  GoodNode(S, SyncPersistent(i, S))
<1>1. /\ GoodNode(S, Broadcast(i, S))
      /\ GoodNode(S, BroadcastOnAccept(i, S)) /\ GoodNode(S, BroadcastOnChosen(i, S))
  BY BroadcastTypes
<1>2. S.peer_to_sync # NoPeer => GoodNode(S, SyncToPeers(i, S, {S.peer_to_sync}))
  BY NodeFields, SyncToPeersType
<1>3. GoodNode(S, S)
  BY DEF GoodNode
<1> QED
  BY <1>1, <1>2, <1>3 DEF SyncPersistent

LEMMA HandleSetType ==
    ASSUME NEW i \in Acceptors, NEW S \in Node, NEW success \in BOOLEAN, S.drain = "no"
    PROVE  LET T == HandleSetFromPlog(i, S, success) IN T \in Node /\ Draining(T)
<1> DEFINE U == [S EXCEPT !.op = "none"]
           V == UpdateByChosenEntry(i, U)
           W == FinishIfChosen(i, V)
           P == SyncPersistent(i, W)
           X == [P EXCEPT !.broadcast = FALSE, !.compensate = FALSE,
                          !.peer_to_sync = NoPeer, !.drain = "set"]
<1>1. U \in Node /\ U.drain = "no"
  BY DEF Node
<1>2. HandleSetFromPlog(i, S, success) =
          IF ~success THEN ClearEntryInfo(U)
          ELSE IF ~W.broadcast /\ W.peer_to_sync = NoPeer THEN W
          ELSE EndOfLoop(i, X, TRUE, "none")
  BY DEF HandleSetFromPlog
<1> HIDE DEF U
<1>3. V \in Node /\ V.drain = "no"
  BY <1>1, UpdateByChosenType DEF GoodNode
<1> HIDE DEF V
<1>4. W \in Node /\ W.drain = "no"
  BY <1>3, FinishType DEF FinishIfChosen, GoodNode
<1> HIDE DEF W
<1>5. CASE ~success
  <2>1. GoodNode(U, ClearEntryInfo(U))
    BY <1>1, DestroyType
  <2> QED
    BY <1>1, <1>2, <1>5, <2>1, GoodNodeIdle
<1>6. CASE success /\ ~W.broadcast /\ W.peer_to_sync = NoPeer
  BY <1>2, <1>4, <1>6 DEF Draining
<1>7. CASE success /\ ~(~W.broadcast /\ W.peer_to_sync = NoPeer)
  <2>1. P \in Node
    BY <1>4, <1>7, SyncPersistentType DEF GoodNode
  <2> HIDE DEF P
  <2>2. X \in Node
    BY <2>1 DEF Node
  <2> HIDE DEF X
  <2>3. "none" \in CatchupChoices
    BY DEF CatchupChoices
  <2> QED
    BY <1>2, <1>7, <2>2, <2>3, EndOfLoopType
<1> QED
  BY <1>5, <1>6, <1>7

LEMMA HandleGetType ==
    ASSUME NEW i \in Acceptors, NEW S \in Node, NEW r \in Record, NEW success \in BOOLEAN,
           NEW pushed \in BOOLEAN, NEW cu \in CatchupChoices, S.drain = "no"
    PROVE  LET T == HandleGetFromPlog(i, S, r, success, pushed, cu)
           IN T \in Node /\ Draining(T)
<1> DEFINE U == [S EXCEPT !.op = "none"]
           V == [U EXCEPT !.recs = Update(i, i, U.recs, r)]
           C == UpdateByChosenEntry(i, V)
           X == [C EXCEPT !.drain = "get"]
<1>1. U \in Node /\ U.drain = "no"
  BY DEF Node
<1>2. HandleGetFromPlog(i, S, r, success, pushed, cu) =
          IF ~success THEN ClearEntryInfo(U)
          ELSE IF ~UpdateAccepts(r) THEN U
          ELSE EndOfLoop(i, X, pushed, cu)
  BY DEF HandleGetFromPlog
<1> HIDE DEF U
<1>3. GoodNode(U, ClearEntryInfo(U))
  BY <1>1, DestroyType
<1>4. Update(i, i, U.recs, r) \in Machine
  BY <1>1, NodeFields, UpdateType
<1>5. V \in Node
  BY <1>1, <1>4 DEF Node
<1> HIDE DEF V
<1>6. C \in Node
  BY <1>5, UpdateByChosenType DEF GoodNode
<1> HIDE DEF C
<1>7. X \in Node
  BY <1>6 DEF Node
<1> HIDE DEF X
<1>8. EndOfLoop(i, X, pushed, cu) \in Node /\ Draining(EndOfLoop(i, X, pushed, cu))
  BY <1>7, EndOfLoopType
<1>9. Draining(U)
  BY <1>1 DEF Draining
<1> QED
  BY <1>1, <1>2, <1>3, <1>8, <1>9, GoodNodeIdle

LEMMA HandleLoadType ==
    ASSUME NEW i \in Acceptors, NEW S \in Node, NEW r \in Record, NEW c \in BOOLEAN,
           NEW pushed \in BOOLEAN, NEW cu \in CatchupChoices
    PROVE  GoodNode(S, HandleLoadFromPlog(i, S, r, c, pushed, cu))
<1> DEFINE committed == IF c THEN Entry ELSE 0
           in_plog == IF r = EmptyRecord THEN committed ELSE Entry
           L == [S EXCEPT !.op = "none", !.max_plog = in_plog,
                          !.max_chosen = committed, !.max_cont = committed]
           U == [L EXCEPT !.waiting_msg = {}]
           m == CHOOSE x \in S.waiting_msg : TRUE
           V == IF S.waiting_msg = {} THEN U
                ELSE HandleLoadedPaxosCmd(i, U, m, r, pushed, cu)
<1>1. committed \in 0 .. Entry /\ in_plog \in 0 .. Entry
  BY DEF Entry
<1>2. HandleLoadFromPlog(i, S, r, c, pushed, cu) =
          IF V.client.kind = "none" THEN V ELSE DispatchClientCmd(i, V, pushed, cu)
  BY DEF HandleLoadFromPlog, UpdateByLoadFromPlog
<1> HIDE DEF committed, in_plog
<1>3. L \in Node /\ L.drain = S.drain
  BY <1>1 DEF Node
<1> HIDE DEF L
<1>4. {} \in Waiting
  BY DEF Waiting
<1>5. U \in Node /\ U.drain = S.drain
  BY <1>3, <1>4 DEF Node
<1> HIDE DEF U
<1>6. S.waiting_msg # {} => m \in PaxosCmd
  BY NodeFields DEF Waiting
<1> HIDE DEF m
<1>7. V \in Node /\ V.drain = S.drain
  BY <1>5, <1>6, HandleLoadedType DEF GoodNode
<1> HIDE DEF V
<1> QED
  BY <1>2, <1>7, DispatchType DEF GoodNode

-----------------------------------------------------------------------------
(* Type correctness.                                                       *)

DrainInv == \A i \in Acceptors : Draining(node[i])

TypeInv == TypeOK /\ DrainInv

LEMMA GoType ==
    ASSUME TypeInv, NEW i \in Acceptors, NEW S \in Node, Draining(S),
           NEW N0 \in SUBSET PaxosCmd, Go(i, S, N0)
    PROVE  /\ node' \in [Acceptors -> Node] /\ DrainInv'
           /\ net' \subseteq PaxosCmd /\ acked' \subseteq Values
           /\ staleRead' \in BOOLEAN
<1> DEFINE T == [S EXCEPT !.out = {}, !.done = NoCmd]
<1>1. T \in Node /\ T.drain = S.drain /\ T.waiting_msgs = S.waiting_msgs
  BY NoCmdType DEF Node
<1>2. Draining(T)
  BY <1>1 DEF Draining
<1>3. node' = [node EXCEPT ![i] = T] /\ net' = N0 \cup S.out
  BY DEF Go
<1> HIDE DEF T
<1>4. node' \in [Acceptors -> Node]
  BY <1>1, <1>3 DEF TypeInv, TypeOK
<1>5. DrainInv'
  BY <1>2, <1>3 DEF TypeInv, TypeOK, DrainInv
<1>6. net' \subseteq PaxosCmd
  BY <1>3, NodeFields
<1>7. acked' \subseteq Values
  <2>1. S.done.kind = "write" => S.done.value \in Values
    BY NodeFields DEF ClientCmd
  <2> QED
    BY <2>1 DEF Go, TypeInv, TypeOK
<1>8. staleRead' \in BOOLEAN
  BY DEF Go
<1> QED
  BY <1>4, <1>5, <1>6, <1>7, <1>8

LEMMA PlogQueueType ==
    ASSUME TypeInv, NEW pushed \in BOOLEAN, PlogQueue(pushed)
    PROVE  plogErrors' \in 0 .. MaxPlogErrors
BY BoundsAssumption DEF TypeInv, TypeOK, PlogQueue

LEMMA InitType == Init => TypeInv
<1> SUFFICES ASSUME Init PROVE TypeInv
  OBVIOUS
<1>1. ASSUME NEW i \in Acceptors
      PROVE  LET T == [EntityAbsent(i) EXCEPT !.loaded = TRUE]
             IN T \in Node /\ T.drain = "no"
  <2>1. EntityAbsent(i) \in Node /\ EntityAbsent(i).drain = "no"
    BY EntityAbsentType
  <2> QED
    BY <2>1 DEF Node
<1>2. node \in [Acceptors -> Node] /\ DrainInv
  BY <1>1 DEF Init, DrainInv, Draining
<1>3. plog \in [Acceptors -> Record] /\ db \subseteq Acceptors /\ net \subseteq PaxosCmd
  BY EmptyRecordType DEF Init
<1>4. /\ reads \in 0 .. MaxReads /\ crashes \in 0 .. MaxCrashes
      /\ plogErrors \in 0 .. MaxPlogErrors /\ evictions \in 0 .. MaxEvictions
      /\ cleanups \in 0 .. MaxCleanups /\ losses \in 0 .. MaxLosses
      /\ timeouts \in 0 .. MaxTimeouts
  BY BoundsAssumption DEF Init
<1>5. used \subseteq Values /\ acked \subseteq Values /\ staleRead \in BOOLEAN
  BY DEF Init
<1> QED
  BY <1>2, <1>3, <1>4, <1>5 DEF TypeInv, TypeOK

(* Every step of a replica keeps the types: one step per action of Next.   *)
LEMMA NextType == TypeInv /\ [Next]_vars => TypeInv'
<1> SUFFICES ASSUME TypeInv, [Next]_vars PROVE TypeInv'
  OBVIOUS
<1>n. \A i \in Acceptors : node[i] \in Node /\ plog[i] \in Record /\ Draining(node[i])
  BY DEF TypeInv, TypeOK, DrainInv
<1>m. net \subseteq PaxosCmd /\ \A m \in net : m.to \in Acceptors
  BY DEF TypeInv, TypeOK, PaxosCmd
<1>b. /\ plog \in [Acceptors -> Record] /\ db \subseteq Acceptors
      /\ used \subseteq Values /\ reads \in 0 .. MaxReads /\ crashes \in 0 .. MaxCrashes
      /\ plogErrors \in 0 .. MaxPlogErrors /\ evictions \in 0 .. MaxEvictions
      /\ cleanups \in 0 .. MaxCleanups /\ losses \in 0 .. MaxLosses
      /\ timeouts \in 0 .. MaxTimeouts
  BY DEF TypeInv, TypeOK
<1>1. ASSUME NEW i \in Writers, NEW v \in Values, ClientWrite(i, v) PROVE TypeInv'
  <2> DEFINE cmd == [NoCmd EXCEPT !.kind = "write", !.value = v]
  <2>0. i \in Acceptors
    BY BoundsAssumption
  <2>1. cmd \in ClientCmd
    BY DEF NoCmd, ClientCmd
  <2> HIDE DEF cmd
  <2>2. PICK pushed \in BOOLEAN, cu \in CatchupChoices :
           PlogQueue(pushed) /\ Go(i, HandleClientCmd(i, node[i], cmd, pushed, cu), net)
    BY <1>1 DEF ClientWrite, cmd
  <2>3. GoodNode(node[i], HandleClientCmd(i, node[i], cmd, pushed, cu))
    BY <1>n, <2>0, <2>1, HandleClientCmdType
  <2>4. LET T == HandleClientCmd(i, node[i], cmd, pushed, cu) IN T \in Node /\ Draining(T)
    BY <1>1, <2>3, GoodNodeIdle DEF ClientWrite, Idle
  <2>5. /\ node' \in [Acceptors -> Node] /\ DrainInv'
        /\ net' \subseteq PaxosCmd /\ acked' \subseteq Values /\ staleRead' \in BOOLEAN
    BY <1>m, <2>0, <2>2, <2>4, GoType
  <2>6. plogErrors' \in 0 .. MaxPlogErrors
    BY <2>2, PlogQueueType
  <2> QED
    BY <1>1, <1>b, <2>5, <2>6 DEF ClientWrite, TypeInv, TypeOK
<1>2. ASSUME NEW i \in Readers, ClientRead(i) PROVE TypeInv'
  <2> DEFINE cmd == [NoCmd EXCEPT !.kind = "read", !.uuid = reads + 1,
                                  !.stale = acked # {}]
  <2>0. i \in Acceptors
    BY BoundsAssumption
  <2>1. cmd \in ClientCmd
    <3>1. reads + 1 \in Nat /\ (acked # {}) \in BOOLEAN
      BY <1>b, BoundsAssumption
    <3> QED
      BY <3>1 DEF NoCmd, ClientCmd
  <2> HIDE DEF cmd
  <2>2. PICK pushed \in BOOLEAN, cu \in CatchupChoices :
           PlogQueue(pushed) /\ Go(i, HandleClientCmd(i, node[i], cmd, pushed, cu), net)
    BY <1>2 DEF ClientRead, cmd
  <2>3. GoodNode(node[i], HandleClientCmd(i, node[i], cmd, pushed, cu))
    BY <1>n, <2>0, <2>1, HandleClientCmdType
  <2>4. LET T == HandleClientCmd(i, node[i], cmd, pushed, cu) IN T \in Node /\ Draining(T)
    BY <1>2, <2>3, GoodNodeIdle DEF ClientRead, Idle
  <2>5. /\ node' \in [Acceptors -> Node] /\ DrainInv'
        /\ net' \subseteq PaxosCmd /\ acked' \subseteq Values /\ staleRead' \in BOOLEAN
    BY <1>m, <2>0, <2>2, <2>4, GoType
  <2>6. plogErrors' \in 0 .. MaxPlogErrors /\ reads' \in 0 .. MaxReads
    BY <1>2, <1>b, <2>2, PlogQueueType, BoundsAssumption DEF ClientRead
  <2> QED
    BY <1>2, <1>b, <2>5, <2>6 DEF ClientRead, TypeInv, TypeOK
<1>3. ASSUME NEW i \in Acceptors, ClientTimeout(i) PROVE TypeInv'
  <2>1. FinishErr(node[i]) \in Node /\ Draining(FinishErr(node[i]))
    BY <1>n, <1>3, FinishType, GoodNodeIdle DEF ClientTimeout, Idle
  <2>2. /\ node' \in [Acceptors -> Node] /\ DrainInv'
        /\ net' \subseteq PaxosCmd /\ acked' \subseteq Values /\ staleRead' \in BOOLEAN
    BY <1>m, <1>3, <2>1, GoType DEF ClientTimeout
  <2> QED
    BY <1>3, <1>b, <2>2, BoundsAssumption DEF ClientTimeout, TypeInv, TypeOK
<1>4. ASSUME NEW m \in net, ReceivePaxosCmd(m) PROVE TypeInv'
  <2> DEFINE i == m.to
             rest == IF Duplicates THEN net ELSE net \ {m}
  <2>0. i \in Acceptors /\ m \in PaxosCmd /\ rest \in SUBSET PaxosCmd
    BY <1>m
  <2>1. PICK pushed \in BOOLEAN, cu \in CatchupChoices :
           PlogQueue(pushed) /\ Go(i, HandlePaxosCmd(i, node[i], m, plog[i], pushed, cu), rest)
    BY <1>4 DEF ReceivePaxosCmd, CatchupChoicesAt, CatchupChoices
  <2> HIDE DEF rest
  <2>2. GoodNode(node[i], HandlePaxosCmd(i, node[i], m, plog[i], pushed, cu))
    BY <1>n, <2>0, HandlePaxosCmdType
  <2>3. LET T == HandlePaxosCmd(i, node[i], m, plog[i], pushed, cu) IN T \in Node /\ Draining(T)
    BY <1>4, <2>2, GoodNodeIdle DEF ReceivePaxosCmd, Idle
  <2>4. /\ node' \in [Acceptors -> Node] /\ DrainInv'
        /\ net' \subseteq PaxosCmd /\ acked' \subseteq Values /\ staleRead' \in BOOLEAN
    BY <2>0, <2>1, <2>3, GoType
  <2>5. plogErrors' \in 0 .. MaxPlogErrors
    BY <2>1, PlogQueueType
  <2> QED
    BY <1>4, <1>b, <2>4, <2>5 DEF ReceivePaxosCmd, TypeInv, TypeOK
<1>5. ASSUME NEW m \in net, LoseMessage(m) PROVE TypeInv'
  BY <1>5, BoundsAssumption DEF LoseMessage, TypeInv, TypeOK, DrainInv
<1>6. ASSUME NEW i \in Acceptors, PlogSetRecord(i) PROVE TypeInv'
  <2>1. PICK success \in BOOLEAN, written \in BOOLEAN :
           /\ PlogResult(success)
           /\ plog' = IF written THEN [plog EXCEPT ![i] = node[i].recs[i]] ELSE plog
           /\ Go(i, HandleSetFromPlog(i, node[i], success), net)
    BY <1>6 DEF PlogSetRecord
  <2>2. node[i].drain = "no"
    BY <1>6 DEF PlogSetRecord, Idle
  <2>3. LET T == HandleSetFromPlog(i, node[i], success) IN T \in Node /\ Draining(T)
    BY <1>n, <2>2, HandleSetType
  <2>4. /\ node' \in [Acceptors -> Node] /\ DrainInv'
        /\ net' \subseteq PaxosCmd /\ acked' \subseteq Values /\ staleRead' \in BOOLEAN
    BY <1>m, <2>1, <2>3, GoType
  <2>5. plogErrors' \in 0 .. MaxPlogErrors
    BY <2>1, PlogQueueType DEF PlogResult
  <2>6. plog' \in [Acceptors -> Record]
    BY <1>n, <1>b, <2>1, NodeFields
  <2> QED
    BY <1>6, <1>b, <2>4, <2>5, <2>6 DEF PlogSetRecord, TypeInv, TypeOK
<1>7. ASSUME NEW i \in Acceptors, PlogGetRecord(i) PROVE TypeInv'
  <2>1. PICK success \in BOOLEAN, pushed \in BOOLEAN, cu \in CatchupChoices :
           /\ PlogResult(success /\ pushed)
           /\ Go(i, HandleGetFromPlog(i, node[i], plog[i], success, pushed, cu), net)
    BY <1>7 DEF PlogGetRecord
  <2>2. node[i].drain = "no"
    BY <1>7 DEF PlogGetRecord, Idle
  <2>3. LET T == HandleGetFromPlog(i, node[i], plog[i], success, pushed, cu)
        IN T \in Node /\ Draining(T)
    BY <1>n, <2>2, HandleGetType
  <2>4. /\ node' \in [Acceptors -> Node] /\ DrainInv'
        /\ net' \subseteq PaxosCmd /\ acked' \subseteq Values /\ staleRead' \in BOOLEAN
    BY <1>m, <2>1, <2>3, GoType
  <2>5. plogErrors' \in 0 .. MaxPlogErrors
    BY <2>1, PlogQueueType DEF PlogResult
  <2> QED
    BY <1>7, <1>b, <2>4, <2>5 DEF PlogGetRecord, TypeInv, TypeOK
<1>8. ASSUME NEW i \in Acceptors, PlogLoad(i) PROVE TypeInv'
  <2>1. PICK success \in BOOLEAN, pushed \in BOOLEAN, cu \in CatchupChoices :
           /\ PlogResult(success /\ pushed)
           /\ Go(i, IF success
                    THEN HandleLoadFromPlog(i, node[i], plog[i], i \in db, pushed, cu)
                    ELSE EntityAbsent(i), net)
    BY <1>8 DEF PlogLoad
  <2>2. node[i].drain = "no"
    BY <1>8 DEF PlogLoad, Idle
  <2> DEFINE T == IF success
                  THEN HandleLoadFromPlog(i, node[i], plog[i], i \in db, pushed, cu)
                  ELSE EntityAbsent(i)
  <2>3. T \in Node /\ T.drain = "no"
    <3>1. (i \in db) \in BOOLEAN
      OBVIOUS
    <3>2. GoodNode(node[i], HandleLoadFromPlog(i, node[i], plog[i], i \in db, pushed, cu))
      BY <1>n, <3>1, HandleLoadType
    <3> QED
      BY <2>2, <3>2, EntityAbsentType DEF GoodNode
  <2>4. Draining(T) /\ Go(i, T, net)
    BY <2>1, <2>3 DEF Draining
  <2> HIDE DEF T
  <2>5. /\ node' \in [Acceptors -> Node] /\ DrainInv'
        /\ net' \subseteq PaxosCmd /\ acked' \subseteq Values /\ staleRead' \in BOOLEAN
    BY <1>m, <2>3, <2>4, GoType
  <2>6. plogErrors' \in 0 .. MaxPlogErrors
    BY <2>1, PlogQueueType DEF PlogResult
  <2> QED
    BY <1>8, <1>b, <2>5, <2>6 DEF PlogLoad, TypeInv, TypeOK
<1>9. ASSUME NEW i \in Acceptors, DrainWaitingMsg(i) PROVE TypeInv'
  <2>1. PICK pushed \in BOOLEAN, cu \in CatchupChoices :
           PlogQueue(pushed) /\ Go(i, HandleWaitingMsg(i, node[i], plog[i], pushed, cu), net)
    BY <1>9 DEF DrainWaitingMsg
  <2>2. node[i].waiting_msgs # NoWaiting
    BY <1>n, <1>9 DEF DrainWaitingMsg, Idle, Draining
  <2>3. LET T == HandleWaitingMsg(i, node[i], plog[i], pushed, cu) IN T \in Node /\ Draining(T)
    BY <1>n, <2>2, HandleWaitingMsgType
  <2>4. /\ node' \in [Acceptors -> Node] /\ DrainInv'
        /\ net' \subseteq PaxosCmd /\ acked' \subseteq Values /\ staleRead' \in BOOLEAN
    BY <1>m, <2>1, <2>3, GoType
  <2>5. plogErrors' \in 0 .. MaxPlogErrors
    BY <2>1, PlogQueueType
  <2> QED
    BY <1>9, <1>b, <2>4, <2>5 DEF DrainWaitingMsg, TypeInv, TypeOK
<1>10. ASSUME NEW i \in Acceptors, IterateAndCatchup(i) PROVE TypeInv'
  <2>1. PICK pushed \in BOOLEAN, cu \in CatchupChoices :
           PlogQueue(pushed) /\ Go(i, TryCatchup(i, node[i], pushed, cu), net)
    BY <1>10 DEF IterateAndCatchup
  <2>2. LET T == TryCatchup(i, node[i], pushed, cu) IN T \in Node /\ Draining(T)
    BY <1>n, <1>10, TryCatchupType, GoodNodeIdle DEF IterateAndCatchup, Idle
  <2>3. /\ node' \in [Acceptors -> Node] /\ DrainInv'
        /\ net' \subseteq PaxosCmd /\ acked' \subseteq Values /\ staleRead' \in BOOLEAN
    BY <1>m, <2>1, <2>2, GoType
  <2>4. plogErrors' \in 0 .. MaxPlogErrors
    BY <2>1, PlogQueueType
  <2> QED
    BY <1>10, <1>b, <2>3, <2>4 DEF IterateAndCatchup, TypeInv, TypeOK
<1>11. ASSUME NEW i \in Acceptors, CleanupExpiredChosenEntry(i) PROVE TypeInv'
  <2> DEFINE C == Check(node[i], ~uncertain(node[i]))
             T == DestroyEntryInfo(C)
  <2>1. C \in Node /\ C.drain = "no"
    BY <1>n, <1>11, CheckType DEF CleanupExpiredChosenEntry, Idle, GoodNode
  <2> HIDE DEF C
  <2>2. T \in Node /\ Draining(T)
    BY <2>1, DestroyType, GoodNodeIdle
  <2>3. Go(i, T, net)
    BY <1>11 DEF CleanupExpiredChosenEntry, C
  <2> HIDE DEF T
  <2>4. /\ node' \in [Acceptors -> Node] /\ DrainInv'
        /\ net' \subseteq PaxosCmd /\ acked' \subseteq Values /\ staleRead' \in BOOLEAN
    BY <1>m, <2>2, <2>3, GoType
  <2>5. cleanups' \in 0 .. MaxCleanups
    BY <1>11, <1>b, BoundsAssumption DEF CleanupExpiredChosenEntry
  <2> QED
    BY <1>11, <1>b, <2>4, <2>5 DEF CleanupExpiredChosenEntry, TypeInv, TypeOK
<1>12. ASSUME NEW i \in Acceptors, MakeEnoughRoom(i) PROVE TypeInv'
  <2> DEFINE C == Check(node[i], ~uncertain(node[i]))
             T == DestroyEntryInfo(C)
  <2>1. C \in Node /\ C.drain = "no"
    BY <1>n, <1>12, CheckType DEF MakeEnoughRoom, Idle, GoodNode
  <2> HIDE DEF C
  <2>2. T \in Node /\ Draining(T)
    BY <2>1, DestroyType, GoodNodeIdle
  <2>3. Go(i, T, net)
    BY <1>12 DEF MakeEnoughRoom, C
  <2> HIDE DEF T
  <2>4. /\ node' \in [Acceptors -> Node] /\ DrainInv'
        /\ net' \subseteq PaxosCmd /\ acked' \subseteq Values /\ staleRead' \in BOOLEAN
    BY <1>m, <2>2, <2>3, GoType
  <2>5. evictions' \in 0 .. MaxEvictions
    BY <1>12, <1>b, BoundsAssumption DEF MakeEnoughRoom
  <2> QED
    BY <1>12, <1>b, <2>4, <2>5 DEF MakeEnoughRoom, TypeInv, TypeOK
<1>13. ASSUME NEW i \in Acceptors, Crash(i) PROVE TypeInv'
  <2>1. EntityAbsent(i) \in Node /\ Draining(EntityAbsent(i))
    BY EntityAbsentType DEF Draining
  <2>2. /\ node' \in [Acceptors -> Node] /\ DrainInv'
        /\ net' \subseteq PaxosCmd /\ acked' \subseteq Values /\ staleRead' \in BOOLEAN
    BY <1>m, <1>13, <2>1, GoType DEF Crash
  <2>3. crashes' \in 0 .. MaxCrashes
    BY <1>13, <1>b, BoundsAssumption DEF Crash
  <2>4. plog' \in [Acceptors -> Record] /\ db' \subseteq Acceptors
    BY <1>n, <1>13, <1>b, NodeFields DEF Crash
  <2> QED
    BY <1>13, <1>b, <2>2, <2>3, <2>4 DEF Crash, TypeInv, TypeOK
<1>14. CASE UNCHANGED vars
  BY <1>14 DEF vars, TypeInv, TypeOK, DrainInv
<1> QED
  BY <1>1, <1>2, <1>3, <1>4, <1>5, <1>6, <1>7, <1>8, <1>9, <1>10, <1>11, <1>12,
     <1>13, <1>14 DEF Next

(* Every state that the replicas reach, whatever is lost, evicted, failed  *)
(* or restarted, is well typed: no handler uses a peer_to_sync that was    *)
(* not set, a waiting message that is not there or a proposal number out   *)
(* of its range.                                                           *)
THEOREM TypeCorrect == Spec => []TypeOK
<1>1. TypeInv => TypeOK
  BY DEF TypeInv
<1> QED
  BY <1>1, InitType, NextType, PTL DEF Spec
=============================================================================
