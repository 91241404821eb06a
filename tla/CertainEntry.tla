---------------------------- MODULE CertainEntry ----------------------------
(***************************************************************************)
(* One entry of one entity on all its replicas: the EntityHelper of        *)
(* certain/src/entity_helper.cc that runs the consensus, its plog, and the *)
(* messages between the replicas.                                          *)
(*                                                                         *)
(* The entry is Entry = 1 of the entity, opened when every entry before it *)
(* is chosen.  A replica is single threaded for one entity (EntityWorker), *)
(* so a handler is one action; what runs concurrently are the replicas,    *)
(* the PlogWorker that answers a request later, and the clients.           *)
(*                                                                         *)
(* A handler is written as an operator that takes the state S of replica i *)
(* and returns its state afterwards; S.out collects the messages it sends  *)
(* and S.done the client command it finishes with kRetCodeOk.              *)
(***************************************************************************)
EXTENDS EntryState

CONSTANTS
    EnablePreAuth,  \* options: enable_pre_auth
    Writers,        \* replicas that get client writes
    Readers,        \* replicas that get client reads
    MaxReads,       \* bound: client reads
    MaxCrashes,     \* bound: process crashes
    CleanStops,     \* a process stops only when none of its plog writes is open
    MaxPlogErrors,  \* bound: failed plog operations and full plog queues
    MaxEvictions,   \* bound: entries evicted because memory is short
    MaxCleanups,    \* bound: chosen entries dropped from memory by their age
    MaxLosses,      \* bound: messages dropped by a full queue or a broken connection
    MaxTimeouts,    \* bound: client commands that time out
    Duplicates      \* a message may be delivered more than once

ASSUME BoundsAssumption ==
    /\ Writers \subseteq Acceptors /\ Readers \subseteq Acceptors
    /\ MaxReads \in Nat /\ MaxCrashes \in Nat
    /\ MaxPlogErrors \in Nat /\ MaxEvictions \in Nat /\ MaxCleanups \in Nat
    /\ MaxLosses \in Nat /\ MaxTimeouts \in Nat
    /\ EnablePreAuth \in BOOLEAN /\ CleanStops \in BOOLEAN /\ Duplicates \in BOOLEAN

VARIABLES
    node,     \* the memory of each replica: EntityInfo and EntryInfo
    plog,     \* the record of the entry in each replica's plog
    db,       \* the replicas whose Db has committed the entry
    net,      \* the messages in flight
    used,     \* the values clients have written
    acked,    \* the values whose write was answered kRetCodeOk
    staleRead,\* a read was answered Ok although a write was answered before it
    reads, crashes, plogErrors, evictions, cleanups, losses, timeouts  \* the counters of the bounds

vars == <<node, plog, db, net, used, acked, staleRead,
          reads, crashes, plogErrors, evictions, cleanups, losses, timeouts>>

Entry == 1
NoPeer == -1      \* kInvalidAcceptorId
NoEntry == -1     \* kInvalidEntry

-----------------------------------------------------------------------------
(* Commands and messages.                                                  *)

(* A client command.  stale is a history variable: some write had been     *)
(* answered Ok when the command was issued.                                *)
ClientCmd ==
    {c \in [kind : {"none", "write", "read"}, value : Values \cup {NoValue},
            value_id : Nat, uuid : Nat, stale : BOOLEAN] :
        c.kind = "write" => c.value \in Values}
NoCmd == [kind |-> "none", value |-> NoValue, value_id |-> 0, uuid |-> 0,
          stale |-> FALSE]

(* A PaxosCmd in the view of its sender "from".                            *)
PaxosCmd == [from : Acceptors, to : Acceptors, local : Record, peer : Record,
             max_chosen : 0 .. Entry, check_empty : BOOLEAN, uuid : Nat,
             fast_failed : BOOLEAN]

(* The optional messages of waiting_msg and waiting_msgs.                  *)
Waiting == {w \in SUBSET PaxosCmd : \A x, y \in w : x = y}

(* A record whose value the other side is known to have is sent without it.*)
RemoveValueInRecord(m) ==
    IF m.peer.value_id = 0 THEN m
    ELSE [m EXCEPT
        !.local = IF m.local.value_id = m.peer.value_id
                  THEN [@ EXCEPT !.value = NoValue, !.id_only = TRUE] ELSE @,
        !.peer  = [@ EXCEPT !.value = NoValue, !.id_only = TRUE]]

(* The same command sent back by its receiver.                             *)
SendBack(m) == [m EXCEPT !.from = m.to, !.to = m.from,
                         !.local = m.peer, !.peer = m.local]

-----------------------------------------------------------------------------
(* The state of a replica.                                                 *)
(*   loaded    the EntityInfo exists                                       *)
(*   op        the request at the PlogWorker: "load" of the entity         *)
(*             (loading), "get" or "set" of the entry (uncertain)          *)
(*   mem       the EntryInfo exists; recs is its machine, empty_flags its  *)
(*             empty_flags_, old its place in old_chosen_list_             *)
(*   drain     inside the loop of HandleWaitingMsg, called by the handler  *)
(*             of a "get" or a "set" response                              *)
(*   committing  the chosen value is in the queue of the DbWorker          *)
(*   ok        no assertion of the code has failed                         *)
Node == [loaded : BOOLEAN, op : {"none", "load", "get", "set"},
         max_chosen : 0 .. Entry, max_cont : 0 .. Entry, max_plog : 0 .. Entry,
         pre_auth : NoEntry .. Entry, active_peer : Acceptors,
         client : ClientCmd, waiting_msg : Waiting,
         mem : BOOLEAN, old : BOOLEAN, recs : Machine,
         empty_flags : SUBSET Acceptors,
         broadcast : BOOLEAN, compensate : BOOLEAN,
         peer_to_sync : Acceptors \cup {NoPeer},
         waiting_msgs : [Acceptors -> Waiting],
         drain : {"no", "get", "set"}, committing : BOOLEAN, ok : BOOLEAN,
         out : SUBSET PaxosCmd, done : ClientCmd]

NoWaiting == [a \in Acceptors |-> {}]

EntityAbsent_PeerOutOfRange(i) ==  \* mutant: the first active peer without the modulo
    [loaded |-> FALSE, op |-> "none", max_chosen |-> 0, max_cont |-> 0,
     max_plog |-> 0, pre_auth |-> NoEntry, active_peer |-> i + 1,
     client |-> NoCmd, waiting_msg |-> {}, mem |-> FALSE, old |-> FALSE,
     recs |-> NewMachine, empty_flags |-> {}, broadcast |-> FALSE,
     compensate |-> FALSE, peer_to_sync |-> NoPeer, waiting_msgs |-> NoWaiting,
     drain |-> "no", committing |-> FALSE, ok |-> TRUE, out |-> {}, done |-> NoCmd]

(* A replica without an EntityInfo; CreateEntityInfo starts from it too.   *)
EntityAbsent(i) ==
    [loaded |-> FALSE, op |-> "none", max_chosen |-> 0, max_cont |-> 0,
     max_plog |-> 0, pre_auth |-> IF i = 0 THEN 0 ELSE NoEntry,
     active_peer |-> (i + 1) % AcceptorNum, client |-> NoCmd,
     waiting_msg |-> {}, mem |-> FALSE, old |-> FALSE, recs |-> NewMachine,
     empty_flags |-> {}, broadcast |-> FALSE, compensate |-> FALSE,
     peer_to_sync |-> NoPeer, waiting_msgs |-> NoWaiting, drain |-> "no",
     committing |-> FALSE, ok |-> TRUE, out |-> {}, done |-> NoCmd]

uncertain_OnlyGet(S) == S.op = "get"  \* mutant: not set while the record is stored

uncertain(S) == S.op \in {"get", "set"}

loading(S) == S.op = "load"
state(i, S) == entry_state(i, S.recs)
Check(S, b) == [S EXCEPT !.ok = @ /\ b]

FinishOk(S) == [S EXCEPT !.done = S.client, !.client = NoCmd]
FinishErr(S) == [S EXCEPT !.client = NoCmd]

DestroyEntryInfo(S) ==
    [S EXCEPT !.mem = FALSE, !.old = FALSE, !.recs = NewMachine,
              !.empty_flags = {}, !.broadcast = FALSE, !.compensate = FALSE,
              !.peer_to_sync = NoPeer, !.waiting_msgs = NoWaiting]

ClearEntryInfo(S) == DestroyEntryInfo(FinishErr(S))

(* A request to the PlogWorker; pushed is FALSE when its queue is full.    *)
StoreEntryInfo(S) == [Check(S, ~uncertain(S)) EXCEPT !.op = "set"]

(* CreateEntryInfoIfMiss, when MakeEnoughRoom finds room: the entry is     *)
(* read from the plog only when the plog had it when the entity was loaded.*)
CreateEntryInfoIfMiss(S, pushed) ==
    IF S.mem \/ (S.max_plog >= Entry /\ ~pushed) THEN S
    ELSE [S EXCEPT !.mem = TRUE,
                   !.op = IF S.max_plog < Entry THEN S.op ELSE "get"]

(* Whether it returns an EntryInfo.                                        *)
EntryInfoAvailable(S, pushed) == CreateEntryInfoIfMiss(S, pushed).mem

-----------------------------------------------------------------------------
(* Sending.                                                                *)

Send(S, m) == [S EXCEPT !.out = @ \cup {RemoveValueInRecord(m)}]

SyncMsg(i, S, p) ==
    [from |-> i, to |-> p, local |-> S.recs[i], peer |-> S.recs[p],
     max_chosen |-> S.max_chosen, check_empty |-> FALSE, uuid |-> 0,
     fast_failed |-> FALSE]

SyncToPeers(i, S, P) ==
    [S EXCEPT !.out = @ \cup {RemoveValueInRecord(SyncMsg(i, S, p)) : p \in P}]

Peers(i) == Acceptors \ {i}

Broadcast(i, S) == SyncToPeers(i, S, Peers(i))

BroadcastCheckEmpty(i, S) ==
    [S EXCEPT !.out = @ \cup
        {[SyncMsg(i, S, p) EXCEPT !.local = EmptyRecord, !.peer = EmptyRecord,
                                  !.check_empty = TRUE, !.uuid = S.client.uuid]
            : p \in Peers(i)}]

BroadcastOnAccept(i, S) ==
    SyncToPeers(i, S, {p \in Peers(i) :
        p = S.peer_to_sync \/ HasPromisedMyProposal(i, S.recs, p)})

BroadcastOnChosen_OnlyLast(i, S) ==  \* mutant: the messages before it are not compensated
    SyncToPeers(i, S, {p \in Peers(i) : ~S.recs[p].chosen /\ p = S.peer_to_sync})

BroadcastOnChosen(i, S) ==
    SyncToPeers(i, S, {p \in Peers(i) :
        /\ ~S.recs[p].chosen
        /\ p = S.peer_to_sync \/ HasAcceptedMyProposal(i, S.recs, p)})

-----------------------------------------------------------------------------
(* Progress of the entity.                                                 *)

UpdateByChosenEntry(i, S) ==
    IF state(i, S) # "Chosen" THEN S
    ELSE LET next == S.max_cont + 1 = Entry IN
         [S EXCEPT !.max_chosen = Entry,
                   !.pre_auth = IF HasAcceptedMyProposal(i, S.recs, i)
                                THEN Entry ELSE @,
                   !.max_cont = Entry,
                   !.old = @ \/ next, !.committing = @ \/ next]

(* TryCatchup.  cu stands for the clock and the two rate limiters:         *)
(* "none": not even a missing EntryInfo is created, "get": it is, but the  *)
(* peer is not asked, "sync": it is.                                       *)
TryCatchup(i, S, pushed, cu) ==
    IF S.max_cont = S.max_chosen \/ (~S.mem /\ cu = "none") THEN S
    ELSE LET T == CreateEntryInfoIfMiss(S, pushed) IN
         IF ~T.mem \/ uncertain(T) THEN T
         ELSE IF state(i, T) = "Chosen" THEN UpdateByChosenEntry(i, T)
         ELSE IF cu = "sync" THEN SyncToPeers(i, T, {T.active_peer})
         ELSE T

-----------------------------------------------------------------------------
(* Client commands.                                                        *)

(* HandleWriteCmd, when the queue of the PlogWorker takes the record.      *)
HandleWriteCmd(i, S, pushed) ==
    LET pre_auth == EnablePreAuth /\ S.pre_auth # NoEntry
                                  /\ S.pre_auth + 1 = Entry
        promised == Promise(i, S.recs, pre_auth)
        P == [S EXCEPT !.recs = promised,
                       !.client = [@ EXCEPT !.value_id = promised[i].promised]]
        A == Check([P EXCEPT !.recs = Accept(i, promised, P.client.value,
                                              P.client.value_id)],
                   PreparedValueAccepted(promised))
        Q == IF IsLocalAcceptable(i, promised)
             THEN Check(A, state(i, A) = "AcceptLocal") ELSE P
    IN IF entry_state(i, promised) # "PromiseLocal" THEN FinishErr(P)
       ELSE IF ~pushed THEN ClearEntryInfo(Q)
       ELSE [StoreEntryInfo(Q) EXCEPT !.broadcast = TRUE]

HandleReadCmd(i, S, pushed) ==
    IF ~IsLocalEmpty(i, S.recs) THEN HandleWriteCmd(i, S, pushed)
    ELSE BroadcastCheckEmpty(i, [S EXCEPT !.empty_flags = {i}])

(* HandleClientCmd from where the command is the entity's client_cmd.      *)
DispatchClientCmd(i, S, pushed, cu) ==
    IF Entry # S.max_chosen + 1 THEN TryCatchup(i, FinishErr(S), pushed, cu)
    ELSE IF ~EntryInfoAvailable(S, pushed) THEN FinishErr(S)
    ELSE LET T == CreateEntryInfoIfMiss(S, pushed) IN
         IF uncertain(T) THEN FinishErr(T)
         ELSE IF S.client.kind = "write" THEN HandleWriteCmd(i, T, pushed)
         ELSE HandleReadCmd(i, T, pushed)

HandleClientCmd(i, S, cmd, pushed, cu) ==
    LET T == [S EXCEPT !.client = cmd] IN
    IF ~S.loaded
    THEN IF pushed THEN [T EXCEPT !.loaded = TRUE, !.op = "load"] ELSE S
    ELSE IF loading(S) THEN T
    ELSE DispatchClientCmd(i, T, pushed, cu)

-----------------------------------------------------------------------------
(* Messages from peers.                                                    *)

RestoreValue(S, m) ==
    LET restored(r) == IF r.id_only THEN RestoreValueInRecord(S.recs, r) ELSE r
    IN [m EXCEPT !.local = restored(@), !.peer = restored(@)]

HandleIfLocalChosen_OnlyInMemory(i, S, m, r) ==  \* mutant: the plog is not asked
    IF m.local.chosen \/ ~S.mem THEN S
    ELSE Send(S, [SendBack(m) EXCEPT !.local = [S.recs[i] EXCEPT !.chosen = TRUE]])

(* HandleIfLocalChosen: the condition, and the answer.  An entry that has  *)
(* left the memory is answered by the PlogReadonlyWorker from the plog     *)
(* record r.                                                               *)
LocalChosen(i, S) ==
    (S.mem /\ state(i, S) = "Chosen") \/ Entry <= S.max_cont

HandleIfLocalChosen(i, S, m, r) ==
    IF m.local.chosen THEN S
    ELSE LET mine == IF S.mem THEN S.recs[i] ELSE r IN
         Send(S, [SendBack(m) EXCEPT !.local = [mine EXCEPT !.chosen = TRUE]])

(* The last part of UpdateMachineByPaxosCmd: the answer to a check_empty,  *)
(* and the empty reply that a local read waits for.                        *)
AnswersMyRead_AnyRead(S, m) == S.client.kind = "read"  \* mutant: the uuid is not compared

AnswersMyRead(S, m) == S.client.kind = "read" /\ m.uuid = S.client.uuid

CountEmpty(i, S, m) ==
    IF ~AnswersMyRead(S, m) THEN S
    ELSE IF ~IsLocalEmpty(i, S.recs) THEN FinishErr(S)
    ELSE LET T == [S EXCEPT !.empty_flags = @ \cup {m.from}] IN
         IF 2 * Cardinality(T.empty_flags) > AcceptorNum THEN FinishOk(T) ELSE T

(* UpdateMachineByPaxosCmd: the machine follows the peer, accepts when a   *)
(* majority has promised, and the result is stored before it is sent.      *)
AcceptIfPromised(i, S) ==
    IF state(i, S) # "MajorityPromise" THEN S
    ELSE LET mine == S.client.kind # "none"
             recs == Accept(i, S.recs, IF mine THEN S.client.value ELSE NoValue,
                            IF mine THEN S.client.value_id ELSE S.recs[i].promised)
             T == Check([S EXCEPT !.recs = recs], entry_state(i, recs) = "AcceptLocal")
         IN IF PreparedValueAccepted(S.recs) THEN T ELSE FinishErr(T)

UpdateMachineByPaxosCmd(i, S, m, pushed) ==
    LET U == [S EXCEPT !.recs = Update(i, m.from, S.recs, m.local)]
        T == Check(AcceptIfPromised(i, U), CalcAsserts(U.recs[i]))
        compensate == /\ state(i, U) # state(i, S)
                      /\ state(i, U) \in {"MajorityPromise", "Chosen"}
        need_sync     == IsRecordNewer(m.peer, T.recs[i])
        local_updated == IsRecordNewer(S.recs[i], T.recs[i])
    IN IF ~UpdateAccepts(m.local) THEN S
       ELSE IF local_updated /\ ~pushed THEN ClearEntryInfo(T)
       ELSE IF local_updated
       THEN CountEmpty(i, [StoreEntryInfo(T) EXCEPT
                !.peer_to_sync = IF need_sync THEN m.from ELSE @,
                !.compensate = IF need_sync THEN compensate ELSE @], m)
       ELSE IF need_sync THEN CountEmpty(i, SyncToPeers(i, T, {m.from}), m)
       ELSE IF m.check_empty
       THEN Send(Check(T, IsLocalEmpty(i, T.recs)),
                 [SendBack(m) EXCEPT !.check_empty = FALSE])
       ELSE CountEmpty(i, T, m)

LearnMaxChosen(S, m) ==
    IF S.max_chosen < m.max_chosen
    THEN [S EXCEPT !.max_chosen = m.max_chosen, !.active_peer = m.from] ELSE S

FastFail(S, m) ==
    Send(S, [SendBack(m) EXCEPT !.max_chosen = S.max_chosen,
                                !.fast_failed = TRUE, !.check_empty = FALSE])

(* HandlePaxosCmd with its entity in memory and loaded.                    *)
HandleLoadedPaxosCmd(i, S, m, r, pushed, cu) ==
    LET L == LearnMaxChosen(S, m)
        mine == L.client.kind # "none" /\ L.client.uuid = m.uuid
        T == CreateEntryInfoIfMiss(L, pushed)
        c == RestoreValue(T, m)
    IN IF m.check_empty /\ Entry <= L.max_chosen THEN FastFail(L, m)
       ELSE IF m.fast_failed
       THEN TryCatchup(i, IF mine THEN FinishErr(L) ELSE L, pushed, cu)
       ELSE IF LocalChosen(i, L) THEN HandleIfLocalChosen(i, L, m, r)
       ELSE IF ~EntryInfoAvailable(L, pushed) THEN L
       ELSE IF uncertain(T)
       THEN [T EXCEPT !.waiting_msgs = [@ EXCEPT ![m.from] = {c}]]
       ELSE TryCatchup(i,
                UpdateMachineByPaxosCmd(i,
                    Check(T, ~T.broadcast /\ T.peer_to_sync = NoPeer), c, pushed),
                pushed, cu)

HandlePaxosCmd(i, S, m, r, pushed, cu) ==
    IF ~S.loaded
    THEN IF pushed
         THEN [S EXCEPT !.loaded = TRUE, !.op = "load", !.waiting_msg = {m}]
         ELSE S
    ELSE IF loading(S) THEN [S EXCEPT !.waiting_msg = {m}]
    ELSE HandleLoadedPaxosCmd(i, S, m, r, pushed, cu)

-----------------------------------------------------------------------------
(* HandleWaitingMsg: the loop over the messages that came while the entry  *)
(* was uncertain.  One iteration is one step; until the loop ends the      *)
(* replica does nothing else for the entity.                               *)

(* The test before the next iteration, and what the caller does after the  *)
(* last one.                                                               *)
EndOfLoop_NoLoop(i, S, pushed, cu) == [S EXCEPT !.drain = "no"]  \* mutant: never called

EndOfLoop(i, S, pushed, cu) ==
    IF S.drain # "no" /\ S.mem /\ ~uncertain(S) /\ S.waiting_msgs # NoWaiting
    THEN S
    ELSE IF S.drain = "get"
    THEN TryCatchup(i, [S EXCEPT !.drain = "no"], pushed, cu)
    ELSE [S EXCEPT !.drain = "no"]

NextWaiting(S) ==
    CHOOSE a \in Acceptors : /\ S.waiting_msgs[a] # {}
                             /\ \A b \in Acceptors : S.waiting_msgs[b] # {} => a <= b

HandleWaitingMsg(i, S, r, pushed, cu) ==
    LET a == NextWaiting(S)
        m == CHOOSE x \in S.waiting_msgs[a] : TRUE
        T == [S EXCEPT !.waiting_msgs = [@ EXCEPT ![a] = {}]]
    IN EndOfLoop(i, HandleLoadedPaxosCmd(i, T, m, r, pushed, cu), pushed, cu)

-----------------------------------------------------------------------------
(* Responses of the PlogWorker.                                            *)

(* What HandleSetFromPlog sends once the record is persistent.             *)
SyncPersistent(i, S) ==
    IF S.broadcast THEN Broadcast(i, S)
    ELSE IF ~S.compensate THEN SyncToPeers(i, S, {S.peer_to_sync})
    ELSE IF state(i, S) = "AcceptLocal" THEN BroadcastOnAccept(i, S)
    ELSE IF state(i, S) = "Chosen" THEN BroadcastOnChosen(i, S)
    ELSE S

(* The client command is answered Ok when its own value is the chosen one. *)
FinishIfChosen_AnyValue(i, S) ==  \* mutant: the value ids are not compared
    IF state(i, S) = "Chosen" /\ S.client.kind # "none" THEN FinishOk(S) ELSE S

FinishIfChosen(i, S) ==
    IF /\ state(i, S) = "Chosen" /\ S.client.kind # "none"
       /\ S.client.value_id = S.recs[i].value_id
    THEN FinishOk(S) ELSE S

HandleSetFromPlog(i, S, success) ==
    LET U == [S EXCEPT !.op = "none"]
        W == FinishIfChosen(i, UpdateByChosenEntry(i, U))
    IN IF ~success THEN ClearEntryInfo(U)
       ELSE IF ~W.broadcast /\ W.peer_to_sync = NoPeer THEN W
       ELSE EndOfLoop(i, [SyncPersistent(i, W) EXCEPT
                !.broadcast = FALSE, !.compensate = FALSE,
                !.peer_to_sync = NoPeer, !.drain = "set"], TRUE, "none")

HandleGetFromPlog(i, S, r, success, pushed, cu) ==
    LET U == [S EXCEPT !.op = "none"]
    IN IF ~success THEN ClearEntryInfo(U)
       ELSE IF ~UpdateAccepts(r) THEN U
       ELSE LET V == [U EXCEPT !.recs = Update(i, i, U.recs, r)] IN
            EndOfLoop(i, [UpdateByChosenEntry(i, V) EXCEPT !.drain = "get"],
                      pushed, cu)

UpdateByLoadFromPlog_OnlyCommitted(S, r, c) ==  \* mutant: max_plog_entry from the Db
    LET committed == IF c THEN Entry ELSE 0
    IN [S EXCEPT !.op = "none", !.max_plog = committed,
                 !.max_chosen = committed, !.max_cont = committed]

(* UpdateByLoadFromPlog: r is the plog record, c whether the Db has        *)
(* committed the entry.                                                    *)
UpdateByLoadFromPlog(S, r, c) ==
    LET committed == IF c THEN Entry ELSE 0
        in_plog   == IF r = EmptyRecord THEN committed ELSE Entry
    IN [S EXCEPT !.op = "none", !.max_plog = in_plog,
                 !.max_chosen = committed, !.max_cont = committed]

(* HandleLoadFromPlog: the last message and then the command that waited.  *)
HandleLoadFromPlog(i, S, r, c, pushed, cu) ==
    LET U == [UpdateByLoadFromPlog(S, r, c) EXCEPT !.waiting_msg = {}]
        V == IF S.waiting_msg = {} THEN U
             ELSE HandleLoadedPaxosCmd(i, U, CHOOSE m \in S.waiting_msg : TRUE,
                                       r, pushed, cu)
    IN IF V.client.kind = "none" THEN V ELSE DispatchClientCmd(i, V, pushed, cu)

-----------------------------------------------------------------------------
(* The actions.                                                            *)

(* Replica i goes to state S; the messages of N0 stay in flight.           *)
Go(i, S, N0) ==
    /\ node' = [node EXCEPT ![i] = [S EXCEPT !.out = {}, !.done = NoCmd]]
    /\ net' = N0 \cup S.out
    /\ acked' = IF S.done.kind = "write" THEN acked \cup {S.done.value} ELSE acked
    /\ staleRead' = (staleRead \/ (S.done.kind = "read" /\ S.done.stale))

(* The queues of the PlogWorker take a request, or are full.               *)
PlogQueue(pushed) ==
    /\ pushed \/ plogErrors < MaxPlogErrors
    /\ plogErrors' = IF pushed THEN plogErrors ELSE plogErrors + 1

(* The PlogWorker's operation succeeds, or fails.                          *)
PlogResult(success) == PlogQueue(success)

Idle(i) == node[i].drain = "no"

CatchupChoices == {"none", "get", "sync"}

(* The choices that differ when replica i hears of the chosen entry n:     *)
(* TryCatchup does nothing when the entity is not behind.                  *)
CatchupChoicesAt(i, n) ==
    IF node[i].max_chosen = node[i].max_cont /\ n <= node[i].max_cont
    THEN {"none"} ELSE CatchupChoices

ClientWrite(i, v) ==
    /\ Idle(i) /\ node[i].client.kind = "none" /\ v \notin used
    /\ \E pushed \in BOOLEAN, cu \in CatchupChoices :
        /\ PlogQueue(pushed)
        /\ Go(i, HandleClientCmd(i, node[i],
                 [NoCmd EXCEPT !.kind = "write", !.value = v], pushed, cu), net)
    /\ used' = used \cup {v}
    /\ UNCHANGED <<plog, db, reads, crashes, evictions, cleanups, losses, timeouts>>

(* The uuid that HandleClientCmd gives the read when it is dispatched is    *)
(* chosen here: it is only compared.                                        *)
ClientRead(i) ==
    /\ Idle(i) /\ node[i].client.kind = "none" /\ reads < MaxReads
    /\ \E pushed \in BOOLEAN, cu \in CatchupChoices :
        /\ PlogQueue(pushed)
        /\ Go(i, HandleClientCmd(i, node[i],
                 [NoCmd EXCEPT !.kind = "read", !.uuid = reads + 1,
                               !.stale = acked # {}], pushed, cu), net)
    /\ reads' = reads + 1
    /\ UNCHANGED <<plog, db, used, crashes, evictions, cleanups, losses, timeouts>>

(* The timer finishes the client command with kRetCodeTimeout.             *)
ClientTimeout(i) ==
    /\ Idle(i) /\ node[i].client.kind # "none" /\ timeouts < MaxTimeouts
    /\ timeouts' = timeouts + 1
    /\ Go(i, FinishErr(node[i]), net)
    /\ UNCHANGED <<plog, db, used, reads, crashes, plogErrors, evictions, cleanups, losses>>

ReceivePaxosCmd(m) ==
    LET i == m.to IN
    /\ Idle(i)
    /\ \E pushed \in BOOLEAN, cu \in CatchupChoicesAt(i, m.max_chosen) :
        /\ PlogQueue(pushed)
        /\ Go(i, HandlePaxosCmd(i, node[i], m, plog[i], pushed, cu),
              IF Duplicates THEN net ELSE net \ {m})
    /\ UNCHANGED <<plog, db, used, reads, crashes, evictions, cleanups, losses, timeouts>>

(* MsgWorker::GoAndDeleteIfFailed and MsgChannel::Write drop what does not *)
(* fit, and a connection that breaks loses what it has not delivered.      *)
LoseMessage(m) ==
    /\ losses < MaxLosses
    /\ losses' = losses + 1
    /\ net' = net \ {m}
    /\ UNCHANGED <<node, plog, db, used, acked, staleRead,
                   reads, crashes, plogErrors, evictions, cleanups, timeouts>>

(* The PlogWorker stores the local record and the response is handled.     *)
(* A failed write may nevertheless have reached the disk.                  *)
PlogSetRecord(i) ==
    /\ Idle(i) /\ node[i].op = "set"
    /\ \E success \in BOOLEAN, written \in BOOLEAN :
        /\ PlogResult(success)
        /\ success => written
        /\ plog' = IF written THEN [plog EXCEPT ![i] = node[i].recs[i]] ELSE plog
        /\ Go(i, HandleSetFromPlog(i, node[i], success), net)
    /\ UNCHANGED <<db, used, reads, crashes, evictions, cleanups, losses, timeouts>>

PlogGetRecord(i) ==
    /\ Idle(i) /\ node[i].op = "get"
    /\ \E success \in BOOLEAN, pushed \in BOOLEAN, cu \in CatchupChoices :
        /\ PlogResult(success /\ pushed)
        /\ Go(i, HandleGetFromPlog(i, node[i], plog[i], success, pushed, cu), net)
    /\ UNCHANGED <<plog, db, used, reads, crashes, evictions, cleanups, losses, timeouts>>

(* A failed load destroys the EntityInfo again.                            *)
PlogLoad(i) ==
    /\ Idle(i) /\ node[i].op = "load"
    /\ \E success \in BOOLEAN, pushed \in BOOLEAN, cu \in CatchupChoices :
        /\ PlogResult(success /\ pushed)
        /\ Go(i, IF success
                 THEN HandleLoadFromPlog(i, node[i], plog[i], i \in db, pushed, cu)
                 ELSE EntityAbsent(i), net)
    /\ UNCHANGED <<plog, db, used, reads, crashes, evictions, cleanups, losses, timeouts>>

DrainWaitingMsg(i) ==
    /\ ~Idle(i)
    /\ \E pushed \in BOOLEAN, cu \in CatchupChoices :
        /\ PlogQueue(pushed)
        /\ Go(i, HandleWaitingMsg(i, node[i], plog[i], pushed, cu), net)
    /\ UNCHANGED <<plog, db, used, reads, crashes, evictions, cleanups, losses, timeouts>>

IterateAndCatchup(i) ==
    /\ Idle(i) /\ node[i].loaded /\ node[i].max_cont # node[i].max_chosen
    /\ \E pushed \in BOOLEAN, cu \in CatchupChoices :
        /\ PlogQueue(pushed)
        /\ Go(i, TryCatchup(i, node[i], pushed, cu), net)
    /\ UNCHANGED <<plog, db, used, reads, crashes, evictions, cleanups, losses, timeouts>>

(* A chosen entry leaves the memory some time after it was chosen.         *)
CleanupExpiredChosenEntry(i) ==
    /\ Idle(i) /\ node[i].mem /\ node[i].old /\ cleanups < MaxCleanups
    /\ cleanups' = cleanups + 1
    /\ Go(i, DestroyEntryInfo(Check(node[i], ~uncertain(node[i]))), net)
    /\ UNCHANGED <<plog, db, used, reads, crashes, plogErrors, evictions, losses, timeouts>>

(* MakeEnoughRoom, called for another entry, removes this one: a chosen    *)
(* one, or else the one that was not used for the longest time, unless it  *)
(* is uncertain.                                                           *)
MakeEnoughRoom(i) ==
    /\ Idle(i) /\ node[i].mem /\ evictions < MaxEvictions
    /\ node[i].old \/ ~uncertain(node[i])
    /\ evictions' = evictions + 1
    /\ Go(i, DestroyEntryInfo(Check(node[i], ~uncertain(node[i]))), net)
    /\ UNCHANGED <<plog, db, used, reads, crashes, plogErrors, cleanups, losses, timeouts>>

(* The process stops and starts again.  A write at the PlogWorker or a     *)
(* commit at the DbWorker may have taken place before.                     *)
Crash(i) ==
    /\ crashes < MaxCrashes /\ node[i].loaded
    /\ CleanStops => node[i].op # "set"
    /\ crashes' = crashes + 1
    /\ \E written \in BOOLEAN, committed \in BOOLEAN :
        /\ written => node[i].op = "set"
        /\ committed => node[i].committing
        /\ plog' = IF written THEN [plog EXCEPT ![i] = node[i].recs[i]] ELSE plog
        /\ db' = IF committed THEN db \cup {i} ELSE db
    /\ Go(i, EntityAbsent(i), net)
    /\ UNCHANGED <<used, reads, plogErrors, evictions, cleanups, losses, timeouts>>

Init ==
    /\ node = [i \in Acceptors |-> [EntityAbsent(i) EXCEPT !.loaded = TRUE]]
    /\ plog = [i \in Acceptors |-> EmptyRecord]
    /\ db = {}
    /\ net = {}
    /\ used = {} /\ acked = {} /\ staleRead = FALSE
    /\ reads = 0 /\ crashes = 0 /\ plogErrors = 0
    /\ evictions = 0 /\ cleanups = 0 /\ losses = 0 /\ timeouts = 0

Next ==
    \/ \E i \in Writers, v \in Values : ClientWrite(i, v)
    \/ \E i \in Readers : ClientRead(i)
    \/ \E m \in net : ReceivePaxosCmd(m) \/ LoseMessage(m)
    \/ \E i \in Acceptors :
        \/ ClientTimeout(i)
        \/ PlogSetRecord(i)
        \/ PlogGetRecord(i)
        \/ PlogLoad(i)
        \/ DrainWaitingMsg(i)
        \/ IterateAndCatchup(i)
        \/ CleanupExpiredChosenEntry(i)
        \/ MakeEnoughRoom(i)
        \/ Crash(i)

Spec == Init /\ [][Next]_vars

(* What the code keeps doing: a connection delivers what it was given, the *)
(* PlogWorker answers, the loop of HandleWaitingMsg goes on, and the       *)
(* catch-up timer is armed again as long as the entity is behind.  Nothing *)
(* is asked of the clients, the timeouts or the faults.                    *)
(*                                                                         *)
(* Each conjunct is weak fairness of an action, with the condition under   *)
(* which a step of it that changes something is possible spelled out.      *)
CanCatchup(i) ==
    LET S == node[i] IN
    /\ Idle(i) /\ S.loaded /\ S.max_cont # S.max_chosen
    /\ S.mem => /\ ~uncertain(S)
                /\ \/ state(i, S) = "Chosen"
                   \/ RemoveValueInRecord(SyncMsg(i, S, S.active_peer)) \notin net

Fairness ==
    /\ \A i, j \in Acceptors :
        \/ []<>~(Idle(j) /\ \E m \in net : m.from = i /\ m.to = j)
        \/ []<><<\E m \in net : m.from = i /\ m.to = j /\ ReceivePaxosCmd(m)>>_vars
    /\ \A i \in Acceptors :
        /\ []<>~(Idle(i) /\ node[i].op = "set") \/ []<><<PlogSetRecord(i)>>_vars
        /\ []<>~(Idle(i) /\ node[i].op = "get") \/ []<><<PlogGetRecord(i)>>_vars
        /\ []<>~(Idle(i) /\ node[i].op = "load") \/ []<><<PlogLoad(i)>>_vars
        /\ []<>Idle(i) \/ []<><<DrainWaitingMsg(i)>>_vars
        /\ []<>~CanCatchup(i) \/ []<><<IterateAndCatchup(i)>>_vars

FairSpec == Spec /\ Fairness

-----------------------------------------------------------------------------
(* Properties.                                                             *)

(* Every field of the replicas, the plogs and the messages stays in its    *)
(* domain: no proposal number becomes negative, an active peer or a peer   *)
(* to sync is an acceptor, max_chosen_entry does not pass the last entry,  *)
(* a write command has a value, and the bounds are kept.                   *)
TypeOK ==
    /\ node \in [Acceptors -> Node]
    /\ plog \in [Acceptors -> Record]
    /\ db \subseteq Acceptors
    /\ net \subseteq PaxosCmd
    /\ used \subseteq Values /\ acked \subseteq Values
    /\ staleRead \in BOOLEAN
    /\ reads \in 0 .. MaxReads /\ crashes \in 0 .. MaxCrashes
    /\ plogErrors \in 0 .. MaxPlogErrors /\ evictions \in 0 .. MaxEvictions
    /\ cleanups \in 0 .. MaxCleanups /\ losses \in 0 .. MaxLosses
    /\ timeouts \in 0 .. MaxTimeouts

(* What replica i takes for chosen, in its memory or in its plog.          *)
ChosenAt(i) ==
    {r \in {node[i].recs[i], plog[i]} : r.chosen}

(* Two replicas never take different values for the chosen value of the    *)
(* entry, whatever proposals race for it.                                  *)
Agreement ==
    \A i, j \in Acceptors : \A r \in ChosenAt(i), s \in ChosenAt(j) :
        r.value_id = s.value_id /\ r.value = s.value

(* No entry was evicted, no plog operation has failed, and no process was  *)
(* stopped while its PlogWorker had a record to write.                     *)
Undamaged == evictions + plogErrors = 0 /\ (CleanStops \/ crashes = 0)

(* With any number of replicas: as long as nothing is damaged, the records *)
(* that the replicas take for chosen have one value id, however proposals  *)
(* race, messages are lost, repeated or overtake each other and processes  *)
(* restart.  (The values can differ when there are more than three, run    *)
(* "lost_value"; what an eviction does, run "evicted" shows.)              *)
ChosenIdsAgree ==
    Undamaged => \A i, j \in Acceptors : \A r \in ChosenAt(i), s \in ChosenAt(j) :
        r.value_id = s.value_id

(* With any number of replicas: as long as nothing is damaged, at most one *)
(* of the clients' values is ever answered kRetCodeOk or is the value of a *)
(* record that a replica takes for chosen.  Two ids of one replica can     *)
(* stand for two writes, of which the first timed out at its client, and a *)
(* chosen record can miss its value (run "lost_value"); it never has the   *)
(* value of another write.                                                 *)
OneWriteWins ==
    Undamaged => \E v \in Values \cup {NoValue} :
        acked \cup {r.value : r \in UNION {ChosenAt(i) : i \in Acceptors}}
            \subseteq {v, NoValue}

(* A write that FinishClientCmd answers with kRetCodeOk is the chosen      *)
(* value, and stays it.                                                    *)
AckedIsChosen ==
    \A v \in acked :
        /\ \E i \in Acceptors : plog[i].chosen /\ plog[i].value = v
        /\ \A i \in Acceptors : \A r \in ChosenAt(i) : r.value = v

(* A read that is answered kRetCodeOk by a majority of empty replicas is   *)
(* never older than a write that was answered before the read was issued.  *)
ReadsAreFresh == ~staleRead

(* What a replica tells its peers is in its plog when it sends it, unless  *)
(* it tells them that the entry is chosen.  (It need not be there later:   *)
(* an eviction or a failed write may let the plog go back.)                *)
SentIsPersistent ==
    [][\A m \in net' \ net :
        m.local.chosen \/ ~IsRecordNewer(plog'[m.from], m.local)]_vars

(* entity_helper.cc:495, "Use local Promised number as value id, which is  *)
(* unique": records with the same value id carry the same value.           *)
ValueIdUnique ==
    LET held == {plog[i] : i \in Acceptors} \cup {node[i].recs[i] : i \in Acceptors}
    IN \A r, s \in held : r.value_id = s.value_id => r.value = s.value

(* entity_helper.cc:581, "After access from plog, this method will be      *)
(* called again": as long as no entry is evicted and no plog operation     *)
(* fails, no message stays parked at an entry that is not uncertain any    *)
(* more.  (After an eviction a record may be stored for a peer that knows  *)
(* a newer one; then HandleSetFromPlog has nothing to send and returns     *)
(* before the loop.)                                                       *)
NoParkedMsg ==
    evictions + plogErrors = 0 =>
        \A i \in Acceptors :
            Idle(i) /\ ~uncertain(node[i]) => node[i].waiting_msgs = NoWaiting

(* No assert() of EntityHelper and EntryStateMachine fails.                *)
AssertsHold == \A i \in Acceptors : node[i].ok

(* At most one replica skips the prepare phase in the next entry.          *)
PreAuthUnique ==
    \A i, j \in Acceptors :
        node[i].pre_auth = Entry /\ node[j].pre_auth = Entry => i = j

(* As long as no entry is evicted and no plog operation fails, the plog of *)
(* a replica never goes back: a promise is not forgotten, a chosen record  *)
(* stays, an accepted proposal is replaced only by a newer one or by the   *)
(* chosen one.  What an eviction does, run "evicted" shows.                *)
PlogAdvances ==
    [][evictions + plogErrors = 0 =>
        \A i \in Acceptors :
            /\ plog[i].promised <= plog'[i].promised
            /\ plog[i].prepared <= plog'[i].prepared
            /\ plog[i].chosen => plog'[i] = plog[i]
            /\ plog[i].accepted <= plog'[i].accepted \/ plog'[i].chosen]_plog

(* A replica that has heard of the chosen entry gets it in the end,        *)
(* although its peers may have dropped it from memory or restarted; or it  *)
(* forgets that it had heard of it, in a restart of its own.               *)
CaughtUp ==
    \A i \in Acceptors :
        node[i].max_chosen = Entry ~>
            node[i].max_cont = Entry \/ node[i].max_chosen = 0

(* When no message is lost and no process stops, every replica learns of a *)
(* write that was answered Ok: the answers to the messages that came too   *)
(* late to complete a majority, and compensate_msgs, see to it.            *)
AllLearn ==
    \A i \in Acceptors : acked # {} ~> node[i].max_cont = Entry
=============================================================================
