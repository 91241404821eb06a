---------------------------- MODULE CertainCommit ----------------------------
(****************************************************************************)
(* The way of the chosen entries of one entity into the Db of one replica   *)
(* of certain: EntityHelper moves max_cont_chosen_entry over the entries    *)
(* that it knows to be chosen and hands each to the DbWorker; what comes    *)
(* too early goes to the DbLimitedWorker, which reads the gap back from the *)
(* plog; Wrapper::Replay does the same for a caller that must not wait; and *)
(* the RecoverWorker replaces the Db by a peer's snapshot when the peers no *)
(* longer have the entries that are missing.                                *)
(*                                                                          *)
(* Consensus is abstract here (CertainEntry has it): every entry has one    *)
(* chosen value, written as the number of the entry, and the replica learns *)
(* it at any time and in any order.                                         *)
(****************************************************************************)
EXTENDS Integers, Sequences, FiniteSetsExt, SequencesExt

CONSTANTS
    MaxEntry,       \* the entries are 1 .. MaxEntry
    MaxCatchupNum,  \* options: max_catchup_num
    MaxReplayNum,   \* options: max_replay_num
    QueueSize,      \* capacity of the queues between the threads
    Scenarios       \* how many entries are chosen, how many coroutines the
                    \* DbWorker and the DbLimitedWorker have, and how many
                    \* faults (a push, a commit or the call of a peer fails,
                    \* Replay times out), restarts of the process and answers
                    \* of a peer that it has dropped an entry there may be;
                    \* the first peer gives no snapshot before peer

ScenarioType ==
    [entries : 1 .. MaxEntry, routines : Nat \ {0}, faults : Nat,
     restarts : Nat, notfound : Nat, peer : 0 .. MaxEntry]

ASSUME BoundsAssumption ==
    /\ {MaxEntry, MaxCatchupNum, QueueSize} \subseteq Nat \ {0}
    /\ MaxReplayNum \in Nat
    /\ Scenarios \subseteq ScenarioType

VARIABLES
    plog,       \* the local plog: what it holds of every entry
    db,         \* the local Db, in memory: [entry, flag, data],
    dump,       \* and what the file of the DbDumper has of it
    ent,        \* the EntityInfo
    mem,        \* entries above max_cont_chosen_entry chosen in memory
    userq,      \* what TriggerClient has left for the EntityWorker
    dbq,        \* the DbWorker's queue ...
    dbjobs,     \* ... and the commands its coroutines hold
    limq,       \* the DbLimitedWorker's queue,
    pending,    \* the request it keeps for the entity
    limjobs,    \* and the requests of its coroutines
    rec,        \* the RecoverWorker: [req, job, rsp]; snap is the newest
                \* snapshot that was ever put into the Db (history)
    replay,     \* a caller in Wrapper::Replay
    raised,     \* Tick has raised the entry of a request that has a value
    env         \* the scenario, with what may still happen

entity == <<ent, mem, userq>>
workers == <<dbq, dbjobs, limq, pending, limjobs, raised>>
vars == <<plog, db, dump, entity, workers, rec, replay, env>>

Entries == 1 .. MaxEntry
Chosen == 1 .. env.entries
Routines == 1 .. env.routines

(* -1u, which SnapshotRecover stores as the entry of a Db in recovery: a     *)
(* number above every entry.                                                *)
Unset == MaxEntry + MaxCatchupNum + MaxReplayNum + 2

None == [entry |-> 0, value |-> 0]
Cmd(e, v) == [entry |-> e, value |-> v]
Idle == [at |-> "idle", entry |-> 0]
NoRecovery == [req |-> 0, job |-> Idle, rsp |-> <<>>, snap |-> 0]

Faulty == env.faults > 0 /\ env' = [env EXCEPT !.faults = @ - 1]
Fine == UNCHANGED env

(****************************************************************************)
(* The Db.                                                                  *)
(****************************************************************************)
Normal(n, data) == [entry |-> n, flag |-> "normal", data |-> data]
InRecovery == [entry |-> Unset, flag |-> "recover", data |-> <<>>]
Snapshot(n) == Normal(n, [e \in 1 .. n |-> e])

(* DbInfo::Update: only the next entry is taken.                            *)
Commit(e, v) ==
    /\ db.entry + 1 = e
    /\ db' = Normal(e, Append(db.data, v))

(* Certain::GetWriteValue finds the chosen value of the entry.              *)
HasWriteValue(e) == e \in Entries /\ plog[e] = "chosen"

(****************************************************************************)
(* EntityHelper.                                                            *)
(****************************************************************************)
Absent == [at |-> "absent", committed |-> 0, max_chosen |-> 0, max_cont |-> 0,
           max_catchup |-> 0, recover_pending |-> FALSE, recent |-> FALSE]

(* CreateEntityInfoIfMiss: the handler's entity; a new one is loading.      *)
Created == IF ent.at = "absent" THEN [Absent EXCEPT !.at = "loading"] ELSE ent

Loaded == ent.at = "loaded"

(* A message of a peer or a client's command comes for the entity.  While   *)
(* it is loading they wait.                                                 *)
CreateEntity ==
    /\ ent.at = "absent"
    /\ ent' = Created
    /\ UNCHANGED <<plog, db, dump, mem, userq, workers, rec, replay, env>>

(* LoadMaxEntry of the PlogReadonlyWorker: the flag of the Db is not looked *)
(* at.  The plog's part can be read later, as nothing is stored in the plog *)
(* while the entity is loading.                                             *)
LoadMaxEntry ==
    /\ ent.at = "loading"
    /\ ent' = [ent EXCEPT !.at = "read", !.committed = db.entry]
    /\ UNCHANGED <<plog, db, dump, mem, userq, workers, rec, replay, env>>

(* UpdateByLoadFromPlog: max_plog_entry and the Db say where to begin.      *)
UpdateByLoadFromPlog ==
    LET max_plog == Max({0} \cup {e \in Entries : plog[e] # "none"})
        n == ent.committed
    IN  [ent EXCEPT !.at = "loaded", !.committed = 0,
                    !.max_chosen = Max({@, max_plog - 1, n}),
                    !.max_cont = Max({@, n}),
                    !.max_catchup = Max({@, n})]

(* HandleLoadFromPlog: an entity that could not be loaded is destroyed,     *)
(* also one that waits for a recovery.                                      *)
HandleLoadFromPlog ==
    /\ ent.at = "read"
    /\ \/ ent' = UpdateByLoadFromPlog /\ Fine
       \/ ent' = Absent /\ Faulty
    /\ UNCHANGED <<plog, db, dump, mem, userq, workers, rec, replay>>

(* The entries n + 1 .. m go to the DbWorker in order; what does not fit in *)
(* the queue is dropped.                                                    *)
Handed(n, m) == [i \in 1 .. m - n |-> Cmd(n + i, n + i)]

GoToDbReqQueue(n, m) ==
    LET q == dbq \o Handed(n, m)
    IN  dbq' = SubSeq(q, 1, Min({Len(q), QueueSize}))

(* Mutant: the entry need not be the next one.                              *)
UpdateByChosenEntry_Jumps(e) ==
    /\ ent' = [ent EXCEPT !.max_chosen = Max({@, e}), !.max_cont = e]
    /\ mem' = {x \in mem : x > e}
    /\ GoToDbReqQueue(e - 1, e)

(* UpdateByChosenEntry on one entry that has become chosen in memory.       *)
UpdateByChosenEntry(e) ==
    LET next == ent.max_cont + 1 = e
    IN  /\ ent' = [ent EXCEPT !.max_chosen = Max({@, e}),
                              !.max_cont = IF next THEN e ELSE @]
        /\ mem' = IF next THEN mem ELSE mem \cup {e}
        /\ GoToDbReqQueue(ent.max_cont, IF next THEN e ELSE ent.max_cont)

(* Mutant: the loop of TryCatchup leaves out its last entry.                *)
CatchupDest_Exclusive(ei) ==
    IF ei.max_cont < ei.max_catchup
    THEN ei.max_catchup
    ELSE Min({ei.max_chosen, ei.max_cont + MaxCatchupNum}) - 1

(* TryCatchup looks at max_cont + 1 .. dest.                                *)
CatchupDest(ei) ==
    IF ei.max_cont < ei.max_catchup
    THEN ei.max_catchup
    ELSE Min({ei.max_chosen, ei.max_cont + MaxCatchupNum})

Catching(ei) == ei.max_cont < ei.max_chosen /\ ~ei.recover_pending

CatchupRange(ei) ==
    IF Catching(ei) THEN (ei.max_cont + 1) .. CatchupDest(ei) ELSE {}

(* TryCatchup: the entries in memory that follow max_cont without a gap are *)
(* handed on; for the others the peers are asked (their answers are Learn   *)
(* and NotFound) or the plog (GetFromPlog).  The entries after n and up to  *)
(* ei.max_cont have been handed on by the caller.                           *)
TryCatchup(n, ei, known) ==
    IF ~Catching(ei)
    THEN /\ ent' = ei
         /\ mem' = known
         /\ GoToDbReqQueue(n, ei.max_cont)
    ELSE \E dest \in {CatchupDest(ei)} :
         \E last \in {Max({m \in ei.max_cont .. dest :
                              (ei.max_cont + 1) .. m \subseteq known})} :
            /\ ent' = [ei EXCEPT !.max_cont = last, !.max_catchup = dest]
            /\ mem' = {e \in known : e > last}
            /\ GoToDbReqQueue(n, last)

(* HandleSetFromPlog for a record that is chosen: a peer's answer or the    *)
(* replica's own proposal.  Entries up to max_cont_chosen_entry are         *)
(* answered by HandleIfLocalChosen and never get here.                      *)
Learn(e) ==
    /\ Loaded
    /\ e > ent.max_cont
    /\ e \notin mem
    /\ plog' = [plog EXCEPT ![e] = "chosen"]
    /\ UpdateByChosenEntry(e)
    /\ UNCHANGED <<db, dump, userq, dbjobs, limq, pending, limjobs, raised, rec,
                   replay, env>>

(* HandleSetFromPlog for a record that is only accepted: no entry is opened *)
(* before the one before it is chosen.                                      *)
Accept(e) ==
    /\ Loaded
    /\ e = ent.max_chosen + 1
    /\ plog[e] = "none"
    /\ plog' = [plog EXCEPT ![e] = "accepted"]
    /\ UNCHANGED <<db, dump, entity, workers, rec, replay, env>>

(* HandleGetFromPlog for an entry that TryCatchup has asked the plog for:   *)
(* UpdateByChosenEntry and the TryCatchup that ends it.                     *)
GetFromPlog(e) ==
    /\ Loaded
    /\ e \in (ent.max_cont + 1) .. ent.max_catchup
    /\ e \notin mem
    /\ plog[e] = "chosen"
    /\ IF ent.max_cont + 1 = e
       THEN TryCatchup(ent.max_cont, [ent EXCEPT !.max_cont = e], mem)
       ELSE TryCatchup(ent.max_cont, ent, mem \cup {e})
    /\ UNCHANGED <<plog, db, dump, userq, dbjobs, limq, pending, limjobs, raised,
                   rec, replay, env>>

(* The clean-up tick, and kCmdCatchup of a client.  An entity that is       *)
(* loading has nothing to catch up with.                                    *)
Tick ==
    /\ ent.at # "absent"
    /\ TryCatchup(ent.max_cont, ent, mem)
    /\ userq' = userq \ {"catchup"}
    /\ UNCHANGED <<plog, db, dump, dbjobs, limq, pending, limjobs, raised, rec,
                   replay, env>>

(* Mutant: recover_pending is set although the push has failed.             *)
TriggerRecover_PushUnchecked(ei, left) ==
    \/ /\ ei.recover_pending \/ ei.recent
       /\ ent' = ei /\ env' = left
       /\ UNCHANGED rec
    \/ /\ ~ei.recover_pending /\ ~ei.recent
       /\ ent' = [ei EXCEPT !.recover_pending = TRUE]
       /\ \/ env' = left /\ rec' = [rec EXCEPT !.req = @ + 1]
          \/ /\ left.faults > 0
             /\ env' = [left EXCEPT !.faults = @ - 1]
             /\ UNCHANGED rec

(* TriggerRecover: nothing while a recovery is under way or has just been;  *)
(* recover_pending is set only when the request is in the queue.  left is   *)
(* the scenario after the event that leads here.                            *)
TriggerRecover(ei, left) ==
    \/ /\ ei.recover_pending \/ ei.recent
       /\ ent' = ei /\ env' = left
       /\ UNCHANGED rec
    \/ /\ ~ei.recover_pending /\ ~ei.recent
       /\ rec.req < QueueSize
       /\ rec' = [rec EXCEPT !.req = @ + 1]
       /\ ent' = [ei EXCEPT !.recover_pending = TRUE]
       /\ env' = left
    \/ /\ ~ei.recover_pending /\ ~ei.recent
       /\ left.faults > 0
       /\ env' = [left EXCEPT !.faults = @ - 1]
       /\ ent' = ei
       /\ UNCHANGED rec

(* HandleClientCmd of kCmdRecover, which does not wait for the entity to be *)
(* loaded.                                                                  *)
RecoverCmd ==
    /\ "recover" \in userq
    /\ userq' = userq \ {"recover"}
    /\ TriggerRecover(Created, env)
    /\ UNCHANGED <<plog, db, dump, mem, workers, replay>>

(* HandlePaxosCmd of a peer's answer that its plog no longer has the entry. *)
NotFound ==
    /\ Loaded
    /\ CatchupRange(ent) \ mem # {}
    /\ env.notfound > 0
    /\ TriggerRecover(ent, [env EXCEPT !.notfound = @ - 1])
    /\ UNCHANGED <<plog, db, dump, mem, userq, workers, replay>>

(* The minute of kRecoverIntervalMsec is over; by then the EntityWorker and *)
(* the RecoverWorker have long done what was in their queues.               *)
RecoverInterval ==
    /\ ent.recent
    /\ userq = {} /\ rec = [NoRecovery EXCEPT !.snap = rec.snap]
    /\ ent' = [ent EXCEPT !.recent = FALSE]
    /\ UNCHANGED <<plog, db, dump, mem, userq, workers, rec, replay, env>>

(* Mutant: max_chosen_entry is not raised.                                  *)
Recovered_ContOnly(ei, n) ==
    [ei EXCEPT !.recover_pending = FALSE, !.recent = TRUE,
               !.max_cont = Max({@, n}),
               !.max_catchup = Max({@, n, ei.max_cont})]

(* HandleRecoverRspCmd.                                                     *)
Recovered(ei, n) ==
    [ei EXCEPT !.recover_pending = FALSE, !.recent = TRUE,
               !.max_chosen = Max({@, n}),
               !.max_cont = Max({@, n}),
               !.max_catchup = Max({@, n, ei.max_cont})]

HandleRecoverRspCmd ==
    /\ rec.rsp # <<>>
    /\ \E rsp \in {Head(rec.rsp)} :
         IF rsp.at = "failed"
         THEN /\ ent' = [Created EXCEPT !.recover_pending = FALSE,
                                        !.recent = TRUE]
              /\ UNCHANGED <<mem, dbq>>
         ELSE \E ei \in {Recovered(Created, rsp.entry)} :
                TryCatchup(ei.max_cont, ei, {e \in mem : e > ei.max_cont})
    /\ rec' = [rec EXCEPT !.rsp = Tail(@)]
    /\ UNCHANGED <<plog, db, dump, userq, dbjobs, limq, pending, limjobs, raised,
                   replay, env>>

(****************************************************************************)
(* DbWorker: every coroutine takes a command and then waits for the lock of *)
(* the entity, so that commands may pass each other.                        *)
(****************************************************************************)
DbGetJob ==
    /\ dbq # <<>>
    /\ Cardinality(dbjobs) < Cardinality(Routines)
    /\ dbjobs' = dbjobs \cup {Head(dbq)}
    /\ dbq' = Tail(dbq)
    /\ UNCHANGED <<plog, db, dump, entity, limq, pending, limjobs, raised, rec,
                   replay, env>>

(* Mutant: a full queue is not noticed.                                     *)
GoToDbLimitedReqQueue_Unbounded(c) == limq' = Append(limq, c)

(* GoToDbLimitedReqQueue: what does not fit is dropped.                     *)
GoToDbLimitedReqQueue(c) ==
    limq' = IF Len(limq) < QueueSize THEN Append(limq, c) ELSE limq

DbDoJob(c) ==
    /\ c \in dbjobs
    /\ dbjobs' = dbjobs \ {c}
    /\ \/ /\ db.flag = "recover" \/ c.entry < db.entry + 1
          /\ Fine /\ UNCHANGED <<db, limq>>
       \/ /\ db.flag = "normal" /\ c.entry > db.entry + 1
          /\ GoToDbLimitedReqQueue(c)
          /\ Fine /\ UNCHANGED db
       \/ /\ db.flag = "normal" /\ Commit(c.entry, c.value)
          /\ Fine /\ UNCHANGED limq
       \/ /\ db.flag = "normal" /\ c.entry = db.entry + 1
          /\ Faulty /\ UNCHANGED <<db, limq>>
    /\ UNCHANGED <<plog, dump, entity, dbq, pending, limjobs, raised, rec, replay>>

(****************************************************************************)
(* DbLimitedWorker.                                                         *)
(****************************************************************************)
(* Tick empties the queue: the request that is there first stays, with its  *)
(* value, and a later one raises its entry.                                 *)
Merged ==
    LET cs == (IF pending = None THEN <<>> ELSE <<pending>>) \o limq
    IN  [Head(cs) EXCEPT !.entry = Max({cs[i].entry : i \in DOMAIN cs})]

(* One turn of the event loop: Tick, then GetJob for an idle coroutine.     *)
LimitedLoop ==
    /\ limq # <<>> \/ (pending # None /\ \E r \in Routines : limjobs[r] = None)
    /\ limq' = <<>>
    /\ \E p \in {Merged} :
         /\ raised' = (raised \/ p.value \notin {0, p.entry})
         /\ IF \E r \in Routines : limjobs[r] = None
            THEN /\ limjobs' = [limjobs EXCEPT
                        ![CHOOSE r \in Routines : limjobs[r] = None] = p]
                 /\ pending' = None
            ELSE /\ pending' = p
                 /\ UNCHANGED limjobs
    /\ UNCHANGED <<plog, db, dump, entity, dbq, dbjobs, rec, replay, env>>

(* Mutant: the request's value is taken for every entry of the gap.         *)
CarriesValue_AnyEntry(c, e) == c.value # 0

(* The value that DoJob commits for the entry: the request's own, or the    *)
(* plog's.                                                                  *)
CarriesValue(c, e) == e = c.entry /\ c.value # 0

WriteValue(c, e) == IF CarriesValue(c, e) THEN c.value ELSE e

(* DoJob, one turn of its loop under the lock.                              *)
LimitedDoJob(r) ==
    /\ limjobs[r] # None
    /\ \E c \in {limjobs[r]}, e \in {db.entry + 1} :
         \/ /\ \/ db.flag = "recover"
               \/ db.entry >= c.entry
               \/ ~CarriesValue(c, e) /\ ~HasWriteValue(e)
            /\ limjobs' = [limjobs EXCEPT ![r] = None]
            /\ Fine /\ UNCHANGED db
         \/ /\ db.flag = "normal" /\ db.entry < c.entry
            /\ CarriesValue(c, e) \/ HasWriteValue(e)
            /\ \/ /\ Commit(e, WriteValue(c, e))
                  /\ limjobs' = [limjobs EXCEPT
                                    ![r] = IF e >= c.entry THEN None ELSE c]
                  /\ Fine
               \/ /\ Faulty
                  /\ limjobs' = [limjobs EXCEPT ![r] = None]
                  /\ UNCHANGED db
    /\ UNCHANGED <<plog, dump, entity, dbq, dbjobs, limq, pending, raised, rec,
                   replay>>

(****************************************************************************)
(* RecoverWorker and the default SnapshotRecover.                           *)
(****************************************************************************)
(* GetJob: a second job for an entity in doing_ is dropped.                 *)
RecoverGetJob ==
    /\ rec.req > 0
    /\ rec' = [rec EXCEPT !.req = @ - 1,
                          !.job = IF @ = Idle THEN [Idle EXCEPT !.at = "start"]
                                  ELSE @]
    /\ UNCHANGED <<plog, db, dump, entity, workers, replay, env>>

(* SnapshotRecover, step 1.                                                 *)
RecoverSetFlag ==
    /\ rec.job.at = "start"
    /\ db' = InRecovery
    /\ rec' = [rec EXCEPT !.job.at = "rpc"]
    /\ UNCHANGED <<plog, dump, entity, workers, replay, env>>

(* Steps 2 and 3.  TinyServiceImpl::SnapshotRecover of the peer gives the   *)
(* entry and the data of its Db.  It does not look at the flag: a peer that *)
(* is in recovery itself answers -1u and no data, which is taken for a      *)
(* snapshot.                                                                *)
Restored(n) ==
    /\ db' = Snapshot(n)
    /\ rec' = [rec EXCEPT !.job = [at |-> "done", entry |-> n],
                          !.snap = Max({@, n})]

RestoredBlank ==
    /\ db' = Normal(Unset, <<>>)
    /\ rec' = [rec EXCEPT !.job = [at |-> "done", entry |-> Unset]]

(* The peer that is asked first gives its data, which may be older or newer *)
(* than what was here but not older than what it gave before; or its call   *)
(* fails or it has gone back itself, and any snapshot comes, of it or of    *)
(* the other peer; or a peer in recovery answers; or nobody does.           *)
RecoverFetch ==
    /\ rec.job.at = "rpc"
    /\ \/ \E n \in env.peer .. env.entries :
            Restored(n) /\ env' = [env EXCEPT !.peer = n]
       \/ \E n \in 0 .. env.entries : Restored(n) /\ Faulty
       \/ RestoredBlank /\ Faulty
       \/ /\ rec' = [rec EXCEPT !.job.at = "failed"]
          /\ Faulty /\ UNCHANGED db
    /\ UNCHANGED <<plog, dump, entity, workers, replay>>

(* GoToRecoverRspQueue, repeated until it succeeds, and doing_.erase.       *)
RecoverRespond ==
    /\ rec.job.at \in {"done", "failed"}
    /\ Len(rec.rsp) < QueueSize
    /\ rec' = [rec EXCEPT !.rsp = Append(@, rec.job), !.job = Idle]
    /\ UNCHANGED <<plog, db, dump, entity, workers, replay, env>>

(****************************************************************************)
(* Wrapper::Replay, by one caller.  known is what the replica knew to be    *)
(* chosen when the call began.                                              *)
(****************************************************************************)
NoReplay == [at |-> "idle", committed |-> 0, chosen |-> 0, known |-> 0]

(* The call answers 0 with entry n.                                         *)
Answer(n) ==
    IF n >= replay.known THEN NoReplay
    ELSE [replay EXCEPT !.at = "stale", !.committed = n]

(* -1u is not the number of an entry.                                       *)
KnownChosen == IF ent.max_chosen = Unset THEN 0 ELSE ent.max_chosen

(* GetStatus, without the lock; a Db in recovery triggers another one.      *)
ReplayStatus ==
    /\ replay.at \in {"idle", "stale"}
    /\ IF db.flag = "recover"
       THEN /\ userq' = userq \cup {"recover"}
            /\ replay' = NoReplay
       ELSE /\ replay' = [NoReplay EXCEPT !.at = "info",
                                          !.committed = db.entry,
                                          !.known = KnownChosen]
            /\ UNCHANGED userq
    /\ UNCHANGED <<plog, db, dump, ent, mem, workers, rec, env>>

(* Behind by more than max_replay_num: left to the DbLimitedWorker.         *)
TooFar == replay.committed + MaxReplayNum < ent.max_chosen

(* The entity is not there: SyncWait for a kCmdLoad.                        *)
ReplayLoad ==
    /\ replay.at = "info" /\ ent.at = "absent"
    /\ ent' = Created
    /\ replay' = [replay EXCEPT !.at = "load"]
    /\ UNCHANGED <<plog, db, dump, mem, userq, workers, rec, env>>

ReplayLoadFails ==
    /\ replay.at = "load" /\ ent.at = "absent"
    /\ replay' = NoReplay
    /\ UNCHANGED <<plog, db, dump, entity, workers, rec, env>>

(* GetMaxChosenEntry: it finds an entity that is loading too.               *)
ReplayInfo ==
    /\ \/ replay.at = "info" /\ ent.at # "absent"
       \/ replay.at = "load" /\ Loaded
    /\ \/ /\ ent.max_cont < ent.max_chosen
          /\ userq' = userq \cup {"catchup"}
          /\ replay' = NoReplay
          /\ UNCHANGED limq
       \/ /\ ent.max_cont >= ent.max_chosen /\ TooFar
          /\ GoToDbLimitedReqQueue(Cmd(ent.max_chosen, 0))
          /\ replay' = NoReplay
          /\ UNCHANGED userq
       \/ /\ ent.max_cont >= ent.max_chosen /\ ~TooFar
          /\ replay' = [replay EXCEPT !.at = "loop", !.chosen = ent.max_chosen]
          /\ UNCHANGED <<userq, limq>>
    /\ UNCHANGED <<plog, db, dump, ent, mem, dbq, dbjobs, pending, limjobs, raised,
                   rec, env>>

(* Mutant: the loop ends one entry too early.                               *)
Behind_OffByOne == replay.committed + 1 < replay.chosen

(* The condition of the loop.                                               *)
Behind == replay.committed < replay.chosen

(* One turn of the loop under the lock; a failure or the deadline ends the  *)
(* call.                                                                    *)
ReplayLoop ==
    /\ replay.at = "loop"
    /\ \/ /\ ~Behind
          /\ replay' = Answer(replay.committed)
          /\ Fine /\ UNCHANGED db
       \/ /\ Behind /\ db.flag = "normal" /\ db.entry >= replay.chosen
          /\ replay' = Answer(db.entry)
          /\ Fine /\ UNCHANGED db
       \/ /\ Behind
          /\ \/ db.flag = "recover"
             \/ db.entry < replay.chosen /\ ~HasWriteValue(db.entry + 1)
          /\ replay' = NoReplay
          /\ Fine /\ UNCHANGED db
       \/ /\ Behind /\ db.flag = "normal" /\ db.entry < replay.chosen
          /\ HasWriteValue(db.entry + 1)
          /\ Commit(db.entry + 1, db.entry + 1)
          /\ replay' = [replay EXCEPT !.committed = db.entry + 1]
          /\ Fine
       \/ /\ Behind /\ Faulty
          /\ replay' = NoReplay
          /\ UNCHANGED db
    /\ UNCHANGED <<plog, dump, entity, workers, rec>>

(****************************************************************************)
(* The process stops and comes back: what was in memory is lost.            *)
(****************************************************************************)
(* The DbDumper writes the Db to its file every ten seconds and when the    *)
(* process exits, without the flag.  (Only a dump that a restart may still  *)
(* read is of interest.)                                                    *)
DumpDb ==
    /\ env.restarts > 0
    /\ dump' = Normal(db.entry, db.data)
    /\ UNCHANGED <<plog, db, entity, workers, rec, replay, env>>

(* FromFile loads the last dump, as kNormal; or the process was stopped in  *)
(* the middle of ToFile, which begins with an empty file, and the entity is *)
(* not in it.  Another Db behind the interface of include/certain/db.h may  *)
(* keep its state and the flag itself.                                      *)
Restart ==
    /\ env.restarts > 0
    /\ env' = [env EXCEPT !.restarts = @ - 1]
    /\ db' \in {dump, Snapshot(0), db}
    /\ dump' = Normal(db'.entry, db'.data)
    /\ ent' = Absent /\ mem' = {} /\ userq' = {}
    /\ dbq' = <<>> /\ dbjobs' = {}
    /\ limq' = <<>> /\ pending' = None /\ limjobs' = [r \in Routines |-> None]
    /\ rec' = [NoRecovery EXCEPT !.snap = rec.snap]
    /\ replay' = NoReplay
    /\ UNCHANGED <<plog, raised>>

Init ==
    /\ env \in Scenarios
    /\ plog = [e \in Entries |-> "none"]
    /\ db = Snapshot(0) /\ dump = db
    /\ ent = Absent /\ mem = {} /\ userq = {}
    /\ dbq = <<>> /\ dbjobs = {}
    /\ limq = <<>> /\ pending = None /\ limjobs = [r \in Routines |-> None]
    /\ rec = NoRecovery
    /\ replay = NoReplay
    /\ raised = FALSE

EntityStep ==
    \/ CreateEntity \/ LoadMaxEntry \/ HandleLoadFromPlog \/ Tick
    \/ RecoverCmd \/ NotFound \/ RecoverInterval \/ HandleRecoverRspCmd
    \/ \E e \in Chosen : Learn(e) \/ Accept(e) \/ GetFromPlog(e)

WorkerStep ==
    \/ DbGetJob
    \/ \E c \in dbjobs : DbDoJob(c)
    \/ LimitedLoop
    \/ \E r \in Routines : LimitedDoJob(r)
    \/ RecoverGetJob \/ RecoverSetFlag \/ RecoverFetch \/ RecoverRespond

ReplayStep ==
    ReplayStatus \/ ReplayLoad \/ ReplayLoadFails \/ ReplayInfo \/ ReplayLoop

Next == EntityStep \/ WorkerStep \/ ReplayStep \/ DumpDb \/ Restart

(* The threads and their coroutines run, time passes, peers answer what     *)
(* catch-up asks for, and a caller comes back to Replay.                    *)
Fairness ==
    /\ WF_vars(CreateEntity) /\ WF_vars(LoadMaxEntry) /\ WF_vars(HandleLoadFromPlog)
    /\ WF_vars(Tick) /\ WF_vars(RecoverCmd)
    /\ SF_vars(RecoverInterval) /\ WF_vars(HandleRecoverRspCmd)
    /\ \A e \in Entries :
         WF_vars(e \in CatchupRange(ent) /\ (Learn(e) \/ GetFromPlog(e)))
    /\ WF_vars(DbGetJob) /\ WF_vars(\E c \in dbjobs : DbDoJob(c))
    /\ WF_vars(LimitedLoop)
    /\ WF_vars(\E r \in Routines : LimitedDoJob(r))
    /\ WF_vars(RecoverGetJob) /\ WF_vars(RecoverSetFlag)
    /\ WF_vars(RecoverFetch) /\ WF_vars(RecoverRespond)
    /\ WF_vars(ReplayStatus) /\ WF_vars(ReplayLoad) /\ WF_vars(ReplayLoadFails)
    /\ WF_vars(ReplayInfo) /\ WF_vars(ReplayLoop)

Spec == Init /\ [][Next]_vars /\ Fairness

(****************************************************************************)
(* Properties.                                                              *)
(****************************************************************************)
Numbers == 0 .. MaxEntry \cup {Unset}
DbType == [entry : Numbers, flag : {"normal", "recover"}, data : Seq(Entries)]
EntityInfo == [at : {"absent", "loading", "read", "loaded"},
               committed : Numbers, max_chosen : Numbers, max_cont : Numbers,
               max_catchup : Numbers, recover_pending : BOOLEAN, recent : BOOLEAN]
CmdType == [entry : Numbers, value : 0 .. MaxEntry]
JobType == [at : {"idle", "start", "rpc", "done", "failed"},
            entry : Numbers]
RecoverType == [req : 0 .. QueueSize, job : JobType, rsp : Seq(JobType),
                snap : 0 .. MaxEntry]
ReplayType == [at : {"idle", "info", "load", "loop", "stale"},
               committed : Numbers, chosen : Numbers, known : Numbers]

(* Every variable keeps its domain: in particular the number that a Db in   *)
(* recovery reports is never counted up.                                    *)
TypeOK ==
    /\ plog \in [Entries -> {"none", "accepted", "chosen"}]
    /\ db \in DbType /\ dump \in DbType
    /\ ent \in EntityInfo
    /\ mem \subseteq Entries
    /\ userq \subseteq {"catchup", "recover"}
    /\ dbq \in Seq(CmdType) /\ Len(dbq) <= QueueSize
    /\ dbjobs \subseteq CmdType
    /\ limq \in Seq(CmdType) /\ Len(limq) <= QueueSize
    /\ pending \in CmdType
    /\ limjobs \in [Routines -> CmdType]
    /\ rec \in RecoverType
    /\ replay \in ReplayType
    /\ raised \in BOOLEAN
    /\ env \in ScenarioType

DbHolds(n) == db.data = [e \in 1 .. n |-> e]

(* DbWorker, DbLimitedWorker, Replay and SnapshotRecover write the Db of    *)
(* an entity in turns: whatever their order, it holds the chosen values of  *)
(* the entries 1 .. max_committed_entry.                                    *)
DbHasChosenValues == db.flag = "normal" => DbHolds(db.entry)

(* The Db holds nothing, at -1u: it is in recovery, or has taken the answer *)
(* of a peer in recovery or its own dump of that time for a normal state.   *)
Blank == db.entry = Unset /\ db.data = <<>>

(* The same as long as DbLimitedWorker::Tick has not raised the entry of a  *)
(* request that brings its own value, here or at the peer that gave its     *)
(* snapshot; but the Db may be blank.  It never holds anything else, also   *)
(* when a restart has brought back an older dump or none.                   *)
DbHasChosenValuesUnraised == raised \/ Blank \/ DbHasChosenValues

(* EntityHelper counts an entry into max_cont_chosen_entry and forgets it;  *)
(* from then on only the plog or the data of the Db has it, also when the   *)
(* Db is blank or has gone back to an older dump.  (Not so for an entity    *)
(* that has taken -1u for its max_cont_chosen_entry, or when the newest     *)
(* snapshot that was put into the Db is not there any more.)                *)
ContIsBacked ==
    rec.snap <= Len(db.data) =>
        \A e \in Entries :
            ent.max_cont \in e .. MaxEntry => e <= Len(db.data) \/ plog[e] = "chosen"

(* The assertion of TryCatchup, across loading, catching up and recovery.   *)
ContNotAboveChosen == ent.max_cont <= ent.max_chosen

(* While recover_pending is set the entity neither catches up nor triggers  *)
(* a recovery: the request that will clear it is on its way, although       *)
(* RecoverWorker::GetJob drops duplicates and a push may fail.              *)
RecoveryUnderWay ==
    ent.recover_pending => rec.req > 0 \/ rec.job # Idle \/ rec.rsp # <<>>

(* Replay answers 0: the Db has everything the replica knew to be chosen    *)
(* when the call began; unless it has lost entries that a snapshot had      *)
(* brought before.                                                          *)
ReplayIsFresh == replay.at = "stale" => replay.committed < rec.snap

(* Again and again the Db has every entry that the replica knows to be      *)
(* chosen, by the DbWorker, by a snapshot or by Replay, whatever pushes and *)
(* commits fail, whatever dump a restart has loaded; unless the entity has  *)
(* taken -1u for its max_chosen_entry.                                      *)
Known(e) == ent.max_chosen \in e .. MaxEntry
InDb(e) == db.flag = "normal" /\ Len(db.data) >= e
KnownIsCommitted == []<>(\A e \in Entries : Known(e) => InDb(e))
==============================================================================
