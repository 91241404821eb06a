# A verification project for PaxosStore

TLA+ models of the consensus code of this repository, TLC runs over small
instances of them, and theorems about them checked by TLAPS.

## 1. Inventory

The repository holds two systems that do not share code.

**certain** is an asynchronous Paxos log. An *entity* is a log; an *entry* is a
position in it. Every replica keeps, per entity, an `EntityInfo` (how far the log
is chosen, the client command that waits, whether the entity is being loaded) and,
per open entry, an `EntryInfo` with an `EntryStateMachine`: one `EntryRecord`
(prepared, promised and accepted number, value id, value, chosen) for each replica,
the own one and what was last heard of the others. There are no message types: a
replica sends its own record and what it believes the peer's record to be, and the
receiver updates its machine and answers when its own record is newer than the peer
believes.

| component | state | operations | hard parts |
|---|---|---|---|
| `entry_state.cc` | the records of an entry | Update, Promise, Accept, CalcEntryState | number arithmetic, which accepted value to carry on, "chosen" as a side effect |
| `entity_helper.cc` | EntityInfo, EntryInfo | client command, message, responses of the plog, catch-up, timeout | a record is *uncertain* while the PlogWorker has it: messages are parked; command and entry disappear in the middle of a round |
| `entry_info_mng.cc`, `entity_info_mng.cc` | tables, LRU, old chosen list | create, destroy, evict, clean up by age | evicting what is still needed |
| `plog_worker.cc` | request and response queues | set, get, load, answer a peer from the plog | failures, full queues, the order of a crash and a write |
| `msg_worker.cc`, `conn_*.cc`, `network/` | connections, channels | send, receive | loss |
| `db_worker.cc`, `db_limited_worker.cc` | commit queues | commit in order, replay | ordering, limits |
| `recover_worker.cc`, `default/db_impl.cc` | pending recoveries | snapshot from a peer | an entity replaced while it is used |
| `wrapper.cc`, `*notify_helper.cc` | waiting coroutines | Write, Read, Replay | lost notifications |
| `utils/lock_free_queue.h` and the other utilities | ring buffers, timers | push, pop | producers racing for a slot |

Interaction: an `EntityWorker` thread owns a share of the entities and runs every
handler of `EntityHelper` for them; all other threads talk to it through lock-free
queues. So for one entity a handler is atomic, and what interleaves are the
replicas, the plog requests under way, the messages, the clients and the timers.

**paxoskv** is the second system: a Paxos instance as a step function
(`core/pins_wrapper.cc`), a log of at most two instances (`core/plog_wrapper.cc`,
`core/plog_helper.cc`), key-value operations on it (`kv/`), an in-memory store
(`memkv/`), a log store (`dbcomm/`), routing (`comm/`) and a message server
(`msg_svr/`).

What makes certain correct: one value per entry; a write that was answered Ok is
that value and stays it through restarts; a read answered Ok is not older than an
answered write; nothing is told to a peer that a crash can take back; proposal
numbers and value ids are unique; no assertion fails; every parked message is
handled; every replica gets the chosen value in the end, and its Db gets the chosen
values in order, whichever of the four threads that write it comes first. What makes
paxoskv correct: the writes of a key that take effect form one history of versions,
`Set` acknowledges only what is in it, `Get` is not older than an acknowledged `Set`,
and the log of two instances never drops what a majority relies on. The list
`hazards` of `PROJECT.json` names the lines where each can go wrong.

## 2. Plan

Done:

1. `EntryState`, `CertainEntry`: the consensus on one entry with all its faults, and
   the type theorem.
2. `LockFreeQueue`: the queue between the threads, the abstract queue it implements,
   and the proof that it does.
3. `PIns`, `PLog`, `PaxosKv`: instance, log and key-value operations of paxoskv on
   three servers, against the abstract `VersionedKey`.
4. `CertainCommit`: several entries of an entity on the way into the Db: `DbWorker`,
   `DbLimitedWorker`, catch-up over a range, recovery from a peer, `Replay`.
5. The proofs of every safety invariant of `CertainCommit`.
6. The proofs of what one replica owes to its own disk: `AssertsHold`,
   `SentIsPersistent`, `PlogAdvances`.
7. The proof that the replicas agree on the chosen value id, for any number of them.
8. The proof that no message stays parked, for any number of replicas.
9. The proofs of what the clients are answered, for any number of replicas: a read is
   not older than an answered write, and one write wins.

Left, all proofs:

10. `Agreement`, `AckedIsChosen` and `ValueIdUnique` for three replicas. That one id is
   chosen and that a record has the value of its id or none is proved for any number;
   that it has one is true for three replicas only (finding `lost_value`). The missing
   part is that a record without its value always finds it at the receiver, because a
   proposal that a second replica accepts is already chosen. `PreAuthUnique` comes after
   it. (It is not expected to hold for five: two replicas may each see a proposal of
   their own chosen by a majority, with the same value.)
11. `NoParkedMsg` when a process stops in the middle of a plog write, for three
   replicas (section 4).
12. `TypeOK` of `PaxosKv`, and uniqueness of the proposal numbers of `PIns`, as for
   `EntryState`.

## 3. Modules

| module | contents |
|---|---|
| `EntryState` | operators for `EntryStateMachine`. `entry_state_` is recomputed from the records after every change in the code, so it is an operator of the records here |
| `CertainEntry` | replicas, plogs, network and clients for one entry |
| `MCCertainEntry` | symmetry of the values and constraints, for the runs |
| `MCWrites` | the two parts of run `writes` |
| `MCFiveReplicas` | five replicas under one schedule, for run `lost_value` |
| `CertainCommit` | the chosen entries of one entity on one replica, from `EntityHelper` to the Db |
| `MCCertainCommit` | its scenarios for the runs |
| `PIns` | operators for the Paxos instance of paxoskv: its alive and its persistent state (`core/pins_wrapper.cc`) |
| `PLog` | operators for the log of at most two instances (`core/plog_wrapper.cc`, `core/plog_helper.cc`) |
| `PaxosKv` | one key on three servers: `Set`, `Get`, messages, the cache of alive states, store, crashes |
| `VersionedKey` | the abstract history of a key that `PaxosKv` implements |
| `MCPaxosKv` | its scenarios and its view for the runs |
| `LockFreeQueue` | `utils/lock_free_queue.h`, one step per access to `head_`, `tail_` or a slot |
| `FifoQueue` | the abstract bounded queue it implements |
| `MCLockFreeQueue` | the instance for the run |
| `NatLemmas` | least and greatest elements of sets of numbers, for the proofs |
| `EntryStateProofs` | lemmas on `EntryState` and `ProposalNumbersUnique` |
| `CertainEntryProofs` | `TypeCorrect` |
| `EntryDurabilityProofs` | `AssertsNeverFail`, `SentAfterStored`, `PlogNeverGoesBack` |
| `EntryAgreementProofs` | `IdsAgree`, `ParkedAreHandled` |
| `EntryClientProofs` | `FreshReads`, `OneWrite` |
| `CertainCommitProofs` | `CommitTypeCorrect`, `DbIsChosenPrefix`, `ContBelowChosen`, `ContEntriesBacked`, `RecoveryIsUnderWay`, `ReplayAnswersFresh` |
| `LockFreeQueueProofs` | `QueueTypeCorrect`, `QueueLosesNothing`, `QueueIsFifo` |

`CertainEntry` writes a handler of the code as an operator from the state `S` of a
replica to its state afterwards, with the code's name; the messages it sends are
collected in `S.out`, the client command it finishes with `kRetCodeOk` in `S.done`.
An action picks the input, applies the operator and distributes the result.

| state | code |
|---|---|
| `node[i].max_chosen, max_cont, max_plog, pre_auth, active_peer, client, waiting_msg` | the fields of `EntityInfo` |
| `node[i].mem, recs, empty_flags, broadcast, compensate, peer_to_sync, waiting_msgs, old` | the fields of `EntryInfo` and its machine; `old`: in `old_chosen_list_` |
| `node[i].op` | `"load"`: `loading`; `"get"`, `"set"`: `uncertain`, with the request at the PlogWorker |
| `node[i].drain` | the loop of `HandleWaitingMsg` is under way; one iteration is one step and the replica does nothing else |
| `node[i].committing`, `db` | the entry is in the DbWorker's queue; the Db has it |
| `plog[i]` | the record on disk |
| `net` | `PaxosCmd` messages, delivered in any order |
| `acked`, `staleRead`, `used` | history of the clients |

What is abstracted:

* A value and its uuids are one model value; values and records are copied together.
* A read has its uuid from the beginning, and no two have the same; the code assigns it
  when the read is dispatched (`entity_helper.cc:286`). Uuids are only compared.
* The plog operation and the handling of its response are one step. Until then the
  record may or may not be on disk: `Crash` and a failed write choose.
* A message for a chosen entry that has left the memory is answered from the plog by
  the PlogReadonlyWorker; here the answer is sent at once, and delayed by the network.
* Clock and rate limiters of the catch-up routine are the parameter `cu`; a full plog
  queue is `pushed = FALSE`, counted with the plog errors.
* A refusal of `MakeEnoughRoom` has the effect of a lost message or a failed
  command and is not a separate case; `kCmdLoad`, `kCmdRecover` and
  `kImplPlogNotFound` are in `CertainCommit`; `kCmdDumpEntry` only prints.
* TCP does not duplicate; the constant `Duplicates` allows to ask what would happen.
* `compensate_msgs` is not initialised by `CreateEntryInfo`; it is read only after it
  was set, so its first value does not matter.

`CertainCommit` takes consensus as given: the value of entry `e` is written `e`, and
the replica learns it at any time and in any order.

| state | code |
|---|---|
| `plog` | the local plog, which survives a restart |
| `db`, `dump` | the default Db (`default/db_impl.cc`), which is in memory, and the file in which the DbDumper writes it every ten seconds, without the flag; a restart loads the file as a normal Db, or finds no entity in it when the process was stopped inside `ToFile`; or another Db behind `include/certain/db.h` has kept its state and the flag |
| `ent` | the `EntityInfo`: loading in two steps (the PlogReadonlyWorker reads, the EntityWorker takes the answer), the counters, `recover_pending`, and `recent` for the interval of `kRecoverIntervalMsec` |
| `mem` | chosen `EntryInfo`s that wait for the entry before |
| `dbq, dbjobs`, `limq, pending, limjobs`, `rec` | the queues and coroutines of DbWorker, DbLimitedWorker, RecoverWorker; `rec.snap` is history: the newest snapshot that was ever put into the Db |
| `userq`, `replay` | commands of `TriggerClient`, and a caller in `Wrapper::Replay` |
| `raised` | history: `Tick` has raised a request that carries a value |
| `env` | the scenario and what it still allows |

* `-1u`, the entry that `SnapshotRecover` stores while it runs, is `Unset`, a number
  above every entry; `TypeOK` says that nobody counts it up.
* The pushes of one call of `TryCatchup` are one step, a full queue drops the rest.
* An entity is destroyed only by a failed load or a restart, since `MakeEnoughRoom`
  of the entity table evicts nothing (`entity_info_mng.h:65`); `max_plog_entry` is computed from
  the plog when the entity is loaded, where the code reads it too.
* The snapshots of the peer that is asked first do not go back; when it cannot be
  reached or has gone back at a restart of its own (a fault), any snapshot may come, or
  none. `TinyServiceImpl::SnapshotRecover` does not look at the flag of the peer's Db: a
  peer that is in recovery itself answers -1u and no data, and the requester stores it
  as normal (`RestoredBlank`, counted as a fault). A value that `Tick` has raised into a
  peer's Db does not come with its snapshot.
* `FromFile` runs in the thread of the DbDumper; it is assumed to have ended before the
  entity is used (`default/db_impl.cc:14`), as otherwise the older dump would overwrite
  what was committed meanwhile.
* The rate limits of catch-up only delay. The interval between two recoveries is a
  minute; by then the EntityWorker and the RecoverWorker are assumed to have emptied
  their queues (guard of `RecoverInterval`).

`PIns`, `PLog` and `PaxosKv` follow the division of the code. What holds the hash lock
of the key is one step (`PostPaxosMsg`, the first part of `Set`); waiting, and what
`Set` and `Get` do afterwards, are steps of their own.

| state | code |
|---|---|
| `mem[s]`, `disk[s]` | header and log of the key in memory, and its last record in the store; a write that fails leaves them apart |
| `alive[s]` | the entry in `alive_state_cache_`: the proposer's part of an instance |
| `call`, `notified`, `read` | the callers of `Set` and `Get` and the pipes they wait on |
| `net` | the messages, in any order, over the links of the scenario |
| `chosen`, `acked`, `stale`, `failed` | history: what is chosen, what was acknowledged, whether a read was stale, which assertions failed |

* The caller of `Get` gathers the peers' indexes before it calls; this code is not in
  the repository and is modelled from what `can_read_3svr` needs (external). Left out is
  `PEER_STATUS::IGNORE` (`plog_helper.cc:246`): a caller that passes it has not asked the
  peers, always gets 0, and is promised nothing by `ReadsAreFresh`.
* `prev_version` and the setting of `local_out` change no state. The active
  begin-proposal number is abstracted to "the prepare phase may be skipped". A call
  that polls its pipe does not consume the byte, so `notified` only grows.
* `TryRedo` and `BatchTriggerCatchUpOn` are TODO in the code; `plog_learner_only` is a
  deployment without acceptor and not modelled.
* An assertion that does not hold ends the process, which starts again from its disk.

`LockFreeQueue` keeps the locals of the call each producer is in (`push`) and of the
consumer's (`pop`). `head_` and `tail_` are sequentially consistent atomics in the
code; a slot is a plain `unique_ptr` that consumer and producer touch without
synchronisation, a data race whose outcome in the build is the old or the new pointer,
which is what the interleaving of the steps gives. The 64-bit counters do not wrap in
the life of a process, so they are naturals. `Size`, `Empty` and `Full` only read and
are left out.

## 4. Runs

The bounds are constants of the modules or fields of a scenario. For the entry:
clients write each value of `Values` once, `MaxReads`, `MaxCrashes`, `MaxPlogErrors`,
`MaxEvictions`, `MaxCleanups`, `MaxLosses`, `MaxTimeouts` (2 in `writes`, so that both
commands may time out). Proposal numbers need no bound: every write makes one
promise. Two competing writes and three replicas are the smallest instance with a
conflict on every pair of majorities; one fault of a kind suffices to expose a
handler that does not survive it, and two would leave no majority of healthy
replicas. Deadlock is not checked for the entry and for `kv`: when clients have issued
their commands and the messages are handled, the system rests.

| run | instance | shows |
|---|---|---|
| `writes` | two writers, pre-authorisation; or a writer, two reads, one stop with no plog write open, one clean-up | `Agreement`, `ChosenIdsAgree`, `AckedIsChosen`, `NoParkedMsg`, `AssertsHold`, `PreAuthUnique`, `ValueIdUnique`, `ReadsAreFresh`, `OneWriteWins` |
| `faults` | a writer, a reader, and one stop anywhere, or an eviction and a plog failure | `TypeOK`, `NoParkedMsg`, `AssertsHold`, `SentIsPersistent`, `PlogAdvances` |
| `catchup` | a lost message, a clean-up, a read, fairness | `CaughtUp` |
| `five` | five replicas, fairness | `AllLearn`: with a majority of three the peers no longer see by themselves that the entry is chosen |
| `queue` | two producers, two slots, four elements, two attempts | `TypeOK`, `NothingLost`, `FifoSpec`, `Delivered` |
| `commit` | up to three entries, two coroutines, one fault, restart and missing entry | `TypeOK`, `DbHasChosenValuesUnraised`, `ContIsBacked`, `ContNotAboveChosen`, `RecoveryUnderWay`, `ReplayIsFresh`, `KnownIsCommitted` |
| `kv` | three servers, up to three `Set`s, reads, one fault | `TypeOK`, `AssertsHold`, `ReadsAreFresh`, the refinement `KeyHistory` |
| `stale_read` | one stop anywhere, two reads | violates `ReadsAreFresh` |
| `evicted` | two writers, one eviction | violates `Agreement` |
| `lost_value` | five replicas, three writers, one client that times out, one schedule | violates `Agreement` |
| `kv_abort` | as `kv`; the violation is in `Twice`, without a fault | violates `NeverAborts` |
| `commit_value` | three entries, two coroutines, no fault | violates `DbHasChosenValues` |

Constraints keep two runs within minutes: `FewEvents` in the second part of `writes`
(two of reads, stops and clean-ups; a client gives up only where no process stops; the
second read comes after an answered write, as no other read can be stale) and
`OneSortOfFault` in `faults` (stops of processes and clients, or an eviction and a
plog failure). Both runs check safety only.

Some properties carry a condition, and a proof attempt or TLC showed that each is needed:

* `SentIsPersistent` speaks of the moment of sending and holds under all faults.
  `PlogAdvances` holds only until an entry is evicted or a plog operation fails.
* `ChosenIdsAgree` holds only while nothing is damaged: `evicted` shows what an eviction
  does, `stale_read` what a stop in the middle of a plog write does. It says nothing of
  the values because of `lost_value`; on the schedule of that run it holds.
  `OneWriteWins` says what is left of the values there: a record that is taken for
  chosen may have lost its value, but it never has the value of another write; it holds
  on that schedule too.
* `NoParkedMsg` likewise: a replica whose entry was evicted after a promise may store
  a record that is older than what a peer has already heard from it; then
  `HandleSetFromPlog` has nothing to send to that peer and returns before the loop over
  the parked messages (11 steps). The run `faults` checks it with a stop in the middle
  of a plog write too, on three replicas; the theorem `ParkedAreHandled` leaves such
  stops out, as it is about any number of replicas. A chosen record that
  `HandleIfLocalChosen` has told a peer of may be lost in such a stop, so that the peer
  knows a newer record of the replica than the replica itself. The peer's answer brings
  the chosen record back, but with five replicas it may come without its value and is
  then restored as not chosen.
* `ContIsBacked` and `ReplayIsFresh` except entries that only an earlier snapshot had
  brought: two recoveries in a row, the second from a peer that lags behind the first,
  leave `max_cont_chosen_entry` above a Db and a plog without the entries between. With
  a restart in the middle of a recovery, of a Db that keeps its flag, two loads that
  fail and such a second recovery `Replay` answers 0 with less than was known (28 steps,
  more failures than run `commit` has). `rec.snap` makes the exception precise. `ContIsBacked` looks at the data
  of the Db, not at its number, so a blank Db backs nothing; `ReplayIsFresh` compares
  numbers, as `Replay` does, and a Db at -1u has the number without the data.
* `DbHasChosenValuesUnraised` excepts a Db that is `Blank`: no data, at -1u. A Db may be
  blank and yet normal, and TLC violates `raised \/ DbHasChosenValues` in two ways that
  need no raise: a peer in recovery answers `SnapshotRecover` (8 steps), and the process
  restarts with a dump that was taken in recovery (9 steps). The property says that this
  is all that can go wrong: a Db never holds a part of the values, or other values, at
  its entry, also when a restart has brought back an older dump or none.
* `KnownIsCommitted` counts an entry as committed when the data of a normal Db have it.
  An entity that has taken -1u for its maximum, from a blank Db or the response of such a
  recovery, is not covered. Learning an entry again from the peers is one of the ways to
  get it into the Db, so the property does not say that a recovery must succeed.

Run `commit` starts from the scenarios of `MCCertainCommit`: two entries and
a peer that has dropped an entry, with a restart and a failure (so that the recovery
itself may be interrupted or fail, and an entity is created again while a recovery of
the earlier one is under way) and with either of them and a peer whose snapshot lags
behind; three entries with a restart; three entries that two coroutines may commit in
either order. `MaxCatchupNum` is smaller than the number of
entries, so that catching up takes two rounds, and a queue of the given size
overflows. Deadlock is checked: a caller can always come to `Replay`.

Run `kv` starts from the scenarios of `MCPaxosKv`: `Duel` (two writers race for an
empty key), `Twice` (two `Set`s of one server, the second with a fast accept, and a
`Get`), `Faulty` (a fast accept, a rival, and a crash, failed write, timeout or
catch-up), `Behind` (a server that hears two later writes while its own `Set` and a
`Get` are under way), `Ring` (a write on each server). Cut links take the place of
lost messages: what is sent over them never arrives. The view drops messages that
every later step ignores: answers to a proposal that is given up or decided, and a
chosen value for a server that has it or a later one. `MaxPropCnt` stands for
`MAX_PROP_CNT`, 3 in the code: two rounds of a proposer are one retry and then giving up.

In run `queue` (`MCLockFreeQueue`) four elements wrap the ring twice; two
attempts are the least number with a retry. The fairness there: a thread inside a
call goes on, and the consumer calls again (`EntityWorker::Run`, `RoutineWorker`).
Deadlock is checked: the consumer can always call.

Fairness of the entry (`Fairness`): a channel between two replicas that has messages delivers
one again and again; the PlogWorker answers a request; the loop over the parked
messages goes on; `IterateAndCatchup` is called again and again
(`CheckIfHasWork` does so in every round of the EntityWorker) and its rate limiters
let a call through. Nothing is assumed of clients, timeouts or faults. Weak fairness
is spelled out with the condition under which the step changes something, since
ENABLED of these actions is too large for TLC.

Fairness of the commit: the threads and their coroutines take what is in their queues
and finish it, an entity that is loading is loaded, the clean-up tick of the
EntityWorker comes again and again, the peers answer what catch-up asks for, and a
caller comes back to `Replay` (which is what the interface asks of a caller that gets
an error). Strong fairness is assumed only of `RecoverInterval`: the clock does not
wait for the queues to be empty at one time. `KnownIsCommitted` does not cover an
entity that is loaded while its Db is in recovery (the TODO at `plog_worker.cc:170`) or
blank: its counters are then above every entry. Nothing is assumed of the DbDumper.

### Refinement

* `FifoSpec`: `LockFreeQueue` implements `FifoQueue` (checked and proved).
* `KeyHistory`: `PaxosKv` implements `VersionedKey`; the history is the set of pairs
  of a version and the write that some server has ever recorded as chosen there, so
  that two servers with different chosen values have no history; the acknowledged
  writes are the calls of `Set` that returned 0.

### Findings

* `stale_read`: `HandleIfLocalChosen` answers "chosen" from memory although the
  record is still on its way to the plog. When the answer lets a peer finish its
  client and the process stops before the write, the chosen value is on one replica
  only, and a majority of empty replicas answers a read.
* `evicted`: an unchosen entry evicted by `MakeEnoughRoom` is created again without
  its plog record, because `max_plog_entry` is not raised when a record is stored.
* `lost_value`: a record is sent without its value when the sender believes that the
  receiver has accepted the same value id. With five replicas the receiver may have
  replaced that value by the one of another proposal, which is then not chosen either;
  `RestoreValueInRecord` finds no value, and what its comment calls dropping the message
  is a record with a number, a value id and an empty value, which `Update` adopts. The
  acceptor then takes the empty value for the chosen one. The argument that led here is
  the attempt to prove `Agreement` for any number of replicas. With three replicas it
  cannot happen: a proposal that a second replica accepts is chosen. The space of five
  replicas with three proposals is out of TLC's reach, so `MCFiveReplicas` fixes the
  order of commands and deliveries (each step is a step of `CertainEntry`).
* `kv_abort`: a server handles the fast accept of the next index before the chosen
  message of the index before; `stepInvalidIndex` puts an instance without accepted
  value in front of the log and asserts `is_slim`, which such a log never is. The
  invariant `AssertsHold` of run `kv` is about the other assertions; two further ones
  that do not hold are named in its comment.
* `commit_value`: `DbLimitedWorker::Tick` raises the entry of a waiting request and
  keeps its value; the Db then gets the value of entry 2 for entry 3.
  By `DbHasChosenValuesUnraised` it is the only way to a wrong value; the other way to
  lose the right ones is the blank Db above.

## 5. Proofs

Assumptions: at least two acceptors, `NoValue` is no value, the bounds are naturals
(`AcceptorNumAssumption`, `NoValueAssumption`, `BoundsAssumption`); a capacity of at
least one and a null pointer that is no element for the queue. TLC evaluates them in
every run.

* `ProposalNumbersUnique` (`EntryStateProofs`): `NextProposal(i, p, a)` is congruent
  to `i + 1` modulo the number of acceptors, hence differs for different acceptors.
* `TypeCorrect` (`CertainEntryProofs`): `Spec => []TypeOK` for every number of
  replicas, every set of values and all bounds. `TypeOK` is not inductive: while the
  loop of `HandleWaitingMsg` is under way, its next step takes a message out of
  `waiting_msgs`, which has to be non-empty, and `SyncPersistent` sends to
  `peer_to_sync`, which has to be set. The strengthening `TypeInv` adds the first
  (`DrainInv`); the second is a local fact of the handler. One lemma per handler
  shows that it maps a well-typed replica to a well-typed one (`GoodNode`), one step
  per action combines them. `Accept` and the loop choose a least element; its
  existence (`FirstAcceptor`, `MaxAcceptedExists`) is proved from well-foundedness.

* `AssertsNeverFail`, `SentAfterStored`, `PlogNeverGoesBack`
  (`EntryDurabilityProofs`): the first two under every fault the model has, for every
  number of replicas. The inductive invariant `DurableInv` is local: `Local(i, S, r, f)`
  relates the state `S` of a replica to its plog record `r`, and `f` says that nothing
  was evicted or has failed.
  - `MachineInv`: every record passes the checks of `Update`; a replica that does not
    know of a choice has promised at least what it has seen promised and has accepted
    what it has seen accepted at its own number, so none of its peers' records can
    make a majority without it. This is what the assertions of `Promise`, `Accept` and
    `HandleSetFromPlog` need.
  - `Shape`: which fields of `EntityInfo` and `EntryInfo` go together in each phase
    (loading, reading, writing, idle), e.g. a broadcast is pending only during a write.
  - `Numbered`, `Settled`: a client command without a value id belongs to a replica
    that has promised nothing; otherwise the command would carry id 0 into an accept.
  - `Covered`: outside a write the plog is not older than the own record; during a
    write the own record is not empty. This gives `SentAfterStored`, as every handler
    but `HandleIfLocalChosen` sends only outside a write.
  - `Intact`, under `f` only: outside a write the own record *is* the plog's, during a
    write the plog's record may be followed by it (`Advance`), and an entry that is
    created without a read from the plog is not in the plog. An eviction breaks the
    last part, which is run `evicted`.

  One lemma per handler shows that it keeps `Local` and sends only what is stored, one
  per action that it keeps `DurableInv`.

* `IdsAgree` (`EntryAgreementProofs`): `Spec => []ChosenIdsAgree` for every number of
  replicas, with losses, duplicates, clean-ups, timeouts and restarts, as long as nothing
  is evicted, no plog operation fails and a process stops only between its plog writes
  (`Undamaged`). The protocol is not textbook Paxos: a replica follows whatever record a
  peer shows it, so it may accept a proposal from an acceptor that is not its proposer,
  and `chosen` is inferred from a majority of records in one memory. The proof speaks of
  histories: `H[a]` is the set of the records acceptor `a` has ever had, `c[a]` the one
  that counts, which is the one in memory while it is being stored and the one on disk
  otherwise. `World(H, c)` says
  - `Past`: a promise is kept, and a record with a higher promise shows what was
    accepted before;
  - `Justified`: an accepted proposal was voted for (accepted while it was the promised
    one) or is chosen; a record marked chosen has a majority of votes; an accepted
    proposal is `Safe`, i.e. for every smaller number there is a majority that will not
    vote for it any more and has voted for no other value id; and its owner will not
    propose the number again (`UsedUp`);
  - `OneId`: a proposal number has one value id.

  `WorldStep` shows that a record which merely keeps a promise, proposes, or follows a
  peer (`Kept`, `Proposed`, `Follow`) can be added to the history of an acceptor, and
  `OneChosen` that two records marked chosen have the same value id. `Known` ties a
  replica to the histories: what it believes of an acceptor, and every message it holds,
  is a report (`Tells`) of a record in that acceptor's history, where a report may miss
  that the record is chosen. `AcceptSafe` is the step of Paxos: a majority of promises in
  one memory makes the value id of the highest accepted one safe; a pre-authorised
  proposal is the smallest number there is. One lemma per handler shows that it leads
  from `Known` to `Known` with more history (`KnowsFrom`), one per action that it keeps
  `AgreementInv`, the existence of such histories. `DurableInv` supplies that the
  history of a replica is what its peers may rely on. The histories are not
  in the model, so TLC cannot evaluate `AgreementInv`; run `writes` checks what follows
  from it.

* `ParkedAreHandled` (`EntryAgreementProofs`): `Spec => [](Undamaged => NoParkedMsg)` for
  every number of replicas. `HandleSetFromPlog` returns before the loop over the parked
  messages when nobody is to be told of the record it has stored, and the code has no
  other occasion to look at them. The argument is that somebody always is. What a
  replica or a message says of an acceptor is never newer than the record that counts
  there (`Below`, from the histories of `IdsAgree`). So whoever stores a record because
  of a message has a newer one than the sender knows of and owes it an answer: while a
  record is being stored, `broadcast` or `peer_to_sync` is set (`Neat`). `Tidy` adds
  that nobody waits at an entry that is neither uncertain nor in the loop; one lemma per
  handler and per action keeps `ParkedInv`.

* `FreshReads` (`EntryClientProofs`): `Spec => [](Undamaged => ReadsAreFresh)` for every
  number of replicas. A read is answered Ok when a majority says that it is empty, or
  when its own empty proposal is chosen. `FreshInv` speaks of an epoch that begins with
  the first write that is answered Ok: the voters for its value, the reads issued
  before it, and its value id (`Epoch`). Every voter has promised, on its disk and in
  its memory (`Bound`), and every answer of a voter to a later read says so
  (`FreshMsg`), so that the answers which a read has counted come from outside the
  voters (`Counted`) and are no majority. Answers to older reads may still arrive; the
  uuid in them is what keeps them apart. The owner of the chosen id has prepared it
  when the epoch begins (`Bound`), so the number that a later read prepares is another
  one (`Asks`); that only one id is chosen is `IdsAgree`. The epoch is fixed by the step
  that answers the first write, and from then on only counts the reads. The theorem is
  about `Undamaged` states: `stale_read` is the counterexample with a stop in the middle
  of a plog write.

* `OneWrite` (`EntryClientProofs`): `Spec => []OneWriteWins` for every number of replicas.
  Agreement on ids is not agreement on values: a client may give up and the next
  command of its replica take its place before the majority of promises is there, and
  records travel without their value. `ValueInv` says that there is a function `V`
  from ids to values such that every record in a plog, in memory or in a message has
  the value of its id or none (`Carries`, `Bears`), a client command whose id is set is
  the one that `V` names (`Means`), an id that its owner has not prepared yet is still
  open (`Open`), and an answered write is what `V` gives to a record that is chosen on
  some disk. A step may extend `V` at the ids that it prepares only (`Later`), and those
  belong to one replica (`ProposalNumbersUnique`). With one chosen id this leaves one
  value.

* `CertainCommitProofs`, for every number of entries and coroutines, every queue size
  and any number of faults and restarts. `CommitInv` adds to the properties: a command
  for the DbWorker carries the chosen value of its entry, and the plog has that entry
  (`Commands`); a request of the DbLimitedWorker carries the value of its entry or none,
  unless `Tick` has raised one (`Values`); everything that the marks, the memory, the
  requests and the Db count as chosen is chosen in the plog or was in a snapshot
  (`Backing`, `Requests`); the file of the DbDumper is what a restart may load: normal,
  backed like the Db, and blank or with the values up to its entry (`Dumped`); responses
  of the RecoverWorker are -1u or not above the newest snapshot (`Answers`); an entity
  that is not loaded knows of snapshots only, or has taken -1u for one (`Marks`); what
  `Replay` knew when it began the entity, if it is loaded, knows when the call looks
  again, or it was a snapshot's (`ReplayKnows`: the entity may be destroyed and loaded in
  between).

* `QueueTypeCorrect`, `QueueLosesNothing`, `QueueIsFifo` (`LockFreeQueueProofs`): for every capacity and
  every set of producers. The inductive invariant `QueueInv` gives each position of the
  counters between the oldest element and `head_` a ticket: a ticket's slot holds the
  ticket's element or is empty (`Contents`), a producer between its compare_exchange
  and its swap owns a ticket of its own with an empty slot (`Claims`), and a stale copy
  of `tail_` only errs downwards (`PushLocals`), so a claim never reaches beyond the
  capacity. `SlotsDiffer` says that tickets closer than the capacity have different
  slots. `FifoQueue` is then implemented step by step: the compare_exchange is `Push`,
  the move out of the slot is `Pop`, everything else stutters.

Model-checked only, on the instances above: of the entry, `Agreement`, `AckedIsChosen`
and `ValueIdUnique`, which also say that a chosen record has its value and hold for
three replicas only, and `PreAuthUnique`; the properties and the refinement
`KeyHistory` of `PaxosKv`; and the liveness properties `AllLearn`, `CaughtUp`,
`KnownIsCommitted` and `Delivered`, which are outside the prover's reach.

## 6. Not modelled

* `paxoskv/comm/`: configuration files, routing and `hash_header.cc`, a generated
  table that alone is 180,223 of the 224,930 lines of the implementation; there is no
  state in it.
* Storage: `paxoskv/dbcomm/` (file formats, merging of log files, disk I/O),
  `paxoskv/memkv/` (memory layout of the blocks), `certain/default/plog_impl`. The
  models take from them that a record that was stored is read back, or that the
  write failed; what a torn file does is below them.
* Network: sockets, connections, channels and serialisation of both systems. The
  models take from them that messages are delayed, reordered or lost.
* Start and stop of the processes, command line, tools, examples, monitoring.
* Tables with more than one entity or key: the LRU order and the accounting of memory.
  An eviction is possible at any time instead.
* `Wrapper::Write` and `Read` beyond the client commands of `CertainEntry`: the
  notification of the waiting coroutine is one step with the answer.
