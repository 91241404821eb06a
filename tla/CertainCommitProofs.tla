------------------------- MODULE CertainCommitProofs -------------------------
(***************************************************************************)
(* The safety properties of CertainCommit, for any number of entries,      *)
(* coroutines, faults and restarts: what the marks of an EntityInfo, the   *)
(* Db, the plog and the commands on their way owe to each other.           *)
(***************************************************************************)
EXTENDS CertainCommit, NatLemmas, SequenceTheorems, TLAPS

(* An entry is chosen in the plog, or was part of a snapshot up to s.      *)
Backed(pl, s, e) == e \in Entries => pl[e] = "chosen" \/ e <= s

AllBacked(pl, s, n) == n \in 0 .. MaxEntry => \A e \in 1 .. n : Backed(pl, s, e)

(* A command for the DbWorker carries the chosen value of its entry.       *)
GoodCmd(pl, c) ==
    c.entry \in Entries /\ c.value = c.entry /\ pl[c.entry] = "chosen"

-----------------------------------------------------------------------------
(* The inductive invariant.                                                *)

DbShape ==
    /\ db.flag = "recover" => db.entry = Unset
    /\ db.entry = Unset => db.data = <<>>

(* What a restart may load: a normal state, blank or with the entries up   *)
(* to its own.                                                             *)
Dumped ==
    /\ dump.flag = "normal"
    /\ dump.entry = Unset => dump.data = <<>>
    /\ AllBacked(plog, rec.snap, dump.entry)
    /\ raised \/ dump.entry = Unset \/ dump.data = [e \in 1 .. dump.entry |-> e]

(* A number that has come with a snapshot.                                 *)
OfSnapshot(s, n) == n = Unset \/ n <= s

(* The marks of the EntityInfo.  Before it is loaded it knows only of      *)
(* snapshots, or has taken -1u for one.                                    *)
Marks ==
    /\ ent.max_cont <= ent.max_chosen
    /\ ent.max_catchup <= ent.max_chosen
    /\ ent.max_chosen = Unset => ent.max_cont = Unset
    /\ ent.at # "loaded" => OfSnapshot(rec.snap, ent.max_chosen)

(* What the marks, the Db and the memory count as chosen is.               *)
Backing ==
    /\ db.flag = "normal" => AllBacked(plog, rec.snap, db.entry)
    /\ ent.at = "read" => AllBacked(plog, rec.snap, ent.committed)
    /\ AllBacked(plog, rec.snap, ent.max_cont)
    /\ \A e \in mem : plog[e] = "chosen"

Commands ==
    /\ \A i \in 1 .. Len(dbq) : GoodCmd(plog, dbq[i])
    /\ \A c \in dbjobs : GoodCmd(plog, c)

(* A request of the DbLimitedWorker brings the value of its entry or none, *)
(* unless it was raised.                                                   *)
Requests ==
    /\ \A i \in 1 .. Len(limq) : Backed(plog, rec.snap, limq[i].entry)
    /\ Backed(plog, rec.snap, pending.entry)
    /\ \A r \in Routines : Backed(plog, rec.snap, limjobs[r].entry)

Values ==
    /\ \A i \in 1 .. Len(limq) : limq[i].value \in {0, limq[i].entry}
    /\ ~raised => /\ pending.value \in {0, pending.entry}
                  /\ \A r \in Routines : limjobs[r].value \in {0, limjobs[r].entry}

Answers ==
    /\ OfSnapshot(rec.snap, rec.job.entry)
    /\ \A i \in 1 .. Len(rec.rsp) : OfSnapshot(rec.snap, rec.rsp[i].entry)

(* What Replay knew at its beginning the entity knows when it looks again, *)
(* unless it was a snapshot's.                                             *)
ReplayKnows ==
    /\ replay.at \in {"info", "load"} =>
           (ent.at = "loaded" /\ replay.known <= ent.max_chosen) \/ replay.known <= rec.snap
    /\ replay.at = "loop" =>
           replay.known <= replay.chosen \/ replay.known <= rec.snap

CommitInv ==
    /\ TypeOK /\ DbShape /\ Dumped /\ Marks /\ Backing /\ Commands /\ Requests /\ Values
    /\ Answers /\ RecoveryUnderWay /\ ReplayKnows /\ ReplayIsFresh
    /\ DbHasChosenValuesUnraised
-----------------------------------------------------------------------------
(* The constants.                                                          *)

LEMMA Bounds ==
    /\ MaxEntry \in Nat /\ MaxEntry > 0
    /\ MaxCatchupNum \in Nat /\ MaxCatchupNum > 0
    /\ QueueSize \in Nat /\ QueueSize > 0
    /\ MaxReplayNum \in Nat
    /\ Unset \in Nat /\ Unset > MaxEntry + 1
    /\ Entries \subseteq Nat /\ Numbers \subseteq Nat /\ Entries \subseteq Numbers
    /\ 0 \in Numbers /\ Unset \in Numbers
BY BoundsAssumption DEF Unset, Entries, Numbers

LEMMA CmdTypes == None \in CmdType /\ Idle \in JobType
BY Bounds DEF CmdType, JobType, None, Idle, Numbers

-----------------------------------------------------------------------------
(* Operators.                                                              *)

(* GoToDbReqQueue leaves a queue of the DbWorker's commands: the entries   *)
(* that follow n and are chosen.                                           *)
LEMMA HandedOn ==
    ASSUME NEW n \in Nat, NEW m \in Nat, n <= m, NEW pl,
           \A e \in (n + 1) .. m : e \in Entries /\ pl[e] = "chosen",
           dbq \in Seq(CmdType), \A i \in 1 .. Len(dbq) : GoodCmd(pl, dbq[i]),
           GoToDbReqQueue(n, m)
    PROVE  /\ dbq' \in Seq(CmdType) /\ Len(dbq') <= QueueSize
           /\ \A i \in 1 .. Len(dbq') : GoodCmd(pl, dbq'[i])
<1> DEFINE h == Handed(n, m)
           q == dbq \o h
           k == Min({Len(q), QueueSize})
<1>1. h \in Seq(CmdType) /\ Len(h) = m - n
  <2>1. \A i \in 1 .. m - n : n + i \in (n + 1) .. m
    OBVIOUS
  <2>2. \A i \in 1 .. m - n : Cmd(n + i, n + i) \in CmdType
    BY <2>1, Bounds DEF Cmd, CmdType, Entries
  <2>3. m - n \in Nat
    OBVIOUS
  <2> QED
    BY <2>2, <2>3 DEF Handed
<1>2. \A i \in 1 .. Len(h) : GoodCmd(pl, h[i])
  <2> SUFFICES ASSUME NEW i \in 1 .. m - n PROVE GoodCmd(pl, h[i])
    BY <1>1
  <2>1. h[i] = Cmd(n + i, n + i) /\ n + i \in (n + 1) .. m
    BY DEF Handed
  <2> QED
    BY <2>1 DEF GoodCmd, Cmd
<1> HIDE DEF h
<1>3. q \in Seq(CmdType) /\ Len(q) = Len(dbq) + Len(h)
  BY <1>1
<1>4. ASSUME NEW i \in 1 .. Len(q) PROVE GoodCmd(pl, q[i])
  <2>1. CASE i <= Len(dbq)
    <3>1. q[i] = dbq[i] /\ i \in 1 .. Len(dbq)
      BY <1>1, <2>1
    <3> QED
      BY <3>1
  <2>2. CASE i > Len(dbq)
    <3>1. q[i] = h[i - Len(dbq)] /\ i - Len(dbq) \in 1 .. Len(h)
      BY <1>1, <1>3, <2>2
    <3> QED
      BY <1>2, <3>1
  <2> QED
    BY <1>1, <1>3, <2>1, <2>2
<1>5. dbq' = SubSeq(q, 1, k)
  BY DEF GoToDbReqQueue, h
<1> HIDE DEF q
<1>6. k \in Nat /\ k <= Len(q) /\ k <= QueueSize
  BY <1>3, Bounds, MinOfTwo, SMTT(30)
<1> HIDE DEF k
<1>7. dbq' \in Seq(CmdType) /\ Len(dbq') = k /\ \A i \in 1 .. k : dbq'[i] = q[i]
  BY <1>3, <1>5, <1>6
<1>8. \A i \in 1 .. k : i \in 1 .. Len(q)
  BY <1>3, <1>6
<1> QED
  BY <1>4, <1>6, <1>7, <1>8

(* TryCatchup moves max_cont_chosen_entry over entries that are chosen in  *)
(* memory, at most to max_chosen_entry.                                    *)
LEMMA CatchupMoves ==
    ASSUME NEW n, NEW ei, NEW known, TryCatchup(n, ei, known),
           ei \in EntityInfo,
           ei.max_cont <= ei.max_chosen, ei.max_catchup <= ei.max_chosen,
           ei.max_chosen = Unset => ei.max_cont = Unset, known \subseteq Entries
    PROVE  /\ ent' \in EntityInfo /\ mem' \subseteq known
           /\ ent'.at = ei.at /\ ent'.committed = ei.committed
           /\ ent'.max_chosen = ei.max_chosen
           /\ ent'.recover_pending = ei.recover_pending /\ ent'.recent = ei.recent
           /\ ei.max_cont <= ent'.max_cont /\ ent'.max_cont <= ei.max_chosen
           /\ ent'.max_catchup <= ei.max_chosen
           /\ (ei.max_cont + 1) .. ent'.max_cont \subseteq known
           /\ GoToDbReqQueue(n, ent'.max_cont)
<1> USE Bounds
<1>1. CASE ~Catching(ei)
  <2>1. ent' = ei /\ mem' = known /\ GoToDbReqQueue(n, ei.max_cont)
    BY <1>1 DEF TryCatchup
  <2>2. ei.max_cont \in Nat
    BY DEF EntityInfo
  <2>3. ei.max_cont <= ei.max_cont /\ (ei.max_cont + 1) .. ei.max_cont \subseteq known
    BY <2>2
  <2> QED
    BY <2>1, <2>3
<1>2. CASE Catching(ei)
  <2> DEFINE dest == CatchupDest(ei)
             S == {m \in ei.max_cont .. dest : (ei.max_cont + 1) .. m \subseteq known}
             last == Max(S)
  <2>1. /\ ei.max_cont < ei.max_chosen /\ ei.max_chosen \in 0 .. MaxEntry
        /\ ei.max_cont \in 0 .. MaxEntry
    BY <1>2 DEF Catching, Numbers, EntityInfo
  <2>2. dest \in 0 .. MaxEntry /\ ei.max_cont <= dest /\ dest <= ei.max_chosen
    <3>1. CASE ei.max_cont < ei.max_catchup
      <4>1. dest = ei.max_catchup
        BY <3>1 DEF CatchupDest
      <4> QED
        BY <3>1, <4>1, <2>1 DEF Numbers, EntityInfo
    <3>2. CASE ~(ei.max_cont < ei.max_catchup)
      <4>1. dest = Min({ei.max_chosen, ei.max_cont + MaxCatchupNum})
        BY <3>2 DEF CatchupDest
      <4>2. dest = IF ei.max_chosen <= ei.max_cont + MaxCatchupNum THEN ei.max_chosen
                   ELSE ei.max_cont + MaxCatchupNum
        BY <2>1, <4>1, MinOfTwo
      <4> QED
        BY <2>1, <4>2
    <3> QED
      BY <3>1, <3>2
  <2>3. /\ ent' = [ei EXCEPT !.max_cont = last, !.max_catchup = dest]
        /\ mem' = {e \in known : e > last}
        /\ GoToDbReqQueue(n, last)
    BY <1>2 DEF TryCatchup
  <2> HIDE DEF dest
  <2>4. S \in SUBSET Nat /\ ei.max_cont \in S /\ \A x \in S : x <= MaxEntry
    BY <2>1, <2>2
  <2>5. last \in S
    BY <2>4, MaxOfBounded
  <2> HIDE DEF last
  <2>6. last \in ei.max_cont .. dest /\ (ei.max_cont + 1) .. last \subseteq known
    BY <2>5
  <2>7. last \in Numbers /\ dest \in Numbers
    BY <2>1, <2>2, <2>6 DEF Numbers
  <2>8. ei.max_cont <= last /\ last <= ei.max_chosen /\ mem' \subseteq known
    BY <2>1, <2>2, <2>3, <2>6
  <2>9. ent' \in EntityInfo /\ ent'.max_cont = last /\ ent'.max_catchup = dest
    BY <2>3, <2>7 DEF EntityInfo
  <2>10. /\ ent'.at = ei.at /\ ent'.committed = ei.committed
         /\ ent'.max_chosen = ei.max_chosen
         /\ ent'.recover_pending = ei.recover_pending /\ ent'.recent = ei.recent
    BY <2>3 DEF EntityInfo
  <2> QED
    BY <2>2, <2>3, <2>6, <2>8, <2>9, <2>10
<1> QED
  BY <1>1, <1>2

(* The numbers in the records of TypeOK.                                   *)
LEMMA EntityFields ==
    ASSUME NEW ei \in EntityInfo
    PROVE  /\ ei.committed \in Nat /\ ei.max_chosen \in Nat
           /\ ei.max_cont \in Nat /\ ei.max_catchup \in Nat
           /\ ei.committed \in Numbers /\ ei.max_chosen \in Numbers
           /\ ei.max_cont \in Numbers /\ ei.max_catchup \in Numbers
           /\ ei.recover_pending \in BOOLEAN /\ ei.recent \in BOOLEAN
<1>1. /\ ei.committed \in Numbers /\ ei.max_chosen \in Numbers
      /\ ei.max_cont \in Numbers /\ ei.max_catchup \in Numbers
      /\ ei.recover_pending \in BOOLEAN /\ ei.recent \in BOOLEAN
  BY DEF EntityInfo
<1> QED
  BY <1>1, Bounds

LEMMA RecoverFields ==
    ASSUME NEW w \in RecoverType
    PROVE  /\ w.req \in 0 .. QueueSize /\ w.req \in Nat
           /\ w.snap \in 0 .. MaxEntry /\ w.snap \in Nat
           /\ w.job \in JobType /\ w.job.entry \in Numbers /\ w.job.entry \in Nat
           /\ w.rsp \in Seq(JobType)
<1>1. /\ w.req \in 0 .. QueueSize /\ w.snap \in 0 .. MaxEntry
      /\ w.job \in JobType /\ w.rsp \in Seq(JobType)
  BY DEF RecoverType
<1>2. w.job.entry \in Numbers
  BY <1>1 DEF JobType
<1>3. w.job.entry \in Nat
  BY <1>2, Bounds
<1>4. w.req \in Nat /\ w.snap \in Nat
  BY <1>1, Bounds
<1> QED
  BY <1>1, <1>2, <1>3, <1>4

-----------------------------------------------------------------------------
(* What is backed stays so when the plog and the snapshots grow.           *)
LEMMA BackedMono ==
    ASSUME NEW pl, NEW s \in Nat, NEW pl2, NEW s2 \in Nat, s <= s2,
           \A e \in Entries : pl[e] = "chosen" => pl2[e] = "chosen"
    PROVE  /\ \A e : Backed(pl, s, e) => Backed(pl2, s2, e)
           /\ \A n : AllBacked(pl, s, n) => AllBacked(pl2, s2, n)
           /\ \A c : GoodCmd(pl, c) => GoodCmd(pl2, c)
<1>1. \A e : Backed(pl, s, e) => Backed(pl2, s2, e)
  BY Bounds DEF Backed
<1>2. \A n : AllBacked(pl, s, n) => AllBacked(pl2, s2, n)
  BY <1>1 DEF AllBacked
<1>3. \A c : GoodCmd(pl, c) => GoodCmd(pl2, c)
  BY DEF GoodCmd
<1> QED
  BY <1>1, <1>2, <1>3

(* A step of the EntityWorker: it leaves the Db, the commands that the     *)
(* workers hold and the callers alone.                                     *)
LEMMA EntityFrame ==
    ASSUME CommitInv,
           plog' \in [Entries -> {"none", "accepted", "chosen"}],
           \A e \in Entries : plog[e] = "chosen" => plog'[e] = "chosen",
           ent' \in EntityInfo, Marks',
           AllBacked(plog', rec.snap, ent'.max_cont),
           ent'.at = "read" => AllBacked(plog', rec.snap, ent'.committed),
           ent.at = "loaded" => ent'.at = "loaded" /\ ent.max_chosen <= ent'.max_chosen,
           mem' \subseteq Entries, \A e \in mem' : plog'[e] = "chosen",
           userq' \subseteq {"catchup", "recover"},
           dbq' \in Seq(CmdType), Len(dbq') <= QueueSize,
           \A i \in 1 .. Len(dbq') : GoodCmd(plog', dbq'[i]),
           rec' \in RecoverType, rec'.snap = rec.snap, Answers', RecoveryUnderWay',
           env' \in ScenarioType, env'.routines = env.routines,
           UNCHANGED <<db, dump, dbjobs, limq, pending, limjobs, raised, replay>>
    PROVE  CommitInv'
<1>0. rec.snap \in Nat /\ rec'.snap \in Nat /\ rec.snap <= rec'.snap
  BY Bounds DEF CommitInv, TypeOK, RecoverType
<1>m. /\ \A e : Backed(plog, rec.snap, e) => Backed(plog', rec'.snap, e)
      /\ \A n : AllBacked(plog, rec.snap, n) => AllBacked(plog', rec'.snap, n)
      /\ \A c : GoodCmd(plog, c) => GoodCmd(plog', c)
  BY <1>0, BackedMono
<1>1. TypeOK' /\ Routines' = Routines
  BY DEF CommitInv, TypeOK, Routines
<1>2. DbShape' /\ DbHasChosenValuesUnraised' /\ ReplayIsFresh' /\ Values'
  BY <1>1 DEF CommitInv, DbShape, DbHasChosenValuesUnraised, DbHasChosenValues, DbHolds,
              Blank, ReplayIsFresh, Values
<1>d. Dumped'
  BY <1>m DEF CommitInv, Dumped
<1>3. Backing'
  BY <1>m DEF CommitInv, Backing
<1>4. Commands'
  BY <1>m DEF CommitInv, Commands
<1>5. Requests'
  BY <1>1, <1>m DEF CommitInv, Requests
<1>6. ReplayKnows'
  <2>1. /\ replay.known \in Nat /\ ent.max_chosen \in Nat /\ ent'.max_chosen \in Nat
    BY Bounds DEF CommitInv, TypeOK, ReplayType, EntityInfo
  <2> QED
    BY <1>0, <2>1 DEF CommitInv, ReplayKnows
<1> QED
  BY <1>d, <1>1, <1>2, <1>3, <1>4, <1>5, <1>6 DEF CommitInv

-----------------------------------------------------------------------------
(* The EntityWorker, action by action.                                     *)

LEMMA CreatedEntity ==
    ASSUME CommitInv
    PROVE  /\ Created \in EntityInfo /\ Created.at # "absent"
           /\ Created.max_cont <= Created.max_chosen
           /\ Created.max_catchup <= Created.max_chosen
           /\ Created.max_chosen = Unset => Created.max_cont = Unset
           /\ Created.at # "loaded" => OfSnapshot(rec.snap, Created.max_chosen)
           /\ AllBacked(plog, rec.snap, Created.max_cont)
           /\ Created.at = "read" => AllBacked(plog, rec.snap, Created.committed)
           /\ ent.at = "loaded" => Created.at = "loaded" /\ ent.max_chosen <= Created.max_chosen
           /\ Created.recover_pending => ent.recover_pending
<1>0. ent \in EntityInfo /\ rec.snap \in Nat /\ ent.max_chosen \in Nat
  BY EntityFields, RecoverFields DEF CommitInv, TypeOK
<1>1. CASE ent.at = "absent"
  <2>1. Created = [Absent EXCEPT !.at = "loading"]
    BY <1>1 DEF Created
  <2>2. AllBacked(plog, rec.snap, 0)
    BY DEF AllBacked
  <2>3. /\ Created.at = "loading" /\ Created.max_cont = 0 /\ Created.max_chosen = 0
        /\ Created.max_catchup = 0 /\ Created.recover_pending = FALSE
    BY <2>1 DEF Absent
  <2>4. Created \in EntityInfo
    BY <2>1, Bounds DEF Absent, EntityInfo
  <2> QED
    BY <1>0, <1>1, <2>1, <2>2, <2>3, <2>4, Bounds DEF OfSnapshot
<1>2. CASE ent.at # "absent"
  BY <1>0, <1>2 DEF Created, CommitInv, Marks, Backing
<1> QED
  BY <1>1, <1>2

LEMMA CreateEntityInv == CommitInv /\ CreateEntity => CommitInv'
<1> SUFFICES ASSUME CommitInv, CreateEntity PROVE CommitInv'
  OBVIOUS
<1>1. ent' = Created /\ UNCHANGED <<plog, db, dump, mem, userq, workers, rec, replay, env>>
  BY DEF CreateEntity
<1>2. Marks' /\ RecoveryUnderWay' /\ Answers'
  BY <1>1, CreatedEntity DEF Marks, CommitInv, RecoveryUnderWay, Answers
<1> QED
  BY <1>1, <1>2, CreatedEntity, EntityFrame
     DEF workers, CommitInv, TypeOK, Backing, Commands

LEMMA LoadMaxEntryInv == CommitInv /\ LoadMaxEntry => CommitInv'
<1> SUFFICES ASSUME CommitInv, LoadMaxEntry PROVE CommitInv'
  OBVIOUS
<1>1. /\ ent.at = "loading" /\ ent' = [ent EXCEPT !.at = "read", !.committed = db.entry]
      /\ UNCHANGED <<plog, db, dump, mem, userq, workers, rec, replay, env>>
  BY DEF LoadMaxEntry
<1>2. /\ ent \in EntityInfo /\ db.entry \in Numbers /\ db.flag \in {"normal", "recover"}
      /\ ent.max_chosen \in Nat /\ rec.snap \in Nat
  BY EntityFields, RecoverFields DEF CommitInv, TypeOK, DbType
<1>3. /\ ent' \in EntityInfo /\ ent'.at = "read" /\ ent'.committed = db.entry
      /\ ent'.max_cont = ent.max_cont /\ ent'.max_chosen = ent.max_chosen
      /\ ent'.max_catchup = ent.max_catchup
      /\ ent'.recover_pending = ent.recover_pending
  BY <1>1, <1>2 DEF EntityInfo
<1>4. AllBacked(plog, rec.snap, db.entry)
  <2>1. CASE db.flag = "normal"
    BY <2>1 DEF CommitInv, Backing
  <2>2. CASE db.flag = "recover"
    <3>1. db.entry \notin 0 .. MaxEntry
      BY <2>2, Bounds DEF CommitInv, DbShape
    <3> QED
      BY <3>1 DEF AllBacked
  <2> QED
    BY <1>2, <2>1, <2>2
<1>5. Marks' /\ RecoveryUnderWay' /\ Answers'
  BY <1>1, <1>3 DEF Marks, CommitInv, RecoveryUnderWay, Answers
<1> QED
  BY <1>1, <1>2, <1>3, <1>4, <1>5, EntityFrame
     DEF workers, CommitInv, TypeOK, Backing, Commands

(* Loading raises every mark at most to what the Db had, or to the entry   *)
(* before the last one of the plog.                                        *)
LEMMA LoadedEntity ==
    ASSUME CommitInv, ent.at = "read"
    PROVE  LET ei == UpdateByLoadFromPlog
           IN  /\ ei \in EntityInfo /\ ei.at = "loaded"
               /\ ei.max_cont <= ei.max_chosen /\ ei.max_catchup <= ei.max_chosen
               /\ ei.max_chosen = Unset => ei.max_cont = Unset
               /\ ent.max_chosen <= ei.max_chosen
               /\ ei.max_cont \in {ent.max_cont, ent.committed}
               /\ ei.recover_pending = ent.recover_pending
<1> DEFINE S == {0} \cup {e \in Entries : plog[e] # "none"}
           top == Max(S)
           n == ent.committed
           chosen == Max({ent.max_chosen, top - 1, n})
           cont == Max({ent.max_cont, n})
           catchup == Max({ent.max_catchup, n})
           ei == UpdateByLoadFromPlog
<1>1. ent \in EntityInfo
  BY DEF CommitInv, TypeOK
<1>2. ei = [ent EXCEPT !.at = "loaded", !.committed = 0, !.max_chosen = chosen,
                       !.max_cont = cont, !.max_catchup = catchup]
  BY DEF UpdateByLoadFromPlog
<1> HIDE DEF ei
<1>3. top \in 0 .. MaxEntry
  <2>1. S \in SUBSET Nat /\ S # {} /\ \A x \in S : x <= MaxEntry /\ x \in 0 .. MaxEntry
    BY Bounds DEF Entries
  <2>2. top \in S
    BY <2>1, Bounds, MaxOfBounded
  <2> QED
    BY <2>1, <2>2
<1> HIDE DEF top
<1>4. /\ n \in Numbers /\ n \in Nat /\ ent.max_chosen \in Nat /\ ent.max_cont \in Nat
      /\ ent.max_catchup \in Nat
      /\ ent.max_chosen \in Numbers /\ ent.max_cont \in Numbers /\ ent.max_catchup \in Numbers
  BY <1>1, EntityFields
<1> HIDE DEF n
<1>5. /\ chosen = IF ent.max_chosen >= top - 1 /\ ent.max_chosen >= n THEN ent.max_chosen
                  ELSE IF top - 1 >= n THEN top - 1 ELSE n
      /\ cont = IF ent.max_cont >= n THEN ent.max_cont ELSE n
      /\ catchup = IF ent.max_catchup >= n THEN ent.max_catchup ELSE n
  BY <1>3, <1>4, Bounds, MaxOfTwo, MaxOfThree
<1> HIDE DEF chosen, cont, catchup
<1>6. chosen \in Numbers /\ cont \in Numbers /\ catchup \in Numbers
  BY <1>3, <1>4, <1>5, Bounds DEF Numbers
<1>7. /\ ei \in EntityInfo /\ ei.at = "loaded" /\ ei.max_chosen = chosen
      /\ ei.max_cont = cont /\ ei.max_catchup = catchup
      /\ ei.recover_pending = ent.recover_pending
  BY <1>1, <1>2, <1>6, Bounds DEF EntityInfo
<1>8. /\ cont <= chosen /\ catchup <= chosen /\ ent.max_chosen <= chosen
      /\ cont \in {ent.max_cont, n}
  BY <1>3, <1>4, <1>5 DEF CommitInv, Marks
<1>9. chosen = Unset => cont = Unset
  BY <1>3, <1>4, <1>5, Bounds DEF CommitInv, Marks, Numbers
<1> QED
  BY <1>7, <1>8, <1>9 DEF ei, n

LEMMA HandleLoadFromPlogInv == CommitInv /\ HandleLoadFromPlog => CommitInv'
<1> SUFFICES ASSUME CommitInv, HandleLoadFromPlog PROVE CommitInv'
  OBVIOUS
<1>1. ent.at = "read" /\ UNCHANGED <<plog, db, dump, mem, userq, workers, rec, replay>>
  BY DEF HandleLoadFromPlog
<1>2. ent \in EntityInfo /\ rec.snap \in Nat /\ env \in ScenarioType
  BY RecoverFields DEF CommitInv, TypeOK
<1>3. env' \in ScenarioType /\ env'.routines = env.routines
  BY <1>2 DEF HandleLoadFromPlog, Fine, Faulty, ScenarioType
<1>4. CASE ent' = UpdateByLoadFromPlog
  <2>1. /\ ent' \in EntityInfo /\ ent'.at = "loaded"
        /\ ent'.max_cont <= ent'.max_chosen /\ ent'.max_catchup <= ent'.max_chosen
        /\ ent'.max_chosen = Unset => ent'.max_cont = Unset
        /\ ent.max_chosen <= ent'.max_chosen
        /\ ent'.max_cont \in {ent.max_cont, ent.committed}
        /\ ent'.recover_pending = ent.recover_pending
    BY <1>1, <1>4, LoadedEntity
  <2>2. AllBacked(plog, rec.snap, ent'.max_cont)
    BY <1>1, <2>1 DEF CommitInv, Backing
  <2>3. Marks' /\ RecoveryUnderWay' /\ Answers'
    BY <1>1, <2>1 DEF Marks, CommitInv, RecoveryUnderWay, Answers
  <2> QED
    BY <1>1, <1>3, <2>1, <2>2, <2>3, EntityFrame
       DEF workers, CommitInv, TypeOK, Backing, Commands
<1>5. CASE ent' = Absent
  <2>1. /\ ent' \in EntityInfo /\ ent'.at = "absent" /\ ent'.max_cont = 0
        /\ ent'.max_chosen = 0 /\ ent'.max_catchup = 0 /\ ent'.recover_pending = FALSE
    BY <1>5, Bounds DEF Absent, EntityInfo
  <2>2. AllBacked(plog, rec.snap, 0)
    BY DEF AllBacked
  <2>3. Marks' /\ RecoveryUnderWay' /\ Answers'
    BY <1>1, <1>2, <2>1, Bounds DEF Marks, CommitInv, RecoveryUnderWay, Answers, OfSnapshot
  <2> QED
    BY <1>1, <1>3, <2>1, <2>2, <2>3, EntityFrame
       DEF workers, CommitInv, TypeOK, Backing, Commands
<1> QED
  BY <1>4, <1>5 DEF HandleLoadFromPlog

LEMMA LearnInv == ASSUME CommitInv, NEW e \in Chosen, Learn(e) PROVE CommitInv'
<1> DEFINE next == ent.max_cont + 1 = e
           last == IF next THEN e ELSE ent.max_cont
           top == Max({ent.max_chosen, e})
<1>1. /\ ent.at = "loaded" /\ e > ent.max_cont /\ e \notin mem
      /\ plog' = [plog EXCEPT ![e] = "chosen"]
      /\ UNCHANGED <<db, dump, userq, dbjobs, limq, pending, limjobs, raised, rec, replay, env>>
  BY DEF Learn, Loaded
<1>2. /\ ent' = [ent EXCEPT !.max_chosen = top, !.max_cont = last]
      /\ mem' = IF next THEN mem ELSE mem \cup {e}
      /\ GoToDbReqQueue(ent.max_cont, last)
  BY DEF Learn, UpdateByChosenEntry
<1>3. /\ ent \in EntityInfo /\ rec.snap \in Nat /\ env \in ScenarioType
      /\ ent.max_cont \in Nat /\ ent.max_chosen \in Nat /\ ent.max_catchup \in Nat
      /\ ent.max_cont \in Numbers /\ ent.max_chosen \in Numbers
  BY EntityFields, RecoverFields DEF CommitInv, TypeOK
<1>4. e \in Entries /\ e \in Nat /\ e <= MaxEntry
  BY <1>3, Bounds DEF Chosen, Entries, ScenarioType
<1>5. /\ top = IF ent.max_chosen >= e THEN ent.max_chosen ELSE e
      /\ last \in Nat /\ ent.max_cont <= last /\ last <= top /\ ent.max_chosen <= top
      /\ top \in Numbers /\ last \in Numbers /\ top \in 0 .. MaxEntry
  <2>1. top = IF ent.max_chosen >= e THEN ent.max_chosen ELSE e
    BY <1>3, <1>4, MaxOfTwo
  <2>2. ent.max_chosen # Unset
    BY <1>1, <1>3, <1>4, Bounds DEF CommitInv, Marks
  <2> QED
    BY <1>1, <1>3, <1>4, <2>1, <2>2, Bounds DEF CommitInv, Marks, Numbers
<1>6. \A x \in (ent.max_cont + 1) .. last : x = e
  BY <1>3, <1>4
<1> HIDE DEF top, last
<1>7. /\ ent' \in EntityInfo /\ ent'.at = "loaded" /\ ent'.max_chosen = top
      /\ ent'.max_cont = last /\ ent'.max_catchup = ent.max_catchup
      /\ ent'.recover_pending = ent.recover_pending
  BY <1>1, <1>2, <1>3, <1>5 DEF EntityInfo
<1>8. /\ plog' \in [Entries -> {"none", "accepted", "chosen"}] /\ plog'[e] = "chosen"
      /\ \A x \in Entries : plog[x] = "chosen" => plog'[x] = "chosen"
  BY <1>1, <1>4 DEF CommitInv, TypeOK
<1>9. Marks' /\ RecoveryUnderWay' /\ Answers'
  <2>1. Marks'
    BY <1>3, <1>5, <1>7, Bounds DEF Marks, CommitInv
  <2> QED
    BY <1>1, <1>7, <2>1 DEF CommitInv, RecoveryUnderWay, Answers
<1>10. AllBacked(plog', rec.snap, last)
  <2>1. \A x \in 1 .. ent.max_cont : ent.max_cont \in 0 .. MaxEntry => Backed(plog, rec.snap, x)
    BY DEF CommitInv, Backing, AllBacked
  <2>2. \A x \in 1 .. ent.max_cont : ent.max_cont \in 0 .. MaxEntry => Backed(plog', rec.snap, x)
    BY <1>3, <1>8, <2>1, BackedMono
  <2>3. Backed(plog', rec.snap, e)
    BY <1>8 DEF Backed
  <2>4. ent.max_cont \in 0 .. MaxEntry
    BY <1>1, <1>3, <1>4, Bounds
  <2>5. \A x \in 1 .. last : x \in 1 .. ent.max_cont \/ x = e
    BY <1>3, <1>4 DEF last
  <2> QED
    BY <2>2, <2>3, <2>4, <2>5 DEF AllBacked
<1>11. /\ mem' \subseteq Entries /\ \A x \in mem' : plog'[x] = "chosen"
  BY <1>2, <1>4, <1>8 DEF CommitInv, TypeOK, Backing
<1>12. /\ dbq' \in Seq(CmdType) /\ Len(dbq') <= QueueSize
       /\ \A i \in 1 .. Len(dbq') : GoodCmd(plog', dbq'[i])
  <2>1. \A i \in 1 .. Len(dbq) : GoodCmd(plog', dbq[i])
    BY <1>3, <1>8, BackedMono DEF CommitInv, Commands
  <2>2. \A x \in (ent.max_cont + 1) .. last : x \in Entries /\ plog'[x] = "chosen"
    BY <1>4, <1>6, <1>8
  <2>3. dbq \in Seq(CmdType)
    BY DEF CommitInv, TypeOK
  <2> QED
    BY <1>2, <1>3, <1>5, <2>1, <2>2, <2>3, HandedOn
<1> QED
  BY <1>1, <1>3, <1>5, <1>7, <1>8, <1>9, <1>10, <1>11, <1>12, EntityFrame
     DEF CommitInv, TypeOK

LEMMA AcceptInv == ASSUME CommitInv, NEW e \in Chosen, Accept(e) PROVE CommitInv'
<1>1. /\ plog[e] = "none" /\ plog' = [plog EXCEPT ![e] = "accepted"]
      /\ UNCHANGED <<db, dump, entity, workers, rec, replay, env>>
  BY DEF Accept
<1>2. rec.snap \in Nat /\ env \in ScenarioType
  BY RecoverFields DEF CommitInv, TypeOK
<1>3. e \in Entries
  BY <1>2, Bounds DEF Chosen, Entries, ScenarioType
<1>4. /\ plog' \in [Entries -> {"none", "accepted", "chosen"}]
      /\ \A x \in Entries : plog[x] = "chosen" => plog'[x] = "chosen"
  BY <1>1, <1>3 DEF CommitInv, TypeOK
<1>5. /\ \A n : AllBacked(plog, rec.snap, n) => AllBacked(plog', rec.snap, n)
      /\ \A c : GoodCmd(plog, c) => GoodCmd(plog', c)
  BY <1>2, <1>4, BackedMono
<1>6. Marks' /\ RecoveryUnderWay' /\ Answers'
  BY <1>1 DEF Marks, CommitInv, RecoveryUnderWay, Answers, entity
<1>7. \A x \in mem : plog'[x] = "chosen"
  BY <1>4 DEF CommitInv, TypeOK, Backing
<1>8. ent \in EntityInfo /\ ent.max_chosen \in Nat
  BY EntityFields DEF CommitInv, TypeOK
<1>9. /\ UNCHANGED <<ent, mem, userq, dbq, rec, env>>
      /\ UNCHANGED <<db, dump, dbjobs, limq, pending, limjobs, raised, replay>>
      /\ ent.max_chosen <= ent.max_chosen
  BY <1>1, <1>8 DEF entity, workers
<1>10. /\ AllBacked(plog', rec.snap, ent.max_cont)
       /\ ent.at = "read" => AllBacked(plog', rec.snap, ent.committed)
       /\ \A i \in 1 .. Len(dbq) : GoodCmd(plog', dbq[i])
  BY <1>5 DEF CommitInv, Backing, Commands
<1> QED
  BY <1>4, <1>6, <1>7, <1>9, <1>10, EntityFrame DEF CommitInv, TypeOK

(* What TryCatchup leaves behind.                                          *)
LEMMA CatchupFrame ==
    ASSUME CommitInv, NEW n \in Nat, NEW ei \in EntityInfo, NEW known \in SUBSET Entries,
           TryCatchup(n, ei, known),
           ei.max_cont <= ei.max_chosen, ei.max_catchup <= ei.max_chosen,
           ei.max_chosen = Unset => ei.max_cont = Unset,
           AllBacked(plog, rec.snap, ei.max_cont),
           \A e \in known : plog[e] = "chosen",
           n <= ei.max_cont,
           \A e \in (n + 1) .. ei.max_cont : e \in Entries /\ plog[e] = "chosen"
    PROVE  /\ ent' \in EntityInfo /\ ent'.at = ei.at /\ ent'.committed = ei.committed
           /\ ent'.max_chosen = ei.max_chosen
           /\ ent'.recover_pending = ei.recover_pending
           /\ ent'.max_cont <= ent'.max_chosen /\ ent'.max_catchup <= ent'.max_chosen
           /\ ent'.max_chosen = Unset => ent'.max_cont = Unset
           /\ AllBacked(plog, rec.snap, ent'.max_cont)
           /\ mem' \subseteq Entries /\ \A e \in mem' : plog[e] = "chosen"
           /\ dbq' \in Seq(CmdType) /\ Len(dbq') <= QueueSize
           /\ \A i \in 1 .. Len(dbq') : GoodCmd(plog, dbq'[i])
<1>1. /\ ent' \in EntityInfo /\ mem' \subseteq known
      /\ ent'.at = ei.at /\ ent'.committed = ei.committed
      /\ ent'.max_chosen = ei.max_chosen
      /\ ent'.recover_pending = ei.recover_pending /\ ent'.recent = ei.recent
      /\ ei.max_cont <= ent'.max_cont /\ ent'.max_cont <= ei.max_chosen
      /\ ent'.max_catchup <= ei.max_chosen
      /\ (ei.max_cont + 1) .. ent'.max_cont \subseteq known
      /\ GoToDbReqQueue(n, ent'.max_cont)
  BY CatchupMoves
<1>2. ei.max_cont \in Nat /\ ent'.max_cont \in Nat /\ ei.max_chosen \in Nat
  BY <1>1, EntityFields
<1>3. ent'.max_chosen = Unset => ent'.max_cont = Unset
  BY <1>1, <1>2, Bounds
<1>4. AllBacked(plog, rec.snap, ent'.max_cont)
  <2> SUFFICES ASSUME ent'.max_cont \in 0 .. MaxEntry, NEW x \in 1 .. ent'.max_cont
               PROVE  Backed(plog, rec.snap, x)
    BY DEF AllBacked
  <2>1. CASE x <= ei.max_cont
    <3>1. ei.max_cont \in 0 .. MaxEntry /\ x \in 1 .. ei.max_cont
      BY <1>1, <1>2, <2>1, Bounds
    <3> QED
      BY <3>1 DEF AllBacked
  <2>2. CASE x > ei.max_cont
    <3>1. x \in (ei.max_cont + 1) .. ent'.max_cont
      BY <1>2, <2>2
    <3> QED
      BY <1>1, <3>1 DEF Backed
  <2> QED
    BY <1>2, <2>1, <2>2
<1>5. \A e \in (n + 1) .. ent'.max_cont : e \in Entries /\ plog[e] = "chosen"
  <2> SUFFICES ASSUME NEW x \in (n + 1) .. ent'.max_cont
               PROVE  x \in Entries /\ plog[x] = "chosen"
    OBVIOUS
  <2>1. x \in (n + 1) .. ei.max_cont \/ x \in (ei.max_cont + 1) .. ent'.max_cont
    BY <1>2
  <2> QED
    BY <1>1, <2>1
<1>6. dbq \in Seq(CmdType) /\ \A i \in 1 .. Len(dbq) : GoodCmd(plog, dbq[i])
  BY DEF CommitInv, TypeOK, Commands
<1>7. n <= ent'.max_cont
  BY <1>1, <1>2
<1>8. /\ dbq' \in Seq(CmdType) /\ Len(dbq') <= QueueSize
      /\ \A i \in 1 .. Len(dbq') : GoodCmd(plog, dbq'[i])
  BY <1>1, <1>2, <1>5, <1>6, <1>7, HandedOn
<1> QED
  BY <1>1, <1>3, <1>4, <1>8

(* An action whose effect on ent, mem and dbq is TryCatchup's.             *)
LEMMA CatchupInv ==
    ASSUME CommitInv, NEW n \in Nat, NEW ei \in EntityInfo, NEW known \in SUBSET Entries,
           TryCatchup(n, ei, known),
           ei.max_cont <= ei.max_chosen, ei.max_catchup <= ei.max_chosen,
           ei.max_chosen = Unset => ei.max_cont = Unset,
           AllBacked(plog, rec.snap, ei.max_cont),
           \A e \in known : plog[e] = "chosen",
           n <= ei.max_cont,
           \A e \in (n + 1) .. ei.max_cont : e \in Entries /\ plog[e] = "chosen",
           ei.at # "loaded" => OfSnapshot(rec.snap, ei.max_chosen),
           ei.at = "read" => AllBacked(plog, rec.snap, ei.committed),
           ent.at = "loaded" => ei.at = "loaded" /\ ent.max_chosen <= ei.max_chosen,
           ei.recover_pending => rec'.req > 0 \/ rec'.job # Idle \/ rec'.rsp # <<>>,
           userq' \subseteq {"catchup", "recover"},
           rec' \in RecoverType, rec'.snap = rec.snap, Answers',
           UNCHANGED <<plog, db, dump, dbjobs, limq, pending, limjobs, raised, replay, env>>
    PROVE  CommitInv'
<1>1. /\ ent' \in EntityInfo /\ ent'.at = ei.at /\ ent'.committed = ei.committed
      /\ ent'.max_chosen = ei.max_chosen
      /\ ent'.recover_pending = ei.recover_pending
      /\ ent'.max_cont <= ent'.max_chosen /\ ent'.max_catchup <= ent'.max_chosen
      /\ ent'.max_chosen = Unset => ent'.max_cont = Unset
      /\ AllBacked(plog, rec.snap, ent'.max_cont)
      /\ mem' \subseteq Entries /\ \A e \in mem' : plog[e] = "chosen"
      /\ dbq' \in Seq(CmdType) /\ Len(dbq') <= QueueSize
      /\ \A i \in 1 .. Len(dbq') : GoodCmd(plog, dbq'[i])
  BY CatchupFrame
<1>2. Marks' /\ RecoveryUnderWay'
  BY <1>1 DEF Marks, RecoveryUnderWay
<1> QED
  BY <1>1, <1>2, EntityFrame DEF CommitInv, TypeOK

LEMMA TickInv == CommitInv /\ Tick => CommitInv'
<1> SUFFICES ASSUME CommitInv, Tick PROVE CommitInv'
  OBVIOUS
<1>1. /\ TryCatchup(ent.max_cont, ent, mem) /\ userq' = userq \ {"catchup"}
      /\ UNCHANGED <<plog, db, dump, dbjobs, limq, pending, limjobs, raised, rec, replay, env>>
  BY DEF Tick
<1>2. /\ ent \in EntityInfo /\ rec \in RecoverType /\ ent.max_cont \in Nat
      /\ ent.max_chosen \in Nat /\ mem \in SUBSET Entries
      /\ userq' \subseteq {"catchup", "recover"}
  BY <1>1, EntityFields DEF CommitInv, TypeOK
<1>3. /\ ent.max_cont <= ent.max_cont /\ ent.max_chosen <= ent.max_chosen
      /\ \A e \in (ent.max_cont + 1) .. ent.max_cont : e \in Entries /\ plog[e] = "chosen"
  BY <1>2
<1>4. Answers'
  BY <1>1 DEF CommitInv, Answers
<1> QED
  BY <1>1, <1>2, <1>3, <1>4, CatchupInv
     DEF CommitInv, Marks, Backing, RecoveryUnderWay

LEMMA GetFromPlogInv == ASSUME CommitInv, NEW e, GetFromPlog(e) PROVE CommitInv'
<1>1. /\ ent.at = "loaded" /\ e \in (ent.max_cont + 1) .. ent.max_catchup
      /\ plog[e] = "chosen"
      /\ UNCHANGED <<plog, db, dump, userq, dbjobs, limq, pending, limjobs, raised, rec, replay, env>>
  BY DEF GetFromPlog, Loaded
<1>2. /\ ent \in EntityInfo /\ rec \in RecoverType /\ ent.max_cont \in Nat
      /\ ent.max_chosen \in Nat /\ ent.max_catchup \in Nat /\ mem \in SUBSET Entries
      /\ ent.max_chosen \in Numbers /\ userq' \subseteq {"catchup", "recover"}
      /\ rec.snap \in Nat
  BY <1>1, EntityFields, RecoverFields DEF CommitInv, TypeOK
<1>3. /\ e \in Entries /\ e \in Nat /\ e <= ent.max_chosen /\ ent.max_cont < e
      /\ ent.max_chosen # Unset
  BY <1>1, <1>2, Bounds DEF CommitInv, Marks, Entries, Numbers
<1>4. Answers' /\ ent.max_chosen <= ent.max_chosen
  BY <1>1, <1>2 DEF CommitInv, Answers
<1>5. CASE ent.max_cont + 1 = e
  <2> DEFINE ei == [ent EXCEPT !.max_cont = e]
  <2>1. TryCatchup(ent.max_cont, ei, mem)
    BY <1>5 DEF GetFromPlog
  <2>2. /\ ei \in EntityInfo /\ ei.max_cont = e /\ ei.at = "loaded"
        /\ ei.max_chosen = ent.max_chosen /\ ei.max_catchup = ent.max_catchup
        /\ ei.recover_pending = ent.recover_pending
    BY <1>1, <1>2, <1>3, Bounds DEF EntityInfo
  <2> HIDE DEF ei
  <2>3. \A x \in (ent.max_cont + 1) .. ei.max_cont : x \in Entries /\ plog[x] = "chosen"
    BY <1>1, <1>2, <1>3, <1>5, <2>2
  <2>4. AllBacked(plog, rec.snap, ei.max_cont)
    <3> SUFFICES ASSUME NEW x \in 1 .. e PROVE Backed(plog, rec.snap, x)
      BY <2>2 DEF AllBacked
    <3>1. CASE x = e
      BY <1>1, <3>1 DEF Backed
    <3>2. CASE x # e
      <4>1. x \in 1 .. ent.max_cont /\ ent.max_cont \in 0 .. MaxEntry
        BY <1>2, <1>3, <1>5, <3>2, Bounds DEF Entries
      <4> QED
        BY <4>1 DEF CommitInv, Backing, AllBacked
    <3> QED
      BY <3>1, <3>2
  <2>5. ent.max_cont <= ei.max_cont /\ ei.max_cont <= ei.max_chosen
    BY <1>2, <1>3, <2>2
  <2>6. ei.recover_pending => rec'.req > 0 \/ rec'.job # Idle \/ rec'.rsp # <<>>
    BY <1>1, <2>2 DEF CommitInv, RecoveryUnderWay
  <2> QED
    BY <1>1, <1>2, <1>3, <1>4, <2>1, <2>2, <2>3, <2>4, <2>5, <2>6, CatchupInv
       DEF CommitInv, Marks, Backing
<1>6. CASE ent.max_cont + 1 # e
  <2>1. TryCatchup(ent.max_cont, ent, mem \cup {e})
    BY <1>6 DEF GetFromPlog
  <2>2. /\ ent.max_cont <= ent.max_cont
        /\ \A x \in (ent.max_cont + 1) .. ent.max_cont : x \in Entries /\ plog[x] = "chosen"
    BY <1>2
  <2>3. mem \cup {e} \in SUBSET Entries /\ \A x \in mem \cup {e} : plog[x] = "chosen"
    BY <1>1, <1>2, <1>3 DEF CommitInv, Backing
  <2> QED
    BY <1>1, <1>2, <1>4, <2>1, <2>2, <2>3, CatchupInv
       DEF CommitInv, Marks, Backing, RecoveryUnderWay
<1> QED
  BY <1>5, <1>6

(* An action whose effect on ent, rec and env is TriggerRecover's.         *)
LEMMA TriggerInv ==
    ASSUME CommitInv, NEW ei \in EntityInfo, NEW left \in ScenarioType,
           left.routines = env.routines, TriggerRecover(ei, left),
           ei.max_cont <= ei.max_chosen, ei.max_catchup <= ei.max_chosen,
           ei.max_chosen = Unset => ei.max_cont = Unset,
           ei.at # "loaded" => OfSnapshot(rec.snap, ei.max_chosen),
           AllBacked(plog, rec.snap, ei.max_cont),
           ei.at = "read" => AllBacked(plog, rec.snap, ei.committed),
           ent.at = "loaded" => ei.at = "loaded" /\ ent.max_chosen <= ei.max_chosen,
           ei.recover_pending => ent.recover_pending,
           userq' \subseteq {"catchup", "recover"},
           UNCHANGED <<plog, db, dump, mem, workers, replay>>
    PROVE  CommitInv'
<1>1. rec \in RecoverType /\ rec.req \in Nat /\ rec.req \in 0 .. QueueSize
  BY RecoverFields DEF CommitInv, TypeOK
<1>2. /\ ent' \in EntityInfo /\ ent'.at = ei.at /\ ent'.committed = ei.committed
      /\ ent'.max_chosen = ei.max_chosen /\ ent'.max_cont = ei.max_cont
      /\ ent'.max_catchup = ei.max_catchup
  BY DEF TriggerRecover, EntityInfo
<1>3. env' \in ScenarioType /\ env'.routines = env.routines
  BY DEF TriggerRecover, ScenarioType
<1>4. CASE rec' = rec /\ ent' = ei
  <2>1. Marks' /\ RecoveryUnderWay' /\ Answers'
    BY <1>4 DEF Marks, RecoveryUnderWay, Answers, CommitInv
  <2> QED
    BY <1>1, <1>2, <1>3, <1>4, <2>1, EntityFrame
       DEF CommitInv, TypeOK, workers, Backing, Commands
<1>5. CASE rec.req < QueueSize /\ rec' = [rec EXCEPT !.req = @ + 1]
  <2>1. /\ rec' \in RecoverType /\ rec'.req = rec.req + 1 /\ rec'.snap = rec.snap
        /\ rec'.job = rec.job /\ rec'.rsp = rec.rsp
    BY <1>1, <1>5, Bounds DEF RecoverType
  <2>2. rec'.req > 0
    BY <1>1, <2>1
  <2>3. Marks' /\ RecoveryUnderWay' /\ Answers'
    BY <1>2, <2>1, <2>2 DEF Marks, RecoveryUnderWay, Answers, CommitInv
  <2> QED
    BY <1>2, <1>3, <2>1, <2>3, EntityFrame
       DEF CommitInv, TypeOK, workers, Backing, Commands
<1> QED
  BY <1>4, <1>5 DEF TriggerRecover

LEMMA RecoverCmdInv == CommitInv /\ RecoverCmd => CommitInv'
<1> SUFFICES ASSUME CommitInv, RecoverCmd PROVE CommitInv'
  OBVIOUS
<1>1. /\ userq' = userq \ {"recover"} /\ TriggerRecover(Created, env)
      /\ UNCHANGED <<plog, db, dump, mem, workers, replay>>
  BY DEF RecoverCmd
<1>2. env \in ScenarioType /\ userq' \subseteq {"catchup", "recover"}
  BY <1>1 DEF CommitInv, TypeOK
<1> QED
  BY <1>1, <1>2, CreatedEntity, TriggerInv

LEMMA NotFoundInv == CommitInv /\ NotFound => CommitInv'
<1> SUFFICES ASSUME CommitInv, NotFound PROVE CommitInv'
  OBVIOUS
<1> DEFINE left == [env EXCEPT !.notfound = @ - 1]
<1>1. /\ ent.at = "loaded" /\ env.notfound > 0 /\ TriggerRecover(ent, left)
      /\ UNCHANGED <<plog, db, dump, mem, userq, workers, replay>>
  BY DEF NotFound, Loaded
<1>2. /\ env \in ScenarioType /\ userq' \subseteq {"catchup", "recover"}
      /\ ent \in EntityInfo /\ ent.max_chosen \in Nat
  BY <1>1, EntityFields DEF CommitInv, TypeOK
<1>3. left \in ScenarioType /\ left.routines = env.routines
  BY <1>1, <1>2 DEF ScenarioType
<1> HIDE DEF left
<1>4. ent.max_chosen <= ent.max_chosen
  BY <1>2
<1> QED
  BY <1>1, <1>2, <1>3, <1>4, TriggerInv DEF CommitInv, Marks, Backing

LEMMA RecoverIntervalInv == CommitInv /\ RecoverInterval => CommitInv'
<1> SUFFICES ASSUME CommitInv, RecoverInterval PROVE CommitInv'
  OBVIOUS
<1>1. /\ ent' = [ent EXCEPT !.recent = FALSE]
      /\ UNCHANGED <<plog, db, dump, mem, userq, workers, rec, replay, env>>
  BY DEF RecoverInterval
<1>2. ent \in EntityInfo /\ ent.max_chosen \in Nat
  BY EntityFields DEF CommitInv, TypeOK
<1>3. /\ ent' \in EntityInfo /\ ent'.at = ent.at /\ ent'.committed = ent.committed
      /\ ent'.max_chosen = ent.max_chosen /\ ent'.max_cont = ent.max_cont
      /\ ent'.max_catchup = ent.max_catchup /\ ent'.recover_pending = ent.recover_pending
  BY <1>1, <1>2 DEF EntityInfo
<1>4. Marks' /\ RecoveryUnderWay' /\ Answers' /\ ent.max_chosen <= ent'.max_chosen
  BY <1>1, <1>2, <1>3 DEF Marks, CommitInv, RecoveryUnderWay, Answers
<1> QED
  BY <1>1, <1>3, <1>4, EntityFrame
     DEF workers, CommitInv, TypeOK, Backing, Commands

LEMMA HandleRecoverRspCmdInv == CommitInv /\ HandleRecoverRspCmd => CommitInv'
<1> SUFFICES ASSUME CommitInv, HandleRecoverRspCmd PROVE CommitInv'
  OBVIOUS
<1> DEFINE rsp == Head(rec.rsp)
           ei == Recovered(Created, rsp.entry)
<1>1. /\ rec.rsp # <<>> /\ rec' = [rec EXCEPT !.rsp = Tail(@)]
      /\ UNCHANGED <<plog, db, dump, userq, dbjobs, limq, pending, limjobs, raised, replay, env>>
      /\ IF rsp.at = "failed"
         THEN /\ ent' = [Created EXCEPT !.recover_pending = FALSE, !.recent = TRUE]
              /\ UNCHANGED <<mem, dbq>>
         ELSE TryCatchup(ei.max_cont, ei, {e \in mem : e > ei.max_cont})
  BY DEF HandleRecoverRspCmd
<1> HIDE DEF ei
<1>2. /\ rec \in RecoverType /\ rec.rsp \in Seq(JobType) /\ rec.snap \in 0 .. MaxEntry
      /\ userq' \subseteq {"catchup", "recover"} /\ mem \in SUBSET Entries
  BY <1>1, RecoverFields DEF CommitInv, TypeOK
<1>3. /\ rec.rsp[1] = rsp /\ rsp \in JobType /\ 1 \in 1 .. Len(rec.rsp)
      /\ Tail(rec.rsp) \in Seq(JobType) /\ Len(Tail(rec.rsp)) = Len(rec.rsp) - 1
      /\ \A i \in 1 .. Len(Tail(rec.rsp)) :
            Tail(rec.rsp)[i] = rec.rsp[i + 1] /\ i + 1 \in 1 .. Len(rec.rsp)
  BY <1>1, <1>2
<1>4. /\ rec' \in RecoverType /\ rec'.snap = rec.snap /\ rec'.job = rec.job
      /\ rec'.rsp = Tail(rec.rsp)
  BY <1>1, <1>2, <1>3 DEF RecoverType
<1>5. Answers' /\ OfSnapshot(rec.snap, rsp.entry) /\ rsp.entry \in Numbers
  BY <1>3, <1>4 DEF Answers, CommitInv, JobType
<1> HIDE DEF rsp
<1>c. /\ Created \in EntityInfo
      /\ Created.max_cont <= Created.max_chosen
      /\ Created.max_catchup <= Created.max_chosen
      /\ Created.max_chosen = Unset => Created.max_cont = Unset
      /\ Created.at # "loaded" => OfSnapshot(rec.snap, Created.max_chosen)
      /\ AllBacked(plog, rec.snap, Created.max_cont)
      /\ Created.at = "read" => AllBacked(plog, rec.snap, Created.committed)
      /\ ent.at = "loaded" => Created.at = "loaded" /\ ent.max_chosen <= Created.max_chosen
  BY CreatedEntity
<1>f. /\ Created.max_cont \in Nat /\ Created.max_chosen \in Nat /\ Created.max_catchup \in Nat
      /\ Created.max_cont \in Numbers /\ Created.max_chosen \in Numbers
      /\ Created.max_catchup \in Numbers
      /\ ent.max_chosen \in Nat /\ rec.snap \in Nat
  BY <1>c, EntityFields, RecoverFields DEF CommitInv, TypeOK
<1>6. CASE rsp.at = "failed"
  <2>1. ent' = [Created EXCEPT !.recover_pending = FALSE, !.recent = TRUE]
        /\ UNCHANGED <<mem, dbq>>
    BY <1>1, <1>6
  <2>2. /\ ent' \in EntityInfo /\ ent'.at = Created.at /\ ent'.committed = Created.committed
        /\ ent'.max_chosen = Created.max_chosen /\ ent'.max_cont = Created.max_cont
        /\ ent'.max_catchup = Created.max_catchup /\ ent'.recover_pending = FALSE
    BY <1>c, <2>1 DEF EntityInfo
  <2>3. Marks' /\ RecoveryUnderWay'
    BY <1>c, <1>4, <2>2 DEF Marks, RecoveryUnderWay
  <2> QED
    BY <1>c, <1>1, <1>4, <1>5, <2>1, <2>2, <2>3, EntityFrame
       DEF CommitInv, TypeOK, Backing, Commands
<1>7. CASE rsp.at # "failed"
  <2> DEFINE n == rsp.entry
             chosen == Max({Created.max_chosen, n})
             cont == Max({Created.max_cont, n})
             catchup == Max({Created.max_catchup, n, Created.max_cont})
             known == {e \in mem : e > ei.max_cont}
  <2>1. TryCatchup(ei.max_cont, ei, known)
    BY <1>1, <1>7
  <2>2. ei = [Created EXCEPT !.recover_pending = FALSE, !.recent = TRUE,
                  !.max_chosen = chosen, !.max_cont = cont, !.max_catchup = catchup]
    BY DEF ei, Recovered
  <2>3. n \in Nat /\ n \in Numbers /\ n <= Unset
    BY <1>5, Bounds DEF Numbers
  <2>4. /\ chosen = IF Created.max_chosen >= n THEN Created.max_chosen ELSE n
        /\ cont = IF Created.max_cont >= n THEN Created.max_cont ELSE n
        /\ catchup = IF Created.max_catchup >= n /\ Created.max_catchup >= Created.max_cont
                     THEN Created.max_catchup
                     ELSE IF n >= Created.max_cont THEN n ELSE Created.max_cont
    BY <1>f, <2>3, MaxOfTwo, MaxOfThree
  <2> HIDE DEF chosen, cont, catchup, known
  <2>5. chosen \in Numbers /\ cont \in Numbers /\ catchup \in Numbers
    BY <1>f, <2>3, <2>4
  <2>6. /\ ei \in EntityInfo /\ ei.max_chosen = chosen /\ ei.max_cont = cont
        /\ ei.max_catchup = catchup /\ ei.recover_pending = FALSE /\ ei.at = Created.at
        /\ ei.committed = Created.committed
    BY <1>c, <2>2, <2>5 DEF EntityInfo
  <2>7. /\ cont <= chosen /\ catchup <= chosen /\ Created.max_chosen <= chosen
        /\ cont \in Nat
        /\ Created.at # "loaded" => OfSnapshot(rec.snap, chosen)
    BY <1>c, <1>f, <1>5, <2>3, <2>4, Bounds DEF OfSnapshot
  <2>8. chosen = Unset => cont = Unset
    <3>1. Created.max_cont <= Unset /\ Created.max_chosen <= Unset
      BY <1>f, Bounds DEF Numbers
    <3> QED
      BY <1>c, <1>f, <2>3, <2>4, <3>1, Bounds
  <2>9. ent.at = "loaded" => ei.at = "loaded" /\ ent.max_chosen <= chosen
    BY <1>c, <1>f, <2>3, <2>4, <2>6
  <2>10. AllBacked(plog, rec.snap, cont)
    <3>1. AllBacked(plog, rec.snap, n)
      BY <1>2, <1>5, Bounds DEF AllBacked, Backed, OfSnapshot
    <3> QED
      BY <1>c, <2>4, <3>1
  <2>11. known \in SUBSET Entries /\ \A e \in known : plog[e] = "chosen"
    BY <1>2 DEF known, CommitInv, Backing
  <2>12. /\ ei.max_cont \in Nat /\ ei.max_cont <= ei.max_cont
         /\ \A e \in (ei.max_cont + 1) .. ei.max_cont : e \in Entries /\ plog[e] = "chosen"
    BY <2>6, <2>7
  <2> QED
    BY <1>c, <1>1, <1>2, <1>4, <1>5, <2>1, <2>6, <2>7, <2>8, <2>9, <2>10, <2>11, <2>12, CatchupInv, ZenonT(40)
<1> QED
  BY <1>6, <1>7
-----------------------------------------------------------------------------
(* The workers and Replay.                                                 *)

(* A Db that takes the next entry, or that is left alone.                  *)
LEMMA CommitNext ==
    ASSUME CommitInv, NEW e \in Entries, NEW v \in Entries, db.flag = "normal", Commit(e, v),
           Backed(plog, rec.snap, e), raised' = raised, raised \/ v = e
    PROVE  /\ db' \in DbType /\ DbShape' /\ DbHasChosenValuesUnraised'
           /\ db'.flag = "normal" /\ AllBacked(plog, rec.snap, db'.entry)
           /\ db'.entry = e
<1>2. /\ db.entry + 1 = e /\ db' = Normal(e, Append(db.data, v))
  BY DEF Commit
<1>0. db \in DbType /\ db.entry \in Numbers /\ db.data \in Seq(Entries)
  BY DEF CommitInv, TypeOK, DbType
<1>1. db \in DbType /\ db.entry \in 0 .. MaxEntry /\ db.data \in Seq(Entries)
  BY <1>0, <1>2, Bounds DEF Numbers, Entries
<1>3. /\ db'.entry = e /\ db'.flag = "normal" /\ db'.data = Append(db.data, v)
  BY <1>2 DEF Normal
<1>4. db' \in DbType
  <2>1. Append(db.data, v) \in Seq(Entries) /\ e \in Numbers
    BY <1>1, Bounds
  <2> QED
    BY <1>2, <2>1 DEF Normal, DbType
<1>5. DbShape'
  BY <1>3, Bounds DEF DbShape, Entries
<1>6. AllBacked(plog, rec.snap, e)
  <2> SUFFICES ASSUME NEW x \in 1 .. e PROVE Backed(plog, rec.snap, x)
    BY DEF AllBacked
  <2>1. CASE x = e
    BY <2>1
  <2>2. CASE x # e
    <3>1. x \in 1 .. db.entry
      BY <1>1, <1>2, <2>2, Bounds
    <3> QED
      BY <1>1, <3>1 DEF CommitInv, Backing, AllBacked
  <2> QED
    BY <2>1, <2>2
<1>7. ASSUME ~raised PROVE DbHolds(e)'
  <2>1. v = e /\ db.data = [x \in 1 .. db.entry |-> x]
    BY <1>1, <1>7, Bounds DEF CommitInv, DbHasChosenValuesUnraised, DbHasChosenValues,
                              DbHolds, Blank
  <2>2. Append(db.data, v) = [x \in 1 .. e |-> x]
    BY <1>1, <1>2, <2>1, Bounds
  <2> QED
    BY <1>3, <2>2 DEF DbHolds
<1>8. DbHasChosenValuesUnraised'
  BY <1>3, <1>7 DEF DbHasChosenValuesUnraised, DbHasChosenValues, DbHolds
<1> QED
  BY <1>3, <1>4, <1>5, <1>6, <1>8

LEMMA SameDb ==
    ASSUME CommitInv, db' = db, raised => raised'
    PROVE  /\ db' \in DbType /\ DbShape' /\ DbHasChosenValuesUnraised'
           /\ db'.flag = "normal" => AllBacked(plog, rec.snap, db'.entry)
BY DEF CommitInv, TypeOK, DbShape, DbHasChosenValuesUnraised, DbHasChosenValues, DbHolds,
       Blank, Backing

(* A step that leaves the EntityInfo, the plog and the RecoverWorker alone. *)
LEMMA WorkerFrame ==
    ASSUME CommitInv, UNCHANGED <<plog, dump, ent, mem, rec>>,
           userq' \subseteq {"catchup", "recover"},
           env' \in ScenarioType, env'.routines = env.routines,
           db' \in DbType, DbShape', DbHasChosenValuesUnraised',
           db'.flag = "normal" => AllBacked(plog, rec.snap, db'.entry),
           dbq' \in Seq(CmdType), Len(dbq') <= QueueSize, dbjobs' \subseteq CmdType,
           limq' \in Seq(CmdType), Len(limq') <= QueueSize, pending' \in CmdType,
           limjobs' \in [Routines -> CmdType], raised' \in BOOLEAN, raised => raised',
           Commands', Requests', Values',
           replay' \in ReplayType, ReplayKnows', ReplayIsFresh'
    PROVE  CommitInv'
<1>1. Routines' = Routines
  BY DEF Routines
<1>2. TypeOK'
  BY <1>1 DEF CommitInv, TypeOK
<1>3. Marks' /\ Answers' /\ RecoveryUnderWay'
  BY DEF CommitInv, Marks, Answers, RecoveryUnderWay
<1>4. Backing'
  BY DEF CommitInv, Backing
<1>5. Dumped'
  BY DEF CommitInv, Dumped
<1> QED
  BY <1>2, <1>3, <1>4, <1>5 DEF CommitInv

LEMMA DbGetJobInv == CommitInv /\ DbGetJob => CommitInv'
<1> SUFFICES ASSUME CommitInv, DbGetJob PROVE CommitInv'
  OBVIOUS
<1>1. /\ dbq # <<>> /\ dbjobs' = dbjobs \cup {Head(dbq)} /\ dbq' = Tail(dbq)
      /\ UNCHANGED <<plog, db, dump, ent, mem, userq, limq, pending, limjobs, raised, rec, replay, env>>
  BY DEF DbGetJob, entity
<1>2. dbq \in Seq(CmdType) /\ Len(dbq) <= QueueSize
  BY DEF CommitInv, TypeOK
<1>3. /\ Head(dbq) = dbq[1] /\ 1 \in 1 .. Len(dbq) /\ Head(dbq) \in CmdType
      /\ Tail(dbq) \in Seq(CmdType) /\ Len(Tail(dbq)) <= QueueSize
      /\ \A i \in 1 .. Len(Tail(dbq)) :
            Tail(dbq)[i] = dbq[i + 1] /\ i + 1 \in 1 .. Len(dbq)
  BY <1>1, <1>2, Bounds
<1>4. Commands'
  BY <1>1, <1>3 DEF CommitInv, Commands
<1>5. Requests' /\ Values' /\ ReplayKnows' /\ ReplayIsFresh'
  BY <1>1 DEF CommitInv, Requests, Values, Routines, ReplayKnows, ReplayIsFresh
<1> QED
  BY <1>1, <1>3, <1>4, <1>5, SameDb, WorkerFrame DEF CommitInv, TypeOK

(* A request in the DbLimitedWorker's queue.                               *)
LEMMA Requested ==
    ASSUME CommitInv, NEW c \in CmdType, GoToDbLimitedReqQueue(c),
           Backed(plog, rec.snap, c.entry), c.value \in {0, c.entry},
           UNCHANGED <<plog, rec, pending, limjobs, raised>>, env'.routines = env.routines
    PROVE  /\ limq' \in Seq(CmdType) /\ Len(limq') <= QueueSize
           /\ Requests' /\ Values'
<1>1. limq \in Seq(CmdType) /\ Len(limq) <= QueueSize /\ Routines' = Routines
  BY DEF CommitInv, TypeOK, Routines
<1>2. CASE limq' = limq
  BY <1>1, <1>2 DEF CommitInv, Requests, Values
<1>3. CASE Len(limq) < QueueSize /\ limq' = Append(limq, c)
  <2>1. /\ limq' \in Seq(CmdType) /\ Len(limq') = Len(limq) + 1
        /\ \A i \in 1 .. Len(limq') :
              (i \in 1 .. Len(limq) /\ limq'[i] = limq[i]) \/ limq'[i] = c
    BY <1>1, <1>3
  <2>2. Len(limq') <= QueueSize
    BY <1>1, <1>3, <2>1, Bounds
  <2> QED
    BY <1>1, <2>1, <2>2 DEF CommitInv, Requests, Values
<1> QED
  BY <1>2, <1>3 DEF GoToDbLimitedReqQueue

LEMMA SameRequests ==
    ASSUME CommitInv, UNCHANGED <<plog, rec, limq, pending, limjobs, raised>>,
           env'.routines = env.routines
    PROVE  /\ limq' \in Seq(CmdType) /\ Len(limq') <= QueueSize
           /\ Requests' /\ Values'
BY DEF CommitInv, TypeOK, Requests, Values, Routines

LEMMA FaultEnv ==
    ASSUME CommitInv, Fine \/ Faulty
    PROVE  env' \in ScenarioType /\ env'.routines = env.routines
<1>1. env \in ScenarioType
  BY DEF CommitInv, TypeOK
<1> QED
  BY <1>1 DEF Fine, Faulty, ScenarioType

LEMMA DbDoJobInv == ASSUME CommitInv, NEW c, DbDoJob(c) PROVE CommitInv'
<1>1. /\ c \in dbjobs /\ dbjobs' = dbjobs \ {c}
      /\ UNCHANGED <<plog, dump, ent, mem, userq, dbq, pending, limjobs, raised, rec, replay>>
  BY DEF DbDoJob, entity
<1>2. /\ c \in CmdType /\ c.entry \in Entries /\ c.value \in Entries /\ c.value = c.entry
      /\ Backed(plog, rec.snap, c.entry)
  BY <1>1 DEF CommitInv, TypeOK, Commands, GoodCmd, Backed
<1>3. Fine \/ Faulty
  BY DEF DbDoJob
<1>4. /\ env' \in ScenarioType /\ env'.routines = env.routines
  BY <1>3, FaultEnv
<1>5. /\ db' \in DbType /\ DbShape' /\ DbHasChosenValuesUnraised'
      /\ db'.flag = "normal" => AllBacked(plog, rec.snap, db'.entry)
  <2>1. CASE db' = db
    BY <1>1, <2>1, SameDb
  <2>2. CASE db.flag = "normal" /\ Commit(c.entry, c.value)
    BY <1>1, <1>2, <2>2, CommitNext
  <2> QED
    BY <2>1, <2>2 DEF DbDoJob
<1>6. /\ limq' \in Seq(CmdType) /\ Len(limq') <= QueueSize /\ Requests' /\ Values'
  <2>1. CASE limq' = limq
    BY <1>1, <1>4, <2>1, SameRequests
  <2>2. CASE GoToDbLimitedReqQueue(c)
    BY <1>1, <1>2, <1>4, <2>2, Requested
  <2> QED
    BY <2>1, <2>2 DEF DbDoJob
<1>7. Commands' /\ ReplayKnows' /\ ReplayIsFresh'
  BY <1>1 DEF CommitInv, Commands, ReplayKnows, ReplayIsFresh
<1> QED
  BY <1>1, <1>4, <1>5, <1>6, <1>7, WorkerFrame DEF CommitInv, TypeOK

(* The request that DbLimitedWorker::Tick leaves is the first one, raised  *)
(* to an entry that was asked for.                                         *)
LEMMA MergedRequest ==
    ASSUME CommitInv, limq # <<>> \/ pending # None
    PROVE  Merged \in CmdType /\ Backed(plog, rec.snap, Merged.entry)
<1> DEFINE cs == (IF pending = None THEN <<>> ELSE <<pending>>) \o limq
           S == {cs[i].entry : i \in DOMAIN cs}
           top == Max(S)
<1>1. limq \in Seq(CmdType) /\ pending \in CmdType
  BY DEF CommitInv, TypeOK
<1>2. /\ cs \in Seq(CmdType) /\ Len(cs) > 0
      /\ \A i \in DOMAIN cs : Backed(plog, rec.snap, cs[i].entry)
  <2>1. CASE pending = None
    <3>1. cs = limq
      BY <1>1, <2>1
    <3> HIDE DEF cs
    <3> QED
      BY <1>1, <2>1, <3>1 DEF CommitInv, Requests
  <2>2. CASE pending # None
    <3>1. cs = <<pending>> \o limq
      BY <2>2
    <3> HIDE DEF cs
    <3>2. /\ cs \in Seq(CmdType) /\ Len(cs) = Len(limq) + 1 /\ cs[1] = pending
          /\ \A i \in 2 .. Len(cs) : cs[i] = limq[i - 1] /\ i - 1 \in 1 .. Len(limq)
      BY <1>1, <3>1
    <3>3. DOMAIN cs = 1 .. Len(cs) /\ Len(limq) \in Nat
      BY <1>1, <3>2
    <3>4. \A i \in DOMAIN cs : i = 1 \/ i \in 2 .. Len(cs)
      BY <3>2, <3>3
    <3>5. Backed(plog, rec.snap, pending.entry)
      BY DEF CommitInv, Requests
    <3>6. \A j \in 1 .. Len(limq) : Backed(plog, rec.snap, limq[j].entry)
      BY DEF CommitInv, Requests
    <3>7. ASSUME NEW i \in 2 .. Len(cs) PROVE Backed(plog, rec.snap, cs[i].entry)
      BY <3>2, <3>6
    <3>8. \A i \in DOMAIN cs : Backed(plog, rec.snap, cs[i].entry)
      BY <3>2, <3>4, <3>5, <3>7
    <3> QED
      BY <3>2, <3>3, <3>8
  <2> QED
    BY <2>1, <2>2
<1>3. Merged = [Head(cs) EXCEPT !.entry = top]
  BY DEF Merged
<1> HIDE DEF cs
<1>4. /\ DOMAIN cs = 1 .. Len(cs) /\ 1 \in DOMAIN cs /\ Head(cs) \in CmdType
      /\ \A i \in DOMAIN cs : cs[i] \in CmdType
  BY <1>2
<1>5. \A i \in DOMAIN cs : cs[i].entry \in Numbers
  BY <1>4 DEF CmdType
<1>6. S \in SUBSET Nat /\ S # {} /\ \A x \in S : x <= Unset
  BY <1>4, <1>5, Bounds DEF Numbers
<1>7. top \in S
  BY <1>6, Bounds, MaxOfBounded
<1> HIDE DEF top
<1>8. PICK i \in DOMAIN cs : top = cs[i].entry
  BY <1>7
<1>9. top \in Numbers /\ Backed(plog, rec.snap, top)
  BY <1>2, <1>5, <1>8
<1>10. Merged \in CmdType /\ Merged.entry = top
  BY <1>3, <1>4, <1>9 DEF CmdType
<1> QED
  BY <1>9, <1>10

LEMMA NoneBacked ==
    ASSUME NEW pl, NEW n
    PROVE  Backed(pl, n, None.entry) /\ None.value \in {0, None.entry}
BY DEF Backed, None, Entries

LEMMA LimitedLoopInv == CommitInv /\ LimitedLoop => CommitInv'
<1> SUFFICES ASSUME CommitInv, LimitedLoop PROVE CommitInv'
  OBVIOUS
<1> DEFINE p == Merged
           free == CHOOSE r \in Routines : limjobs[r] = None
<1>1. /\ limq # <<>> \/ pending # None
      /\ limq' = <<>> /\ raised' = (raised \/ p.value \notin {0, p.entry})
      /\ UNCHANGED <<plog, db, dump, ent, mem, userq, dbq, dbjobs, rec, replay, env>>
      /\ \/ /\ \E r \in Routines : limjobs[r] = None
            /\ limjobs' = [limjobs EXCEPT ![free] = p] /\ pending' = None
         \/ pending' = p /\ UNCHANGED limjobs
  BY DEF LimitedLoop, entity
<1>2. p \in CmdType /\ Backed(plog, rec.snap, p.entry)
  BY <1>1, MergedRequest
<1> HIDE DEF p
<1>3. /\ limjobs \in [Routines -> CmdType] /\ raised \in BOOLEAN /\ Routines' = Routines
      /\ pending \in CmdType
  BY <1>1 DEF CommitInv, TypeOK, Routines
<1>4. /\ limq' \in Seq(CmdType) /\ Len(limq') = 0 /\ Len(limq') <= QueueSize
  BY <1>1, Bounds
<1>r. /\ raised' \in BOOLEAN /\ (raised => raised')
      /\ ~raised' => ~raised /\ p.value \in {0, p.entry}
  <2>1. CASE p.value \in {0, p.entry}
    <3>1. raised' = raised
      BY <1>1, <1>3, <2>1
    <3> QED
      BY <1>3, <2>1, <3>1
  <2>2. CASE p.value \notin {0, p.entry}
    <3>1. raised' = TRUE
      BY <1>1, <2>2
    <3> QED
      BY <3>1
  <2> QED
    BY <2>1, <2>2
<1>5. /\ limjobs' \in [Routines -> CmdType] /\ pending' \in CmdType
      /\ pending' \in {None, p}
      /\ \A r \in Routines : limjobs'[r] \in {limjobs[r], p}
  BY <1>1, <1>2, <1>3, CmdTypes
<1>6. Requests'
  BY <1>1, <1>2, <1>3, <1>4, <1>5, NoneBacked DEF CommitInv, Requests
<1>7. Values'
  <2>1. \A i \in 1 .. Len(limq') : limq'[i].value \in {0, limq'[i].entry}
    BY <1>4
  <2>2. ASSUME ~raised'
        PROVE  /\ pending'.value \in {0, pending'.entry}
               /\ \A x \in Routines : limjobs'[x].value \in {0, limjobs'[x].entry}
    <3>1. /\ ~raised /\ p.value \in {0, p.entry}
          /\ \A x \in Routines : limjobs[x].value \in {0, limjobs[x].entry}
      BY <1>r, <2>2 DEF CommitInv, Values
    <3> QED
      BY <1>5, <3>1, NoneBacked
  <2> QED
    BY <1>3, <2>1, <2>2 DEF Values
<1>8. Commands' /\ ReplayKnows' /\ ReplayIsFresh'
  BY <1>1 DEF CommitInv, Commands, ReplayKnows, ReplayIsFresh
<1> QED
  BY <1>1, <1>r, <1>4, <1>5, <1>6, <1>7, <1>8, SameDb, WorkerFrame DEF CommitInv, TypeOK

LEMMA LimitedDoJobInv ==
    ASSUME CommitInv, NEW r \in Routines, LimitedDoJob(r) PROVE CommitInv'
<1> DEFINE c == limjobs[r]
           e == db.entry + 1
<1>1. /\ UNCHANGED <<plog, dump, ent, mem, userq, dbq, dbjobs, limq, pending, raised, rec, replay>>
      /\ Fine \/ Faulty
  BY DEF LimitedDoJob, entity
<1>2. /\ env' \in ScenarioType /\ env'.routines = env.routines /\ Routines' = Routines
  BY <1>1, FaultEnv DEF Routines
<1>3. /\ limjobs \in [Routines -> CmdType] /\ c \in CmdType /\ c.entry \in Numbers
      /\ c.value \in 0 .. MaxEntry /\ Backed(plog, rec.snap, c.entry)
      /\ ~raised => c.value \in {0, c.entry}
  BY DEF CommitInv, TypeOK, CmdType, Requests, Values
<1>4. limjobs' \in [Routines -> CmdType] /\ \A x \in Routines : limjobs'[x] \in {limjobs[x], None}
  <2>1. limjobs' = [limjobs EXCEPT ![r] = None] \/ limjobs' = [limjobs EXCEPT ![r] = c]
    BY DEF LimitedDoJob
  <2> QED
    BY <1>3, <2>1, CmdTypes
<1>5. Requests'
  BY <1>1, <1>2, <1>4, NoneBacked DEF CommitInv, Requests
<1>6. Values'
  BY <1>1, <1>2, <1>4, NoneBacked DEF CommitInv, Values
<1>7. /\ db' \in DbType /\ DbShape' /\ DbHasChosenValuesUnraised'
      /\ db'.flag = "normal" => AllBacked(plog, rec.snap, db'.entry)
  <2>1. CASE db' = db
    BY <1>1, <2>1, SameDb
  <2>2. CASE /\ db.flag = "normal" /\ db.entry < c.entry
             /\ CarriesValue(c, e) \/ HasWriteValue(e)
             /\ Commit(e, WriteValue(c, e))
    <3>1. db.entry \in 0 .. MaxEntry
      BY <1>3, <2>2, Bounds DEF CommitInv, TypeOK, DbType, Numbers
    <3>2. CASE CarriesValue(c, e)
      <4>1. /\ e = c.entry /\ c.value # 0 /\ WriteValue(c, e) = c.value
        BY <3>2 DEF CarriesValue, WriteValue
      <4>2. e \in Entries /\ c.value \in Entries
        BY <1>3, <3>1, <4>1, Bounds DEF Entries, Numbers
      <4>3. Backed(plog, rec.snap, e) /\ (raised \/ c.value = e)
        BY <1>3, <4>1
      <4> QED
        BY <1>1, <2>2, <4>1, <4>2, <4>3, CommitNext
    <3>3. CASE ~CarriesValue(c, e)
      <4>1. WriteValue(c, e) = e /\ e \in Entries /\ Backed(plog, rec.snap, e)
        BY <2>2, <3>3 DEF WriteValue, HasWriteValue, Backed
      <4> QED
        BY <1>1, <2>2, <4>1, CommitNext
    <3> QED
      BY <3>2, <3>3
  <2> QED
    BY <2>1, <2>2 DEF LimitedDoJob
<1>8. Commands' /\ ReplayKnows' /\ ReplayIsFresh'
  BY <1>1 DEF CommitInv, Commands, ReplayKnows, ReplayIsFresh
<1> QED
  BY <1>1, <1>2, <1>4, <1>5, <1>6, <1>7, <1>8, WorkerFrame DEF CommitInv, TypeOK

(* A step of the RecoverWorker: it leaves the EntityInfo, the plog, the    *)
(* other workers and the callers alone.                                    *)
LEMMA RecoverFrame ==
    ASSUME CommitInv, UNCHANGED <<plog, dump, entity, workers, replay>>,
           env' \in ScenarioType, env'.routines = env.routines,
           rec' \in RecoverType, rec.snap <= rec'.snap, Answers', RecoveryUnderWay',
           db' \in DbType, DbShape', DbHasChosenValuesUnraised',
           db'.flag = "normal" => AllBacked(plog, rec'.snap, db'.entry)
    PROVE  CommitInv'
<1>1. UNCHANGED <<plog, dump, ent, mem, userq, dbq, dbjobs, limq, pending, limjobs, raised,
                  replay>>
  BY DEF entity, workers
<1>2. /\ rec.snap \in Nat /\ rec'.snap \in Nat /\ ent.max_chosen \in Nat
      /\ replay.known \in Nat /\ replay.committed \in Nat
  <2>1. replay.known \in Numbers /\ replay.committed \in Numbers
    BY DEF CommitInv, TypeOK, ReplayType
  <2> QED
    BY <2>1, Bounds, EntityFields, RecoverFields DEF CommitInv, TypeOK
<1>m. /\ \A e : Backed(plog, rec.snap, e) => Backed(plog, rec'.snap, e)
      /\ \A n : AllBacked(plog, rec.snap, n) => AllBacked(plog, rec'.snap, n)
  BY <1>2, BackedMono
<1>3. TypeOK' /\ Routines' = Routines
  BY <1>1 DEF CommitInv, TypeOK, Routines
<1>4. Marks' /\ ReplayKnows' /\ ReplayIsFresh' /\ Dumped'
  <2>1. Marks'
    BY <1>1, <1>2 DEF CommitInv, Marks, OfSnapshot
  <2>2. ReplayKnows' /\ ReplayIsFresh'
    BY <1>1, <1>2 DEF CommitInv, ReplayKnows, ReplayIsFresh
  <2>3. Dumped'
    BY <1>1, <1>m DEF CommitInv, Dumped
  <2> QED
    BY <2>1, <2>2, <2>3
<1>5. Backing'
  BY <1>1, <1>m DEF CommitInv, Backing
<1>6. Commands' /\ Values'
  BY <1>1, <1>3 DEF CommitInv, Commands, Values
<1>7. Requests'
  BY <1>1, <1>3, <1>m DEF CommitInv, Requests
<1> QED
  BY <1>3, <1>4, <1>5, <1>6, <1>7 DEF CommitInv

LEMMA RecoverGetJobInv == CommitInv /\ RecoverGetJob => CommitInv'
<1> SUFFICES ASSUME CommitInv, RecoverGetJob PROVE CommitInv'
  OBVIOUS
<1> DEFINE j == IF rec.job = Idle THEN [Idle EXCEPT !.at = "start"] ELSE rec.job
<1>1. /\ rec.req > 0 /\ UNCHANGED <<plog, db, dump, entity, workers, replay, env>>
      /\ rec' = [rec EXCEPT !.req = rec.req - 1, !.job = j]
  BY DEF RecoverGetJob
<1>2. rec \in RecoverType /\ rec.req \in 0 .. QueueSize /\ rec.snap \in Nat /\ rec.job \in JobType
  BY RecoverFields DEF CommitInv, TypeOK
<1>3. j \in JobType /\ j # Idle /\ OfSnapshot(rec.snap, j.entry)
  <2>1. CASE rec.job = Idle
    BY <1>2, <2>1, Bounds DEF Idle, JobType, OfSnapshot
  <2>2. CASE rec.job # Idle
    BY <1>2, <2>2 DEF CommitInv, Answers
  <2> QED
    BY <2>1, <2>2
<1> HIDE DEF j
<1> DEFINE k == rec.req - 1
<1>k. k \in 0 .. QueueSize /\ rec' = [rec EXCEPT !.req = k, !.job = j]
  BY <1>1, <1>2, Bounds
<1> HIDE DEF k
<1>4. rec' \in RecoverType /\ rec'.snap = rec.snap /\ rec'.rsp = rec.rsp /\ rec'.job = j
  BY <1>k, <1>2, <1>3 DEF RecoverType
<1>5. Answers' /\ RecoveryUnderWay' /\ rec.snap <= rec'.snap
  BY <1>2, <1>3, <1>4 DEF CommitInv, Answers, RecoveryUnderWay
<1>6. UNCHANGED raised /\ env' \in ScenarioType
  BY <1>1 DEF workers, CommitInv, TypeOK
<1> QED
  BY <1>1, <1>4, <1>5, <1>6, SameDb, RecoverFrame

LEMMA RecoverSetFlagInv == CommitInv /\ RecoverSetFlag => CommitInv'
<1> SUFFICES ASSUME CommitInv, RecoverSetFlag PROVE CommitInv'
  OBVIOUS
<1>1. /\ rec.job.at = "start" /\ db' = InRecovery /\ rec' = [rec EXCEPT !.job.at = "rpc"]
      /\ UNCHANGED <<plog, dump, entity, workers, replay, env>>
  BY DEF RecoverSetFlag
<1>2. rec \in RecoverType /\ rec.job \in JobType /\ rec.snap \in Nat
  BY RecoverFields DEF CommitInv, TypeOK
<1>3. /\ rec' \in RecoverType /\ rec'.snap = rec.snap /\ rec'.rsp = rec.rsp
      /\ rec'.job.entry = rec.job.entry /\ rec'.job.at = "rpc"
  BY <1>1, <1>2 DEF RecoverType, JobType
<1>4. Answers' /\ RecoveryUnderWay' /\ rec.snap <= rec'.snap
  BY <1>2, <1>3 DEF CommitInv, Answers, RecoveryUnderWay, Idle
<1>5. db'.flag = "recover" /\ db'.entry = Unset /\ db' \in DbType /\ db'.data = <<>>
  <2>1. <<>> \in Seq(Entries)
    OBVIOUS
  <2> QED
    BY <1>1, <2>1, Bounds DEF InRecovery, DbType
<1>6. DbShape' /\ DbHasChosenValuesUnraised' /\ env' \in ScenarioType
  BY <1>1, <1>5 DEF DbShape, DbHasChosenValuesUnraised, DbHasChosenValues, CommitInv, TypeOK
<1> QED
  BY <1>1, <1>3, <1>4, <1>5, <1>6, RecoverFrame

(* A snapshot that is put into the Db.                                     *)
LEMMA RestoredDb ==
    ASSUME CommitInv, NEW n \in 0 .. MaxEntry, Restored(n)
    PROVE  /\ rec' \in RecoverType /\ rec.snap <= rec'.snap /\ Answers' /\ RecoveryUnderWay'
           /\ db' \in DbType /\ DbShape' /\ DbHasChosenValuesUnraised'
           /\ db'.flag = "normal" => AllBacked(plog, rec'.snap, db'.entry)
<1> DEFINE j == [at |-> "done", entry |-> n]
           top == Max({rec.snap, n})
<1>1. db' = Snapshot(n) /\ rec' = [rec EXCEPT !.job = j, !.snap = top]
  BY DEF Restored
<1>2. /\ rec \in RecoverType /\ rec.snap \in Nat /\ rec.snap \in 0 .. MaxEntry /\ n \in Nat
      /\ rec.rsp \in Seq(JobType)
  BY RecoverFields DEF CommitInv, TypeOK
<1>3. top \in 0 .. MaxEntry /\ rec.snap <= top /\ n <= top
  <2>1. top = IF rec.snap >= n THEN rec.snap ELSE n
    BY <1>2, MaxOfTwo
  <2> QED
    BY <1>2, <2>1
<1> HIDE DEF top
<1>4. j \in JobType /\ j # Idle /\ j.entry = n
  BY DEF JobType, Idle, Numbers
<1> HIDE DEF j
<1>5. /\ rec' \in RecoverType /\ rec'.snap = top /\ rec'.job = j /\ rec'.rsp = rec.rsp
  BY <1>1, <1>2, <1>3, <1>4 DEF RecoverType
<1>6. Answers'
  <2>1. \A i \in 1 .. Len(rec.rsp) :
            rec.rsp[i].entry \in Nat /\ OfSnapshot(rec.snap, rec.rsp[i].entry)
    <3>1. \A i \in 1 .. Len(rec.rsp) : rec.rsp[i] \in JobType
      BY <1>2
    <3> QED
      BY <3>1, Bounds DEF CommitInv, Answers, JobType
  <2>2. \A i \in 1 .. Len(rec.rsp) : OfSnapshot(top, rec.rsp[i].entry)
    BY <1>2, <1>3, <2>1, Bounds DEF OfSnapshot
  <2>3. OfSnapshot(top, j.entry)
    BY <1>3, <1>4 DEF OfSnapshot
  <2> QED
    BY <1>5, <2>2, <2>3 DEF Answers
<1>7. RecoveryUnderWay'
  BY <1>4, <1>5 DEF RecoveryUnderWay
<1>8. db'.entry = n /\ db'.flag = "normal" /\ db'.data = [e \in 1 .. n |-> e]
  BY <1>1 DEF Snapshot, Normal
<1>9. db' \in DbType
  <2>1. [e \in 1 .. n |-> e] \in Seq(Entries)
    BY <1>2, Bounds DEF Entries
  <2>2. n \in Numbers
    BY DEF Numbers
  <2> QED
    BY <1>1, <2>1, <2>2 DEF Snapshot, Normal, DbType
<1>10. DbShape' /\ DbHasChosenValuesUnraised'
  BY <1>8, Bounds DEF DbShape, DbHasChosenValuesUnraised, DbHasChosenValues, DbHolds
<1>11. AllBacked(plog, rec'.snap, db'.entry)
  <2>1. \A e \in 1 .. n : Backed(plog, top, e)
    BY <1>2, <1>3 DEF Backed
  <2> QED
    BY <1>5, <1>8, <2>1 DEF AllBacked
<1> QED
  BY <1>3, <1>5, <1>6, <1>7, <1>9, <1>10, <1>11

(* The answer of a peer in recovery, taken for a snapshot.                 *)
LEMMA BlankDb ==
    ASSUME CommitInv, RestoredBlank
    PROVE  /\ rec' \in RecoverType /\ rec.snap <= rec'.snap /\ Answers' /\ RecoveryUnderWay'
           /\ db' \in DbType /\ DbShape' /\ DbHasChosenValuesUnraised'
           /\ db'.flag = "normal" => AllBacked(plog, rec'.snap, db'.entry)
<1> DEFINE j == [at |-> "done", entry |-> Unset]
<1>1. db' = Normal(Unset, <<>>) /\ rec' = [rec EXCEPT !.job = j]
  BY DEF RestoredBlank
<1>2. rec \in RecoverType /\ rec.snap \in Nat
  BY RecoverFields DEF CommitInv, TypeOK
<1>3. j \in JobType /\ j # Idle /\ j.entry = Unset
  BY Bounds DEF JobType, Idle
<1> HIDE DEF j
<1>4. rec' \in RecoverType /\ rec'.snap = rec.snap /\ rec'.job = j /\ rec'.rsp = rec.rsp
  BY <1>1, <1>2, <1>3 DEF RecoverType
<1>5. Answers' /\ RecoveryUnderWay' /\ rec.snap <= rec'.snap
  BY <1>2, <1>3, <1>4 DEF CommitInv, Answers, RecoveryUnderWay, OfSnapshot
<1>6. db'.entry = Unset /\ db'.flag = "normal" /\ db'.data = <<>>
  BY <1>1 DEF Normal
<1>7. db' \in DbType
  <2>1. <<>> \in Seq(Entries)
    OBVIOUS
  <2> QED
    BY <1>1, <2>1, Bounds DEF Normal, DbType
<1>8. DbShape' /\ DbHasChosenValuesUnraised'
  BY <1>6 DEF DbShape, DbHasChosenValuesUnraised, Blank
<1>9. AllBacked(plog, rec'.snap, db'.entry)
  BY <1>6, Bounds DEF AllBacked
<1> QED
  BY <1>4, <1>5, <1>7, <1>8, <1>9

LEMMA RecoverFetchInv == CommitInv /\ RecoverFetch => CommitInv'
<1> SUFFICES ASSUME CommitInv, RecoverFetch PROVE CommitInv'
  OBVIOUS
<1>1. rec.job.at = "rpc" /\ UNCHANGED <<plog, dump, entity, workers, replay>>
  BY DEF RecoverFetch
<1>2. env \in ScenarioType /\ rec \in RecoverType /\ rec.job \in JobType /\ rec.snap \in Nat
  BY RecoverFields DEF CommitInv, TypeOK
<1>3. env.peer \in 0 .. MaxEntry /\ env.entries \in 1 .. MaxEntry
  BY <1>2 DEF ScenarioType
<1>4. ASSUME NEW n \in env.peer .. env.entries, Restored(n), env' = [env EXCEPT !.peer = n]
      PROVE  CommitInv'
  <2>1. n \in 0 .. MaxEntry
    BY <1>3, <1>4, Bounds
  <2>2. env' \in ScenarioType /\ env'.routines = env.routines
    BY <1>2, <1>4, <2>1 DEF ScenarioType
  <2> QED
    BY <1>1, <1>4, <2>1, <2>2, RestoredDb, RecoverFrame
<1>5. ASSUME NEW n \in 0 .. env.entries, Restored(n), Faulty PROVE CommitInv'
  <2>1. n \in 0 .. MaxEntry
    BY <1>3, <1>5, Bounds
  <2> QED
    BY <1>1, <1>5, <2>1, FaultEnv, RestoredDb, RecoverFrame
<1>6. ASSUME rec' = [rec EXCEPT !.job.at = "failed"], Faulty, UNCHANGED db PROVE CommitInv'
  <2>1. /\ rec' \in RecoverType /\ rec'.snap = rec.snap /\ rec'.rsp = rec.rsp
        /\ rec'.job.entry = rec.job.entry /\ rec'.job.at = "failed"
    BY <1>2, <1>6 DEF RecoverType, JobType
  <2>2. Answers' /\ RecoveryUnderWay' /\ rec.snap <= rec'.snap
    BY <1>2, <2>1 DEF CommitInv, Answers, RecoveryUnderWay, Idle
  <2>3. UNCHANGED raised
    BY <1>1 DEF workers
  <2> QED
    BY <1>1, <1>6, <2>1, <2>2, <2>3, FaultEnv, SameDb, RecoverFrame
<1>7. ASSUME RestoredBlank, Faulty PROVE CommitInv'
  BY <1>1, <1>7, FaultEnv, BlankDb, RecoverFrame
<1> QED
  BY <1>4, <1>5, <1>6, <1>7 DEF RecoverFetch

LEMMA AppendElements ==
    ASSUME NEW S, NEW xs \in Seq(S), NEW x \in S
    PROVE  /\ Append(xs, x) \in Seq(S) /\ Append(xs, x) # <<>>
           /\ Len(Append(xs, x)) = Len(xs) + 1
           /\ \A i \in 1 .. Len(Append(xs, x)) :
                 (i \in 1 .. Len(xs) /\ Append(xs, x)[i] = xs[i]) \/ Append(xs, x)[i] = x
OBVIOUS

LEMMA RecoverRespondInv == CommitInv /\ RecoverRespond => CommitInv'
<1> SUFFICES ASSUME CommitInv, RecoverRespond PROVE CommitInv'
  OBVIOUS
<1>1. /\ UNCHANGED <<plog, db, dump, entity, workers, replay, env>>
      /\ rec' = [rec EXCEPT !.rsp = Append(rec.rsp, rec.job), !.job = Idle]
  BY DEF RecoverRespond
<1>2. /\ rec \in RecoverType /\ rec.job \in JobType /\ rec.snap \in Nat
      /\ rec.rsp \in Seq(JobType) /\ Idle \in JobType
  BY RecoverFields, CmdTypes DEF CommitInv, TypeOK
<1> DEFINE q == Append(rec.rsp, rec.job)
<1>3. /\ q \in Seq(JobType) /\ q # <<>> /\ Len(q) = Len(rec.rsp) + 1
      /\ \A i \in 1 .. Len(q) :
            (i \in 1 .. Len(rec.rsp) /\ q[i] = rec.rsp[i]) \/ q[i] = rec.job
  BY <1>2, AppendElements
<1> HIDE DEF q
<1>4. rec' \in RecoverType /\ rec'.snap = rec.snap /\ rec'.rsp = q /\ rec'.job = Idle
  BY <1>1, <1>2, <1>3 DEF RecoverType, q
<1>5. Answers' /\ RecoveryUnderWay' /\ rec.snap <= rec'.snap
  <2>1. /\ OfSnapshot(rec.snap, rec.job.entry)
        /\ \A i \in 1 .. Len(rec.rsp) : OfSnapshot(rec.snap, rec.rsp[i].entry)
    BY DEF CommitInv, Answers
  <2>2. \A i \in 1 .. Len(q) : OfSnapshot(rec.snap, q[i].entry)
    BY <1>3, <2>1
  <2>3. OfSnapshot(rec.snap, Idle.entry)
    BY <1>2, Bounds DEF Idle, OfSnapshot
  <2>4. Answers'
    BY <1>4, <2>2, <2>3 DEF Answers
  <2> QED
    BY <1>2, <1>3, <1>4, <2>4 DEF RecoveryUnderWay
<1>6. UNCHANGED raised /\ env' \in ScenarioType
  BY <1>1 DEF workers, CommitInv, TypeOK
<1> QED
  BY <1>1, <1>4, <1>5, <1>6, SameDb, RecoverFrame

(* A step of Replay.                                                       *)
LEMMA ReplayFrame ==
    ASSUME CommitInv,
           UNCHANGED <<plog, dump, ent, mem, rec, dbq, dbjobs, pending, limjobs, raised>>,
           userq' \subseteq {"catchup", "recover"},
           env' \in ScenarioType, env'.routines = env.routines,
           db' \in DbType, DbShape', DbHasChosenValuesUnraised',
           db'.flag = "normal" => AllBacked(plog, rec.snap, db'.entry),
           limq' \in Seq(CmdType), Len(limq') <= QueueSize, Requests', Values',
           replay' \in ReplayType, ReplayKnows', ReplayIsFresh'
    PROVE  CommitInv'
<1>1. Commands'
  BY DEF CommitInv, Commands
<1> QED
  BY <1>1, WorkerFrame DEF CommitInv, TypeOK

LEMMA NoReplayFine ==
    ASSUME replay' = NoReplay PROVE replay' \in ReplayType /\ ReplayKnows' /\ ReplayIsFresh'
BY Bounds DEF NoReplay, ReplayType, ReplayKnows, ReplayIsFresh

LEMMA ReplayFields ==
    ASSUME NEW p \in ReplayType
    PROVE  /\ p.committed \in Numbers /\ p.chosen \in Numbers /\ p.known \in Numbers
           /\ p.committed \in Nat /\ p.chosen \in Nat /\ p.known \in Nat
<1>1. p.committed \in Numbers /\ p.chosen \in Numbers /\ p.known \in Numbers
  BY DEF ReplayType
<1> QED
  BY <1>1, Bounds

LEMMA ReplayStatusInv == CommitInv /\ ReplayStatus => CommitInv'
<1> SUFFICES ASSUME CommitInv, ReplayStatus PROVE CommitInv'
  OBVIOUS
<1>1. /\ UNCHANGED <<plog, db, dump, ent, mem, rec, env>>
      /\ UNCHANGED <<dbq, dbjobs, limq, pending, limjobs, raised>>
      /\ \/ userq' = userq \cup {"recover"} /\ replay' = NoReplay
         \/ /\ UNCHANGED userq
            /\ replay' = [NoReplay EXCEPT !.at = "info", !.committed = db.entry,
                                          !.known = KnownChosen]
  BY DEF ReplayStatus, workers
<1>2. /\ userq' \subseteq {"catchup", "recover"} /\ env' \in ScenarioType
      /\ ent \in EntityInfo /\ db \in DbType
  BY <1>1 DEF CommitInv, TypeOK
<1>3. ent.max_chosen \in Nat /\ ent.max_chosen \in Numbers /\ db.entry \in Numbers
  BY <1>2, EntityFields DEF DbType
<1>k. /\ KnownChosen \in Numbers
      /\ (ent.at = "loaded" /\ KnownChosen <= ent.max_chosen) \/ KnownChosen <= rec.snap
  <2>1. KnownChosen = 0 \/ (KnownChosen = ent.max_chosen /\ ent.max_chosen # Unset)
    BY DEF KnownChosen
  <2>2. rec.snap \in Nat /\ (ent.at # "loaded" => OfSnapshot(rec.snap, ent.max_chosen))
    BY RecoverFields DEF CommitInv, TypeOK, Marks
  <2> QED
    BY <1>3, <2>1, <2>2, Bounds DEF OfSnapshot
<1>4. replay' \in ReplayType /\ ReplayKnows' /\ ReplayIsFresh'
  <2>1. CASE replay' = NoReplay
    BY <2>1, NoReplayFine
  <2>2. CASE replay' = [NoReplay EXCEPT !.at = "info", !.committed = db.entry,
                                        !.known = KnownChosen]
    <3>1. replay' \in ReplayType /\ replay'.at = "info" /\ replay'.known = KnownChosen
      BY <1>3, <1>k, <2>2, Bounds DEF NoReplay, ReplayType
    <3> QED
      BY <1>1, <1>k, <3>1 DEF ReplayKnows, ReplayIsFresh
  <2> QED
    BY <1>1, <2>1, <2>2
<1> QED
  BY <1>1, <1>2, <1>4, SameDb, SameRequests, ReplayFrame

(* ReplayLoad creates the EntityInfo as CreateEntity does.                 *)
LEMMA ReplayLoadInv == CommitInv /\ ReplayLoad => CommitInv'
<1> SUFFICES ASSUME CommitInv, ReplayLoad PROVE CommitInv'
  OBVIOUS
<1>1. /\ replay.at = "info" /\ ent.at = "absent" /\ ent' = Created
      /\ replay' = [replay EXCEPT !.at = "load"]
      /\ UNCHANGED <<plog, db, dump, mem, userq, workers, rec, env>>
  BY DEF ReplayLoad
<1>2. /\ UNCHANGED <<plog, db, dump, mem, userq, dbq, dbjobs, limq, pending, limjobs, raised, rec, env>>
  BY <1>1 DEF workers
<1>3. /\ replay \in ReplayType /\ rec.snap \in Nat /\ ent.max_chosen \in Nat
      /\ replay.known \in Nat
  BY EntityFields, RecoverFields, ReplayFields DEF CommitInv, TypeOK
<1>4. replay' \in ReplayType /\ replay'.at = "load" /\ replay'.known = replay.known
  BY <1>1, <1>3 DEF ReplayType
<1>5. Marks' /\ RecoveryUnderWay' /\ Answers'
  BY <1>1, CreatedEntity DEF Marks, CommitInv, RecoveryUnderWay, Answers
<1>6. Backing'
  BY <1>1, CreatedEntity DEF Backing, CommitInv
<1>7. TypeOK' /\ Routines' = Routines
  BY <1>1, <1>2, <1>4, CreatedEntity DEF CommitInv, TypeOK, Routines
<1>8. Commands' /\ Requests' /\ Values' /\ Dumped' /\ DbShape' /\ DbHasChosenValuesUnraised'
  <2>1. Commands' /\ Requests' /\ Values' /\ Dumped'
    BY <1>2, <1>7 DEF CommitInv, Commands, Requests, Values, Dumped
  <2> QED
    BY <1>2, <2>1, SameDb
<1>9. ReplayKnows' /\ ReplayIsFresh'
  <2>1. replay.known <= rec.snap
    BY <1>1 DEF CommitInv, ReplayKnows
  <2> QED
    BY <1>2, <1>4, <2>1 DEF ReplayKnows, ReplayIsFresh
<1> QED
  BY <1>5, <1>6, <1>7, <1>8, <1>9 DEF CommitInv

LEMMA ReplayLoadFailsInv == CommitInv /\ ReplayLoadFails => CommitInv'
<1> SUFFICES ASSUME CommitInv, ReplayLoadFails PROVE CommitInv'
  OBVIOUS
<1>1. /\ replay' = NoReplay
      /\ UNCHANGED <<plog, db, dump, ent, mem, rec, env, userq>>
      /\ UNCHANGED <<dbq, dbjobs, limq, pending, limjobs, raised>>
  BY DEF ReplayLoadFails, workers, entity
<1>2. userq' \subseteq {"catchup", "recover"} /\ env' \in ScenarioType
  BY <1>1 DEF CommitInv, TypeOK
<1> QED
  BY <1>1, <1>2, SameDb, SameRequests, NoReplayFine, ReplayFrame

LEMMA ReplayInfoInv == CommitInv /\ ReplayInfo => CommitInv'
<1> SUFFICES ASSUME CommitInv, ReplayInfo PROVE CommitInv'
  OBVIOUS
<1>1. /\ UNCHANGED <<plog, db, dump, ent, mem, dbq, dbjobs, pending, limjobs, raised, rec, env>>
      /\ replay.at \in {"info", "load"}
  BY DEF ReplayInfo
<1>2. /\ ent \in EntityInfo /\ replay \in ReplayType /\ env' \in ScenarioType
      /\ userq \subseteq {"catchup", "recover"}
  BY <1>1 DEF CommitInv, TypeOK
<1>3. ent.max_cont \in Nat /\ ent.max_chosen \in Nat /\ ent.max_chosen \in Numbers
  BY <1>2, EntityFields
<1>4. CASE /\ userq' = userq \cup {"catchup"} /\ replay' = NoReplay /\ UNCHANGED limq
  BY <1>1, <1>2, <1>4, SameDb, SameRequests, NoReplayFine, ReplayFrame
<1>5. CASE /\ ent.max_cont >= ent.max_chosen /\ UNCHANGED userq
           /\ GoToDbLimitedReqQueue(Cmd(ent.max_chosen, 0)) /\ replay' = NoReplay
  <2> DEFINE c == Cmd(ent.max_chosen, 0)
  <2>1. c \in CmdType /\ c.value = 0 /\ c.entry = ent.max_chosen
    BY <1>3, Bounds DEF Cmd, CmdType
  <2>2. ent.max_cont = ent.max_chosen
    BY <1>3, <1>5 DEF CommitInv, Marks
  <2>3. Backed(plog, rec.snap, ent.max_chosen)
    <3>1. ent.max_chosen \in Entries =>
              ent.max_cont \in 0 .. MaxEntry /\ ent.max_chosen \in 1 .. ent.max_cont
      BY <1>3, <2>2, Bounds DEF Entries
    <3> QED
      BY <3>1 DEF CommitInv, Backing, AllBacked, Backed
  <2> HIDE DEF c
  <2>4. /\ limq' \in Seq(CmdType) /\ Len(limq') <= QueueSize /\ Requests' /\ Values'
    BY <1>1, <1>5, <2>1, <2>3, Requested DEF c
  <2> QED
    BY <1>1, <1>2, <1>5, <2>4, SameDb, NoReplayFine, ReplayFrame
<1>6. CASE /\ replay' = [replay EXCEPT !.at = "loop", !.chosen = ent.max_chosen]
           /\ UNCHANGED <<userq, limq>>
  <2>1. /\ replay' \in ReplayType /\ replay'.at = "loop" /\ replay'.known = replay.known
        /\ replay'.chosen = ent.max_chosen
    BY <1>2, <1>3, <1>6 DEF ReplayType
  <2>2. ReplayKnows' /\ ReplayIsFresh'
    BY <1>1, <2>1 DEF CommitInv, ReplayKnows, ReplayIsFresh
  <2> QED
    BY <1>1, <1>2, <1>6, <2>1, <2>2, SameDb, SameRequests, ReplayFrame
<1> QED
  BY <1>4, <1>5, <1>6 DEF ReplayInfo

(* Replay answers: what it knew is in the Db, or was in a snapshot.        *)
LEMMA ReplayAnswers ==
    ASSUME CommitInv, NEW n \in Numbers, replay.at = "loop", n >= replay.chosen,
           replay' = Answer(n), rec' = rec
    PROVE  replay' \in ReplayType /\ ReplayKnows' /\ ReplayIsFresh'
<1>1. /\ replay \in ReplayType /\ replay.known \in Nat /\ replay.chosen \in Nat
      /\ n \in Nat /\ rec.snap \in Nat
  BY Bounds, ReplayFields, RecoverFields DEF CommitInv, TypeOK
<1>2. CASE n >= replay.known
  BY <1>2, NoReplayFine DEF Answer
<1>3. CASE ~(n >= replay.known)
  <2>1. replay' = [replay EXCEPT !.at = "stale", !.committed = n]
    BY <1>3 DEF Answer
  <2>2. replay' \in ReplayType /\ replay'.at = "stale" /\ replay'.committed = n
    BY <1>1, <2>1 DEF ReplayType
  <2>3. n < rec.snap
    BY <1>1, <1>3 DEF CommitInv, ReplayKnows
  <2> QED
    BY <2>2, <2>3 DEF ReplayKnows, ReplayIsFresh
<1> QED
  BY <1>2, <1>3

LEMMA ReplayLoopInv == CommitInv /\ ReplayLoop => CommitInv'
<1> SUFFICES ASSUME CommitInv, ReplayLoop PROVE CommitInv'
  OBVIOUS
<1>1. /\ replay.at = "loop" /\ (Fine \/ Faulty)
      /\ UNCHANGED <<plog, dump, ent, mem, userq, rec>>
      /\ UNCHANGED <<dbq, dbjobs, limq, pending, limjobs, raised>>
  BY DEF ReplayLoop, entity, workers
<1>2. /\ env' \in ScenarioType /\ env'.routines = env.routines
  BY <1>1, FaultEnv
<1>3. /\ replay \in ReplayType /\ replay.committed \in Numbers /\ db.entry \in Numbers
      /\ replay.committed \in Nat /\ replay.chosen \in Nat /\ db.entry \in Nat
      /\ userq' \subseteq {"catchup", "recover"}
  BY <1>1, Bounds, ReplayFields DEF CommitInv, TypeOK, DbType
<1>4. /\ db' \in DbType /\ DbShape' /\ DbHasChosenValuesUnraised'
      /\ db'.flag = "normal" => AllBacked(plog, rec.snap, db'.entry)
  <2>1. CASE db' = db
    BY <1>1, <2>1, SameDb
  <2>2. CASE /\ db.flag = "normal" /\ HasWriteValue(db.entry + 1)
             /\ Commit(db.entry + 1, db.entry + 1)
    <3>1. db.entry + 1 \in Entries /\ Backed(plog, rec.snap, db.entry + 1)
      BY <2>2 DEF HasWriteValue, Backed
    <3> QED
      BY <1>1, <2>2, <3>1, CommitNext
  <2> QED
    BY <2>1, <2>2 DEF ReplayLoop
<1>5. replay' \in ReplayType /\ ReplayKnows' /\ ReplayIsFresh'
  <2>1. CASE ~Behind /\ replay' = Answer(replay.committed)
    <3>1. replay.committed >= replay.chosen
      BY <1>3, <2>1 DEF Behind
    <3> QED
      BY <1>1, <1>3, <2>1, <3>1, ReplayAnswers
  <2>2. CASE db.entry >= replay.chosen /\ replay' = Answer(db.entry)
    BY <1>1, <1>3, <2>2, ReplayAnswers
  <2>3. CASE replay' = NoReplay
    BY <2>3, NoReplayFine
  <2>4. CASE /\ HasWriteValue(db.entry + 1)
             /\ replay' = [replay EXCEPT !.committed = db.entry + 1]
    <3>1. db.entry + 1 \in Numbers
      BY <2>4, Bounds DEF HasWriteValue
    <3>2. /\ replay' \in ReplayType /\ replay'.at = "loop"
          /\ replay'.known = replay.known /\ replay'.chosen = replay.chosen
      BY <1>1, <1>3, <2>4, <3>1 DEF ReplayType
    <3> QED
      BY <1>1, <3>2 DEF CommitInv, ReplayKnows, ReplayIsFresh
  <2> QED
    BY <2>1, <2>2, <2>3, <2>4 DEF ReplayLoop
<1> QED
  BY <1>1, <1>2, <1>3, <1>4, <1>5, SameRequests, ReplayFrame

-----------------------------------------------------------------------------
(* The process starts, and starts again.                                   *)

LEMMA EmptyMemory ==
    /\ Absent \in EntityInfo /\ Absent.at = "absent" /\ Absent.max_cont = 0
    /\ Absent.max_chosen = 0 /\ Absent.max_catchup = 0 /\ Absent.recover_pending = FALSE
    /\ NoReplay \in ReplayType /\ NoReplay.at = "idle"
    /\ \A n \in 0 .. MaxEntry :
         LET w == [NoRecovery EXCEPT !.snap = n]
         IN  w \in RecoverType /\ w.job = Idle /\ w.rsp = <<>> /\ w.snap = n
    /\ Idle.entry = 0 /\ Len(<<>>) = 0 /\ 0 <= QueueSize
    /\ <<>> \in Seq(CmdType) /\ None \in CmdType
<1>1. /\ Absent \in EntityInfo /\ Absent.at = "absent" /\ Absent.max_cont = 0
      /\ Absent.max_chosen = 0 /\ Absent.max_catchup = 0 /\ Absent.recover_pending = FALSE
  BY Bounds DEF Absent, EntityInfo
<1>2. NoReplay \in ReplayType /\ NoReplay.at = "idle"
  BY Bounds DEF NoReplay, ReplayType
<1>3. ASSUME NEW n \in 0 .. MaxEntry
      PROVE  LET w == [NoRecovery EXCEPT !.snap = n]
             IN  w \in RecoverType /\ w.job = Idle /\ w.rsp = <<>> /\ w.snap = n
  <2> DEFINE w == [NoRecovery EXCEPT !.snap = n]
  <2>1. w = [req |-> 0, job |-> Idle, rsp |-> <<>>, snap |-> n]
    BY DEF NoRecovery
  <2>2. 0 \in 0 .. QueueSize /\ <<>> \in Seq(JobType) /\ Idle \in JobType
    BY Bounds, CmdTypes
  <2> HIDE DEF w
  <2>3. w \in RecoverType /\ w.job = Idle /\ w.rsp = <<>> /\ w.snap = n
    BY <2>1, <2>2 DEF RecoverType
  <2> QED
    BY <2>3 DEF w
<1>4. Idle.entry = 0 /\ Len(<<>>) = 0 /\ 0 <= QueueSize /\ <<>> \in Seq(CmdType)
  BY Bounds DEF Idle
<1> QED
  BY <1>1, <1>2, <1>3, <1>4, CmdTypes

LEMMA CommitInit == Init => CommitInv
<1> SUFFICES ASSUME Init PROVE CommitInv
  OBVIOUS
<1>0. /\ ent = Absent /\ mem = {} /\ userq = {} /\ dbq = <<>> /\ dbjobs = {}
      /\ limq = <<>> /\ pending = None /\ limjobs = [r \in Routines |-> None]
      /\ replay = NoReplay /\ raised = FALSE /\ plog = [e \in Entries |-> "none"]
      /\ rec = NoRecovery /\ env \in ScenarioType
  BY BoundsAssumption DEF Init
<1>1. rec \in RecoverType /\ rec.job = Idle /\ rec.rsp = <<>> /\ rec.snap = 0
  <2>1. rec = [NoRecovery EXCEPT !.snap = 0] /\ 0 \in 0 .. MaxEntry
    BY <1>0, Bounds DEF NoRecovery
  <2> QED
    BY <2>1, EmptyMemory
<1>2. db.entry = 0 /\ db.flag = "normal" /\ db.data = [e \in 1 .. 0 |-> e]
  BY DEF Init, Snapshot, Normal
<1>3. db \in DbType
  <2>1. [e \in 1 .. 0 |-> e] \in Seq(Entries) /\ 0 \in Numbers
    BY Bounds
  <2> QED
    BY <2>1 DEF Init, Snapshot, Normal, DbType
<1>4. DbShape /\ DbHasChosenValuesUnraised /\ AllBacked(plog, rec.snap, db.entry)
  BY <1>2, Bounds DEF DbShape, DbHasChosenValuesUnraised, DbHasChosenValues, DbHolds, AllBacked
<1>d. dump = db /\ Dumped
  <2>1. dump = db
    BY DEF Init
  <2> QED
    BY <1>2, <1>4, <2>1, Bounds DEF Dumped
<1>5. TypeOK
  BY <1>0, <1>1, <1>3, <1>d, EmptyMemory DEF TypeOK
<1>6. Marks /\ Answers /\ RecoveryUnderWay
  BY <1>0, <1>1, EmptyMemory, Bounds DEF Marks, Answers, RecoveryUnderWay, OfSnapshot
<1>7. Backing
  BY <1>0, <1>4, EmptyMemory DEF Backing, AllBacked
<1>8. Commands /\ Requests /\ Values
  BY <1>0, EmptyMemory, NoneBacked DEF Commands, Requests, Values
<1>9. ReplayKnows /\ ReplayIsFresh
  BY <1>0, EmptyMemory DEF ReplayKnows, ReplayIsFresh
<1> QED
  BY <1>d, <1>4, <1>5, <1>6, <1>7, <1>8, <1>9 DEF CommitInv

(* What a dump taken now would hold.                                       *)
LEMMA DbIsDumped ==
    CommitInv => /\ AllBacked(plog, rec.snap, db.entry)
                 /\ raised \/ db.entry = Unset \/ db.data = [e \in 1 .. db.entry |-> e]
<1> SUFFICES ASSUME CommitInv
             PROVE  /\ AllBacked(plog, rec.snap, db.entry)
                    /\ raised \/ db.entry = Unset \/ db.data = [e \in 1 .. db.entry |-> e]
  OBVIOUS
<1>1. db.flag \in {"normal", "recover"}
  BY DEF CommitInv, TypeOK, DbType
<1>2. db.entry = Unset => AllBacked(plog, rec.snap, db.entry)
  BY Bounds DEF AllBacked
<1>3. AllBacked(plog, rec.snap, db.entry)
  BY <1>1, <1>2 DEF CommitInv, Backing, DbShape
<1>4. raised \/ db.entry = Unset \/ db.data = [e \in 1 .. db.entry |-> e]
  BY <1>1 DEF CommitInv, DbShape, DbHasChosenValuesUnraised, DbHasChosenValues, DbHolds, Blank
<1> QED
  BY <1>3, <1>4

LEMMA RestartInv == CommitInv /\ Restart => CommitInv'
<1> SUFFICES ASSUME CommitInv, Restart PROVE CommitInv'
  OBVIOUS
<1>1. /\ env.restarts > 0 /\ env' = [env EXCEPT !.restarts = @ - 1]
      /\ rec' = [NoRecovery EXCEPT !.snap = rec.snap]
      /\ db' \in {dump, Snapshot(0), db} /\ dump' = Normal(db'.entry, db'.data)
      /\ UNCHANGED <<plog, raised>>
  BY DEF Restart
<1>2. rec.snap \in 0 .. MaxEntry /\ rec.snap \in Nat /\ env \in ScenarioType
  BY RecoverFields DEF CommitInv, TypeOK
<1>3. env' \in ScenarioType /\ env'.routines = env.routines /\ Routines' = Routines
  BY <1>1, <1>2 DEF ScenarioType, Routines
<1>4. rec' \in RecoverType /\ rec'.job = Idle /\ rec'.rsp = <<>> /\ rec'.snap = rec.snap
  BY <1>1, <1>2, EmptyMemory
<1>5. /\ db' \in DbType /\ dump' \in DbType
      /\ DbShape' /\ DbHasChosenValuesUnraised' /\ Dumped'
      /\ db'.flag = "normal" => AllBacked(plog', rec'.snap, db'.entry)
  <2>1. /\ db' \in DbType
        /\ db'.flag = "recover" => db'.entry = Unset
        /\ db'.entry = Unset => db'.data = <<>>
        /\ AllBacked(plog, rec.snap, db'.entry)
        /\ raised \/ db'.entry = Unset \/ db'.data = [e \in 1 .. db'.entry |-> e]
    <3>1. CASE db' = dump
      BY <3>1 DEF CommitInv, TypeOK, Dumped
    <3>2. CASE db' = Snapshot(0)
      <4>1. db'.entry = 0 /\ db'.flag = "normal" /\ db'.data = [e \in 1 .. 0 |-> e]
        BY <3>2 DEF Snapshot, Normal
      <4>2. [e \in 1 .. 0 |-> e] \in Seq(Entries) /\ 0 \in Numbers
        BY Bounds
      <4>3. db' \in DbType
        BY <3>2, <4>2 DEF Snapshot, Normal, DbType
      <4>4. AllBacked(plog, rec.snap, 0)
        BY DEF AllBacked
      <4> QED
        BY <4>1, <4>3, <4>4, Bounds
    <3>3. CASE db' = db
      BY <3>3, DbIsDumped DEF CommitInv, TypeOK, DbShape
    <3> QED
      BY <1>1, <3>1, <3>2, <3>3
  <2>2. dump'.entry = db'.entry /\ dump'.data = db'.data /\ dump'.flag = "normal"
    BY <1>1 DEF Normal
  <2>3. dump' \in DbType
    BY <1>1, <2>1 DEF Normal, DbType
  <2>4. DbShape' /\ Dumped'
    BY <1>1, <1>4, <2>1, <2>2 DEF DbShape, Dumped
  <2>5. DbHasChosenValuesUnraised'
    BY <1>1, <2>1 DEF DbHasChosenValuesUnraised, DbHasChosenValues, DbHolds, Blank
  <2> QED
    BY <1>1, <1>4, <2>1, <2>3, <2>4, <2>5
<1>6. /\ plog' \in [Entries -> {"none", "accepted", "chosen"}] /\ raised' \in BOOLEAN
      /\ dump' \in DbType
  BY <1>1, <1>5 DEF CommitInv, TypeOK
<1>7. /\ ent' = Absent /\ mem' = {} /\ userq' = {} /\ dbq' = <<>> /\ dbjobs' = {}
      /\ limq' = <<>> /\ pending' = None /\ limjobs' = [r \in Routines |-> None]
      /\ replay' = NoReplay
  BY <1>1, <1>4 DEF Restart
<1>8. TypeOK'
  BY <1>3, <1>4, <1>5, <1>6, <1>7, EmptyMemory DEF TypeOK
<1>9. Marks' /\ Answers' /\ RecoveryUnderWay'
  BY <1>2, <1>4, <1>7, EmptyMemory, Bounds DEF Marks, Answers, RecoveryUnderWay, OfSnapshot
<1>10. Backing'
  BY <1>5, <1>7, EmptyMemory DEF Backing, AllBacked
<1>11. Commands' /\ Requests' /\ Values'
  BY <1>3, <1>7, EmptyMemory, NoneBacked DEF Commands, Requests, Values
<1>12. ReplayKnows' /\ ReplayIsFresh'
  BY <1>7, EmptyMemory DEF ReplayKnows, ReplayIsFresh
<1> QED
  BY <1>5, <1>8, <1>9, <1>10, <1>11, <1>12 DEF CommitInv

(* The dump is of a Db in recovery too, and then blank.                    *)
LEMMA DumpDbInv == CommitInv /\ DumpDb => CommitInv'
<1> SUFFICES ASSUME CommitInv, DumpDb PROVE CommitInv'
  OBVIOUS
<1>1. /\ dump' = Normal(db.entry, db.data)
      /\ UNCHANGED <<plog, db, entity, workers, rec, replay, env>>
  BY DEF DumpDb
<1>2. /\ UNCHANGED <<plog, db, ent, mem, userq, dbq, dbjobs, limq, pending, limjobs, raised>>
      /\ UNCHANGED <<rec, replay, env>> /\ Routines' = Routines
  BY <1>1 DEF entity, workers, Routines
<1>3. /\ db \in DbType /\ db.entry \in Numbers /\ db.data \in Seq(Entries)
      /\ db.flag \in {"normal", "recover"}
  BY DEF CommitInv, TypeOK, DbType
<1>4. dump'.entry = db.entry /\ dump'.data = db.data /\ dump'.flag = "normal"
  BY <1>1 DEF Normal
<1>5. dump' \in DbType
  BY <1>1, <1>3 DEF Normal, DbType
<1>6. Dumped'
  <2>1. db.entry = Unset => db.data = <<>>
    BY DEF CommitInv, DbShape
  <2> QED
    BY <1>2, <1>4, <2>1, DbIsDumped DEF Dumped
<1>7. TypeOK'
  BY <1>2, <1>5 DEF CommitInv, TypeOK
<1>8. DbShape' /\ DbHasChosenValuesUnraised'
  BY <1>2, SameDb
<1>9. Marks' /\ Answers' /\ RecoveryUnderWay' /\ Backing'
  BY <1>2 DEF CommitInv, Marks, Answers, RecoveryUnderWay, Backing
<1>10. Commands' /\ Requests' /\ Values' /\ ReplayKnows' /\ ReplayIsFresh'
  BY <1>2 DEF CommitInv, Commands, Requests, Values, ReplayKnows, ReplayIsFresh
<1> QED
  BY <1>6, <1>7, <1>8, <1>9, <1>10 DEF CommitInv

-----------------------------------------------------------------------------
LEMMA CommitStep == CommitInv /\ [Next]_vars => CommitInv'
<1> SUFFICES ASSUME CommitInv, [Next]_vars PROVE CommitInv'
  OBVIOUS
<1>1. CASE EntityStep
  BY <1>1, CreateEntityInv, LoadMaxEntryInv, HandleLoadFromPlogInv, TickInv, RecoverCmdInv,
     NotFoundInv, RecoverIntervalInv, HandleRecoverRspCmdInv, LearnInv, AcceptInv, GetFromPlogInv
     DEF EntityStep
<1>2. CASE WorkerStep
  BY <1>2, DbGetJobInv, DbDoJobInv, LimitedLoopInv, LimitedDoJobInv, RecoverGetJobInv,
     RecoverSetFlagInv, RecoverFetchInv, RecoverRespondInv DEF WorkerStep
<1>3. CASE ReplayStep
  BY <1>3, ReplayStatusInv, ReplayLoadInv, ReplayLoadFailsInv, ReplayInfoInv, ReplayLoopInv
     DEF ReplayStep
<1>4. CASE DumpDb \/ Restart
  BY <1>4, DumpDbInv, RestartInv
<1>5. CASE UNCHANGED vars
  <2>1. UNCHANGED <<plog, ent, mem, userq, dbq, rec, env>>
        /\ UNCHANGED <<db, dump, dbjobs, limq, pending, limjobs, raised, replay>>
    BY <1>5 DEF vars, entity, workers
  <2>2. userq' \subseteq {"catchup", "recover"} /\ env' \in ScenarioType
        /\ replay' \in ReplayType /\ ReplayKnows' /\ ReplayIsFresh'
    BY <2>1 DEF CommitInv, TypeOK, ReplayKnows, ReplayIsFresh
  <2> QED
    BY <2>1, <2>2, SameDb, SameRequests, ReplayFrame
<1> QED
  BY <1>1, <1>2, <1>3, <1>4, <1>5 DEF Next

LEMMA CommitInvariance == Spec => []CommitInv
BY CommitInit, CommitStep, PTL DEF Spec

(* Every variable of the way into the Db keeps its domain: the queues stay *)
(* within their capacity, no command names an entry that does not exist,   *)
(* and the number -1u of a Db in recovery is never counted up, although it *)
(* reaches the marks of the EntityInfo and the requests made from them.    *)
THEOREM CommitTypeCorrect == Spec => []TypeOK
<1>1. CommitInv => TypeOK
  BY DEF CommitInv
<1> QED
  BY <1>1, CommitInvariance, PTL

(* As long as no request with a value was raised, the Db holds the chosen  *)
(* values of the entries 1 .. max_committed_entry, or nothing, at -1u, in  *)
(* whatever order DbWorker, DbLimitedWorker, Replay, SnapshotRecover and   *)
(* the reload of a dump write it.  The blank Db is not always marked as in *)
(* recovery: a peer in recovery may have answered, or the dump was taken   *)
(* in recovery.                                                            *)
THEOREM DbIsChosenPrefix == Spec => []DbHasChosenValuesUnraised
<1>1. CommitInv => DbHasChosenValuesUnraised
  BY DEF CommitInv
<1> QED
  BY <1>1, CommitInvariance, PTL

(* TryCatchup's assertion: max_cont_chosen_entry never passes              *)
(* max_chosen_entry.                                                       *)
THEOREM ContBelowChosen == Spec => []ContNotAboveChosen
<1>1. CommitInv => ContNotAboveChosen
  BY DEF CommitInv, Marks, ContNotAboveChosen
<1> QED
  BY <1>1, CommitInvariance, PTL

(* An entry that EntityHelper counts into max_cont_chosen_entry is in the  *)
(* data of the Db or chosen in the plog, also after a restart with an      *)
(* older dump; unless a snapshot that the Db once had is not there.        *)
THEOREM ContEntriesBacked == Spec => []ContIsBacked
<1>1. CommitInv => ContIsBacked
  <2> SUFFICES ASSUME CommitInv, rec.snap <= Len(db.data),
                      NEW e \in Entries, ent.max_cont \in e .. MaxEntry
               PROVE  e <= Len(db.data) \/ plog[e] = "chosen"
    BY DEF ContIsBacked
  <2>1. ent.max_cont \in 0 .. MaxEntry /\ e \in 1 .. ent.max_cont /\ e \in Nat
    BY Bounds DEF Entries
  <2>2. plog[e] = "chosen" \/ e <= rec.snap
    BY <2>1 DEF CommitInv, Backing, AllBacked, Backed
  <2>3. rec.snap \in Nat /\ Len(db.data) \in Nat
    <3>1. db.data \in Seq(Entries)
      BY DEF CommitInv, TypeOK, DbType
    <3> QED
      BY <3>1, RecoverFields DEF CommitInv, TypeOK
  <2> QED
    BY <2>1, <2>2, <2>3
<1> QED
  BY <1>1, CommitInvariance, PTL

(* recover_pending is set only while a request, the job or its answer is   *)
(* on its way to clear it.                                                 *)
THEOREM RecoveryIsUnderWay == Spec => []RecoveryUnderWay
<1>1. CommitInv => RecoveryUnderWay
  BY DEF CommitInv
<1> QED
  BY <1>1, CommitInvariance, PTL

(* When Replay answers 0, the Db has what the replica knew to be chosen    *)
(* when the call began, or has lost entries of a snapshot it had before.   *)
THEOREM ReplayAnswersFresh == Spec => []ReplayIsFresh
<1>1. CommitInv => ReplayIsFresh
  BY DEF CommitInv
<1> QED
  BY <1>1, CommitInvariance, PTL
==============================================================================
