------------------------------ MODULE PaxosKv -------------------------------
(***************************************************************************)
(* One key of paxoskv on its three servers: the operations of              *)
(* kv/db_impl.cc, the cache of alive states and its timeout worker         *)
(* (kv/db_helper.cc), the store (kv/hard_memkv.cc) and the messages        *)
(* (msg_svr/msg_helper.cc).                                                *)
(*                                                                         *)
(* PostPaxosMsg and the first part of Set hold the hash lock of the key,   *)
(* so each is one step.  Waiting, and what Set and Get do afterwards, is   *)
(* not under the lock.  An assertion that does not hold ends the process,  *)
(* which starts again from its disk; failed collects their names.          *)
(***************************************************************************)
EXTENDS PLog

CONSTANTS
    MaxCalls,     \* calls of Set
    Scenarios     \* the environments of the key, see env

Calls == 1 .. MaxCalls

(* What the clients and the network do in one behaviour.                   *)
Scenario ==
    [at : [Calls -> Servers \cup {0}],  \* the server on which a client calls Set, 0 for no call
     reader : Servers,                  \* the server on which a client calls Get
     first : Servers \cup {0},          \* whose write all have learned at the start, 0 for an empty key
     links : SUBSET (Servers \X Servers),  \* who can reach whom
     reads : Nat,                       \* bound: calls of Get
     faults : Nat]                      \* bound: crashes, failed writes, timeouts and catch-ups

ASSUME CallsAssumption == MaxCalls \in Nat
ASSUME ScenariosAssumption == \A sc \in Scenarios : sc \in Scenario

VARIABLES
    env,        \* the scenario, with what is left of its reads and faults
    mem,        \* mem[s]: header and log of the key in the memory of server s
    disk,       \* disk[s]: the last record of the key in its store
    alive,      \* alive[s]: the entry of the key in alive_state_cache_
    call,       \* call[c]: a call of Set
    notified,   \* the calls whose pipe has been written to
    read,       \* the call of Get
    net,        \* messages sent and not handled; one that stays there is lost
    chosen,     \* history: the pairs of index and value that were marked chosen
    acked,      \* history: the values for which Set returned 0
    stale,      \* history: a Get returned 0 with less than an earlier Set
    failed      \* history: the assertions that did not hold

vars == <<env, mem, disk, alive, call, notified, read, net, chosen, acked, stale, failed>>

(* A value is the reqid, which carries its server, and the data, which     *)
(* carries the version; call 0 is the write from before the start.         *)
Value == [svr : Servers, call : Calls \cup {0}, ver : 1 .. MaxCalls + 1]
FirstValue(s) == [svr |-> s, call |-> 0, ver |-> 1]

CallAt == env.at
Reader == env.reader

NoHeader == [max |-> 0, chosen |-> 0, reqid |-> NoValue, ver |-> 0]
NoPlog == [hdr |-> NoHeader, log |-> << >>]
NoCall == [at |-> "idle", index |-> 0, value |-> NoValue]
NoRead == [at |-> "idle", floor |-> 0, asked |-> {}, other |-> 0, prev |-> 0, on |-> 0]

Highest(S) == IF S = {} THEN 0 ELSE CHOOSE n \in S : \A k \in S : k <= n

-----------------------------------------------------------------------------
(* updateHeader and AssertCheck.                                           *)

updateHeader(hdr, log) ==
    LET h == [hdr EXCEPT !.max = get_max_index(log)] IN
    IF hdr.chosen = get_chosen_index(log) THEN h
    ELSE IF ~HasChosen(log) THEN [NoHeader EXCEPT !.max = h.max]
    ELSE [max |-> h.max, chosen |-> get_chosen_index(log),
          reqid |-> get_chosen_ins(log).value, ver |-> get_chosen_ins(log).value.ver]

AssertCheck(p) ==
    /\ p.hdr.max = get_max_index(p.log)
    /\ p.hdr.chosen = get_chosen_index(p.log)
    /\ IF HasChosen(p.log)
       THEN /\ p.hdr.reqid = get_chosen_ins(p.log).value
            /\ p.hdr.ver = get_chosen_ins(p.log).value.ver
       ELSE p.hdr.reqid = NoValue /\ p.hdr.ver = 0

ChosenPairs(p) == {<<p.log[k].index, p.log[k].value>> : k \in ChosenAt(p.log)}

(* The process of s ends, by a crash or an assertion, and starts again:    *)
(* the calls of its clients end without an answer.                         *)
Restart(s, site) ==
    /\ mem' = [mem EXCEPT ![s] = disk[s]]
    /\ alive' = [alive EXCEPT ![s] = NoAlive]
    /\ call' = [c \in Calls |-> IF CallAt[c] = s /\ call[c].at \in {"wait", "check"}
                                THEN [call[c] EXCEPT !.at = "done"] ELSE call[c]]
    /\ read' = IF s = Reader THEN NoRead ELSE read
    /\ failed' = failed \cup site
    /\ chosen' = chosen \cup ChosenPairs(disk[s])
    /\ UNCHANGED <<disk, notified, acked, stale>>

(* A crash, a failed write, a timeout or a catch-up: the scenario bounds   *)
(* their number.                                                           *)
Fault == env.faults > 0 /\ env' = [env EXCEPT !.faults = @ - 1]

(* What SendMsg delivers, sooner, later or never.                          *)
Sent(msgs) == {m \in msgs : <<m.from, m.to>> \in env.links}

(* clsHardMemKv::Write: the store first, then the memory.                  *)
WriteOk(s, p) ==
    /\ mem' = [mem EXCEPT ![s] = p]
    /\ disk' = [disk EXCEPT ![s] = p]
    /\ chosen' = chosen \cup ChosenPairs(p)
    /\ UNCHANGED env

(* The store fails, or the memory after it.                                *)
WriteFails(s, p) ==
    /\ Fault
    /\ disk' \in {disk, [disk EXCEPT ![s] = p]}
    /\ UNCHANGED <<mem, chosen>>

-----------------------------------------------------------------------------
(* PostPaxosMsg.                                                           *)

(* MoreGet: the alive state of the message's instance.                     *)
AliveFor(s, i) ==
    IF alive[s].index = i /\ alive[s].state # "CHOSEN" THEN alive[s] ELSE NoAlive

Stored(s, r) ==
    [hdr |-> IF r.write THEN updateHeader(mem[s].hdr, r.log) ELSE mem[s].hdr, log |-> r.log]

(* The alive state of another index is notified and destroyed when the log *)
(* has gone beyond it, unless it is chosen: Get does not find it then.     *)
Outdated(s, m, p) ==
    /\ alive[s] # NoAlive /\ alive[s].state # "CHOSEN"
    /\ alive[s].index # m.index /\ alive[s].index < p.hdr.max

Notified(r) == IF r.notify THEN {r.al.call} ELSE {}

(* The write succeeds, or there is nothing to write.                       *)
PostDone(m, r, p) ==
    LET s == m.to
        mine == AliveFor(s, m.index) # NoAlive
        done == (mine /\ r.al.state = "CHOSEN") \/ Outdated(s, m, p)
    IN  /\ \/ r.write /\ WriteOk(s, p)
           \/ ~r.write /\ UNCHANGED <<mem, disk, chosen, env>>
        /\ net' = (net \ {m}) \cup Sent(r.out)
        /\ alive' = [alive EXCEPT ![s] = IF done THEN NoAlive
                                         ELSE IF mine THEN r.al ELSE alive[s]]
        /\ notified' = notified \cup Notified(r) \cup (IF done THEN {alive[s].call} ELSE {})
        /\ UNCHANGED <<call, read, acked, stale, failed>>

(* The write fails: no answer, but the alive state has made the step.      *)
PostFails(m, r, p) ==
    LET s == m.to IN
    /\ r.write /\ WriteFails(s, p)
    /\ net' = net \ {m}
    /\ alive' = [alive EXCEPT ![s] = IF AliveFor(s, m.index) # NoAlive THEN r.al ELSE alive[s]]
    /\ notified' = notified \cup Notified(r)
    /\ UNCHANGED <<call, read, acked, stale, failed>>

PostAborts(m, sites) ==
    /\ Restart(m.to, sites)
    /\ net' = net \ {m}
    /\ UNCHANGED env

Post(m, r, p, sites) ==
    \/ sites = {} /\ PostDone(m, r, p)
    \/ sites = {} /\ PostFails(m, r, p)
    \/ sites # {} /\ PostAborts(m, sites)

PostPaxosMsg(m) ==
    \E r \in {PLogStep(mem[m.to].log, AliveFor(m.to, m.index), m)} :
        \E p \in {Stored(m.to, r)} :
            Post(m, r, p, r.failed \cup Unless(AssertCheck(p), "header"))

-----------------------------------------------------------------------------
(* Set.                                                                    *)

(* packRawValue: the version that follows the one that is chosen here.     *)
packRawValue(s, c) == [svr |-> s, call |-> c, ver |-> mem[s].hdr.ver + 1]

(* SetNoLock, and the wait of Set begins.  Insert replaces the alive state *)
(* of an earlier Set and notifies it.                                      *)
SetDone(s, c, r, p) ==
    /\ WriteOk(s, p)
    /\ alive' = [alive EXCEPT ![s] = r.al]
    /\ notified' = IF alive[s] = NoAlive THEN notified ELSE notified \cup {alive[s].call}
    /\ call' = [call EXCEPT ![c] = [at |-> "wait", index |-> r.al.index,
                                    value |-> packRawValue(s, c)]]
    /\ net' = net \cup Sent(r.out)
    /\ UNCHANGED <<read, acked, stale, failed>>

(* The write fails: the new alive state was not in the cache yet, so that  *)
(* Destroy can only hit another one of the same index.                     *)
SetFails(s, c, r, p) ==
    /\ WriteFails(s, p)
    /\ alive' = [alive EXCEPT ![s] = IF @.index = r.al.index THEN NoAlive ELSE @]
    /\ call' = [call EXCEPT ![c].at = "done"]
    /\ UNCHANGED <<notified, read, net, acked, stale, failed>>

(* The assertions of can_write, SetNoLockNoWrite, SetNoLock and Insert.    *)
SetFailed(s, r, p) ==
    IF can_write(mem[s].log) = "abort" THEN {"can_write"}
    ELSE r.failed \cup Unless(r.out # {} /\ r.write, "set")
            \cup Unless(AssertCheck(p), "header")
            \cup Unless(alive[s].index <= r.al.index, "insert")

SetAborts(s, sites) ==
    /\ Restart(s, sites)
    /\ UNCHANGED <<net, env>>

(* The calls on a server are made in the order of their numbers.  One that *)
(* can_write refuses changes nothing and is not a step.                    *)
Set(c) ==
    LET s == CallAt[c] IN
    /\ call[c].at = "idle" /\ s # 0
    /\ can_write(mem[s].log) # "out"
    /\ \A d \in Calls : d < c /\ CallAt[d] = s => call[d].at # "idle"
    /\ \E r \in {PLogSet(mem[s].log, s, c, packRawValue(s, c))} :
        \E p \in {Stored(s, r)} :
            \/ SetFailed(s, r, p) = {} /\ SetDone(s, c, r, p)
            \/ SetFailed(s, r, p) = {} /\ SetFails(s, c, r, p)
            \/ SetFailed(s, r, p) # {} /\ SetAborts(s, SetFailed(s, r, p))

(* WaitForNotify returns 0: the alive state of the call's index is         *)
(* destroyed, whichever Set it belongs to.                                 *)
SetWakes(c) ==
    LET s == CallAt[c] IN
    /\ call[c].at = "wait" /\ c \in notified
    /\ alive' = [alive EXCEPT ![s] = IF @.index = call[c].index THEN NoAlive ELSE @]
    /\ call' = [call EXCEPT ![c].at = "check"]
    /\ UNCHANGED <<mem, disk, notified, read, net, env, chosen, acked, stale, failed>>

SetTimesOut(c) ==
    /\ call[c].at = "wait" /\ Fault
    /\ call' = [call EXCEPT ![c].at = "done"]
    /\ UNCHANGED <<mem, disk, alive, notified, read, net, chosen, acked, stale, failed>>

(* CheckReqID: 0, or PAXOS_SET_PREEMPTED.                                  *)
IsMine(c) ==
    LET h == mem[CallAt[c]].hdr IN h.chosen = call[c].index /\ h.reqid = call[c].value

SetReturns(c) ==
    /\ call[c].at = "check"
    /\ call' = [call EXCEPT ![c].at = "done"]
    /\ acked' = IF IsMine(c) THEN acked \cup {call[c].value} ELSE acked
    /\ UNCHANGED <<mem, disk, alive, notified, read, net, env, chosen, stale, failed>>

(* ActiveTimeoutWorker destroys an alive state without notifying its Set.  *)
AliveTimesOut(s) ==
    /\ alive[s] # NoAlive /\ Fault
    /\ alive' = [alive EXCEPT ![s] = NoAlive]
    /\ UNCHANGED <<mem, disk, call, notified, read, net, chosen, acked, stale, failed>>

-----------------------------------------------------------------------------
(* Get.  The caller asks both peers for their highest index first.         *)

ReadStarts ==
    /\ read.at = "idle" /\ env.reads > 0
    /\ env' = [env EXCEPT !.reads = @ - 1]
    /\ read' = [NoRead EXCEPT !.at = "ask", !.floor = Highest({v.ver : v \in acked})]
    /\ UNCHANGED <<mem, disk, alive, call, notified, net, chosen, acked, stale, failed>>

ReadAsks(p) ==
    /\ read.at = "ask" /\ p \notin read.asked \cup {Reader}
    /\ read' = [read EXCEPT !.asked = @ \cup {p}, !.other = MaxOf(@, mem[p].hdr.max)]
    /\ UNCHANGED <<mem, disk, alive, call, notified, net, env, chosen, acked, stale, failed>>

ReadEnds(version) ==
    /\ read' = NoRead
    /\ stale' = (stale \/ version < read.floor)

GetResult(peerKnown) ==
    can_read_3svr(mem[Reader].hdr.chosen, mem[Reader].hdr.max, read.other, peerKnown)

Asked == read.at = "ask" /\ read.asked = Servers \ {Reader}

(* Get returns the local value.                                            *)
GetLocal ==
    /\ Asked /\ GetResult(FALSE) = "ok"
    /\ ReadEnds(mem[Reader].hdr.ver)
    /\ UNCHANGED <<mem, disk, alive, call, notified, net, env, chosen, acked, failed>>

(* A write is pending: Get waits for it when it is this server's, and      *)
(* fails otherwise, as TryRedo does nothing.  It fails too when the local  *)
(* log is behind.                                                          *)
GetWaits(peerKnown) ==
    LET h == mem[Reader].hdr
        al == AliveFor(Reader, h.max)
    IN  /\ Asked /\ GetResult(peerKnown) # "ok"
        /\ read' = IF GetResult(peerKnown) = "may" /\ al # NoAlive
                   THEN [read EXCEPT !.at = "wait", !.prev = h.chosen, !.on = al.call]
                   ELSE NoRead
        /\ UNCHANGED <<mem, disk, alive, call, notified, net, env, chosen, acked, stale, failed>>

(* The wait is over: by then the chosen index has to be a later one.       *)
GetWakes ==
    LET h == mem[Reader].hdr IN
    /\ read.at = "wait" /\ read.on \in notified
    /\ h.chosen >= read.prev
    /\ IF h.chosen = read.prev THEN read' = NoRead /\ UNCHANGED stale
       ELSE ReadEnds(h.ver)
    /\ UNCHANGED <<mem, disk, alive, call, notified, net, env, chosen, acked, failed>>

GetAborts ==
    /\ read.at = "wait" /\ read.on \in notified
    /\ mem[Reader].hdr.chosen < read.prev
    /\ Restart(Reader, {"get"})
    /\ UNCHANGED <<net, env>>

GetTimesOut ==
    /\ read.at = "wait"
    /\ read' = NoRead
    /\ UNCHANGED <<mem, disk, alive, call, notified, net, env, chosen, acked, stale, failed>>

-----------------------------------------------------------------------------
(* TriggerACatchUpOn.                                                      *)
TriggerACatchUpOn(s) ==
    /\ Fault
    /\ net' = net \cup Sent({Msg("GET_CHOSEN", s, t, 0, 0) : t \in Servers \ {s}})
    /\ UNCHANGED <<mem, disk, alive, call, notified, read, chosen, acked, stale, failed>>

Crash(s) ==
    /\ Fault
    /\ Restart(s, {})
    /\ UNCHANGED net

-----------------------------------------------------------------------------
(* At the start the key is empty, or every server has learned the write    *)
(* that the first server proposed and the two others accepted.             *)
FirstPlog(s, first) ==
    LET num == prop_num_compose(first, 1)
        ins == [NewIns(1) EXCEPT !.proposed = IF s = first THEN num ELSE 0,
                    !.promised = num, !.accepted = num, !.value = FirstValue(first),
                    !.chosen = TRUE]
    IN  [hdr |-> updateHeader(NoHeader, <<ins>>), log |-> <<ins>>]

Init ==
    /\ env \in Scenarios
    /\ mem = [s \in Servers |-> IF env.first = 0 THEN NoPlog ELSE FirstPlog(s, env.first)]
    /\ disk = mem
    /\ alive = [s \in Servers |-> NoAlive]
    /\ call = [c \in Calls |-> NoCall]
    /\ notified = {} /\ read = NoRead /\ net = {}
    /\ chosen = UNION {ChosenPairs(mem[s]) : s \in Servers}
    /\ acked = {} /\ stale = FALSE /\ failed = {}

SetEnds(c) == SetWakes(c) \/ SetTimesOut(c) \/ SetReturns(c)

GetCall ==
    \/ ReadStarts
    \/ \E p \in Servers : ReadAsks(p)
    \/ GetLocal
    \/ \E peerKnown \in BOOLEAN : GetWaits(peerKnown)
    \/ GetWakes
    \/ GetAborts
    \/ GetTimesOut

Next ==
    \/ \E m \in net : PostPaxosMsg(m)
    \/ \E c \in Calls : Set(c) \/ SetEnds(c)
    \/ GetCall
    \/ \E s \in Servers : AliveTimesOut(s) \/ TriggerACatchUpOn(s) \/ Crash(s)

Spec == Init /\ [][Next]_vars

-----------------------------------------------------------------------------
(* Properties.                                                             *)

(* The writes that are chosen on some server form the one history of the   *)
(* key: one value per index, none twice, each with the index as its        *)
(* version; Set returns 0 only for a write of that history.                *)
Pasts == {{}} \cup {{<<1, FirstValue(s)>>} : s \in Servers}
History == INSTANCE VersionedKey WITH Writes <- Value, history <- chosen, acked <- acked
KeyHistory == History!Spec

(* Get returns 0 only with a version at least as high as that of every Set *)
(* that had returned 0 before the caller asked the peers.  (A caller that  *)
(* passes PEER_STATUS::IGNORE has not asked and is promised nothing.)      *)
ReadsAreFresh == ~stale

(* Whatever the interleaving of proposers, lost messages and failed        *)
(* writes, the assertions of pins_wrapper.cc, plog_wrapper.cc, db_impl.cc  *)
(* and db_helper.cc on votes, numbers, values and headers hold.  Three do  *)
(* not: is_slim in stepInvalidIndex ("slim"), the null chosen_ins of       *)
(* can_write, and the chosen index that Get finds after its wait.          *)
AssertsHold == failed \subseteq {"slim", "can_write", "get"}

(* No message, Set or Get ends the process.                                *)
NeverAborts == failed = {}

IsInstance(ins) ==
    /\ {ins.index, ins.proposed, ins.promised, ins.accepted} \subseteq Nat
    /\ ins.value \in Value \cup {NoValue} /\ ins.chosen \in BOOLEAN
    /\ ins.accepted <= ins.promised /\ (ins.accepted = 0) = (ins.value = NoValue)

IsPlog(p) ==
    /\ is_slim(p.log) /\ \A k \in 1 .. Len(p.log) : IsInstance(p.log[k])
    /\ {p.hdr.max, p.hdr.chosen, p.hdr.ver} \subseteq Nat
    /\ p.hdr.reqid \in Value \cup {NoValue}

(* Every variable stays in its domain: the stored logs are slim and their  *)
(* instances whole, a message is one between two servers.                  *)
TypeOK ==
    /\ \A s \in Servers : /\ IsPlog(mem[s]) /\ IsPlog(disk[s])
                          /\ alive[s].call \in Calls \cup {0}
                          /\ alive[s].yes \cup alive[s].no \subseteq Servers \ {s}
    /\ \A c \in Calls : /\ call[c].at \in {"idle", "wait", "check", "done"}
                        /\ call[c].value \in Value \cup {NoValue}
    /\ notified \subseteq Calls /\ acked \subseteq Value
    /\ \A h \in chosen : h[1] \in Nat /\ h[2] \in Value
    /\ \A m \in net : m.from \in Servers /\ m.to \in Servers \ {m.from}
    /\ env.faults \in Nat /\ env.reads \in Nat
=============================================================================
