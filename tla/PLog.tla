------------------------------- MODULE PLog ---------------------------------
(***************************************************************************)
(* The log of a key of paxoskv: core/plog_wrapper.cc and                   *)
(* core/plog_helper.cc.  A log is a sequence of instances, oldest first;   *)
(* between two steps it has at most two.                                   *)
(***************************************************************************)
EXTENDS PIns, Sequences

MaxIns(log) == log[Len(log)]
get_min_index(log) == IF log = << >> THEN 0 ELSE log[1].index
get_max_index(log) == IF log = << >> THEN 0 ELSE MaxIns(log).index

(* get_chosen_ins: the last chosen instance.                               *)
ChosenAt(log) == {k \in 1 .. Len(log) : log[k].chosen}
HasChosen(log) == ChosenAt(log) # {}
get_chosen_ins(log) ==
    log[CHOOSE k \in ChosenAt(log) : \A l \in ChosenAt(log) : l <= k]
get_chosen_index(log) == IF HasChosen(log) THEN get_chosen_ins(log).index ELSE 0

(* The previous instance is kept while the last one is pending: when it is *)
(* chosen, or accepted and the last one has no value yet.                  *)
KeepsPrev(prev, ins) ==
    /\ ~ins.chosen
    /\ prev.index + 1 = ins.index
    /\ prev.value # NoValue
    /\ prev.chosen \/ ins.value = NoValue

is_slim(log) == Len(log) < 2 \/ (Len(log) = 2 /\ KeepsPrev(log[1], log[2]))

shrink_plog(log) ==
    IF is_slim(log) THEN log
    ELSE IF KeepsPrev(log[Len(log) - 1], MaxIns(log))
    THEN <<log[Len(log) - 1], MaxIns(log)>>
    ELSE <<MaxIns(log)>>

-----------------------------------------------------------------------------
(* can_write: "ok", "out" for PAXOS_SET_LOCAL_OUT, or "abort" where the    *)
(* code dereferences the null chosen_ins of two pending instances.         *)
can_write(log) ==
    CASE Len(log) = 1 -> IF ~log[1].chosen /\ log[1].index # 1 THEN "out" ELSE "ok"
      [] Len(log) = 2 -> IF HasChosen(log) THEN "ok" ELSE "abort"
      [] OTHER -> "ok"

(* can_read_3svr: "ok", "out" or "may".  Every status that is known counts *)
(* as chosen, since is_peer_chosen tests for any bit of D_CHOSEN.  (Left   *)
(* out: with PEER_STATUS::IGNORE the caller opts out and always gets ok.)  *)
LocalOut_PeersChosenOnly(chosen, max, other) ==  \* mutant: pending writes of the peers are ignored
    max > chosen + 1 \/ other > chosen + 2

LocalOut(chosen, max, other) ==
    max > chosen + 1 \/ other > chosen + 1 \/ other > max

can_read_3svr(chosen, max, other, peerKnown) ==
    IF LocalOut(chosen, max, other) THEN "out"
    ELSE IF other <= chosen THEN "ok"
    ELSE IF peerKnown THEN "out" ELSE "may"

-----------------------------------------------------------------------------
(* PLogWrapper::Step.  The result has the log, the alive state, the        *)
(* messages, whether to write, to notify, and the failed assertions.       *)

LogResult(log, al) ==
    [log |-> log, al |-> al, out |-> {}, write |-> FALSE, notify |-> FALSE, failed |-> {}]

(* stepInvalidIndex: the instance of the message is no longer in the log.  *)
(* For the chosen message of the instance before the last, the code puts   *)
(* an empty instance in front, which is_slim never admits.                 *)
stepInvalidIndex(log, al, m) ==
    LET r == LogResult(log, al) IN
    CASE m.type \in {"GET_CHOSEN", "PROP", "ACCPT", "FAST_ACCPT"} /\ HasChosen(log) ->
            [r EXCEPT !.out =
                stepChosen(Begin(get_chosen_ins(log), NoAlive),
                           [m EXCEPT !.type = "GET_CHOSEN",
                                     !.index = get_chosen_index(log)]).out]
      [] m.type = "CHOSEN" /\ m.index + 1 = get_max_index(log) /\ ~MaxIns(log).chosen ->
            [r EXCEPT !.log = <<NewIns(m.index), MaxIns(log)>>, !.write = TRUE,
                      !.failed = Unless(Len(log) = 1, "one_entry") \cup
                                 Unless(is_slim(<<NewIns(m.index), MaxIns(log)>>), "slim")]
      [] OTHER -> r

(* getInstance: a message for a later index opens a new pending instance.  *)
WithIns(log, i) ==
    IF i > get_max_index(log) THEN Append(log, NewIns(i)) ELSE log

(* The rest of Step: what has to be written, and shrink_plog.              *)
Stepped(opened, k, x) ==
    LET stepped == [opened EXCEPT ![k] = x.ins]
    IN  [log |-> shrink_plog(stepped), al |-> x.al, out |-> x.out, notify |-> x.notify,
         write |-> x.write \/ (x.ins.chosen /\ ~opened[k].chosen) \/ ~is_slim(stepped),
         failed |-> x.failed]

PLogStep(log, al, m) ==
    LET opened == WithIns(log, m.index)
        at == {k \in 1 .. Len(opened) : opened[k].index = m.index}
    IN  IF at = {} THEN stepInvalidIndex(log, al, m)
        ELSE LET k == CHOOSE n \in at : TRUE IN Stepped(opened, k, InsStep(opened[k], al, m))

-----------------------------------------------------------------------------
(* PLogWrapper::Set.                                                       *)

(* belong_to: the last chosen value is this server's own write.            *)
CanFast(log, s) == log # << >> /\ MaxIns(log).value.svr = s

NormalSet(log, s, call, v) ==
    LET i == get_max_index(log) + 1
        type == IF CanFast(log, s) THEN "BEGIN_FAST_PROP" ELSE "BEGIN_PROP"
        num == prop_num_compose(s, 0)
    IN  PLogStep(Append(log, NewIns(i)), NewAlive(i, call, num),
                 [Msg(type, s, s, i, num) EXCEPT !.value = v])

PreemptSet(log, s, call, v) ==
    LET i == get_max_index(log)
        num == NextNum(prop_num_compose(s, 0), MaxIns(log).proposed)
    IN  PLogStep(log, NewAlive(i, call, num),
                 [Msg("TRY_PROP", s, s, i, num) EXCEPT !.value = v])

PLogSet(log, s, call, v) ==
    IF log # << >> /\ ~MaxIns(log).chosen THEN PreemptSet(log, s, call, v)
    ELSE NormalSet(log, s, call, v)
=============================================================================
