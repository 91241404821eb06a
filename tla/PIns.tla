------------------------------- MODULE PIns ---------------------------------
(***************************************************************************)
(* One Paxos instance of paxoskv: the step function of                     *)
(* core/pins_wrapper.cc and the numbers of cutils/id_utils.h.              *)
(*                                                                         *)
(* An instance is what is stored (PaxosInstance); a number or an accepted  *)
(* value that is not set is 0 or NoValue.  An alive state                  *)
(* (PInsAliveState) is what the proposer keeps in memory for the Set that  *)
(* is under way; NoAlive is the null pointer.                              *)
(*                                                                         *)
(* A step works on a record x: the instance, the alive state, whether the  *)
(* instance has to be written, the type of the response, whether the       *)
(* waiting Set is notified, and the assertions that do not hold.           *)
(***************************************************************************)
EXTENDS Integers, FiniteSets

CONSTANTS
    NoValue,      \* no accepted or proposing value
    MaxPropCnt    \* MAX_PROP_CNT

ASSUME MaxPropCntAssumption == MaxPropCnt \in Nat \ {0}

Servers == 1 .. 3       \* selfid of the three replicas of a key
major_cnt == 2

-----------------------------------------------------------------------------
(* Proposal numbers: a counter in the high bits, the server in the low 16. *)

IdBase == 65536

prop_num_compose(id, cnt) == cnt * IdBase + id
PropId(n) == n % IdBase
get_prop_cnt(n) == n \div IdBase

MaxOf(a, b) == IF a >= b THEN a ELSE b

(* PropNumGen: g is what Get() returns.                                    *)
Update(g, n) ==
    IF g >= n THEN g
    ELSE prop_num_compose(PropId(g),
             IF PropId(n) > PropId(g) THEN get_prop_cnt(n) + 1 ELSE get_prop_cnt(n))

NextNum(g, n) == LET u == Update(g, n) IN IF u = n THEN u + IdBase ELSE u

-----------------------------------------------------------------------------
NewIns(i) == [index |-> i, proposed |-> 0, promised |-> 0, accepted |-> 0,
              value |-> NoValue, chosen |-> FALSE]

NoAlive == [index |-> 0, call |-> 0, num |-> 0, state |-> "NIL", accepted_hint |-> 0,
            hint |-> 0, yes |-> {}, no |-> {}, value |-> NoValue, cnt |-> 0]

NewAlive(i, call, num) ==
    [NoAlive EXCEPT !.index = i, !.call = call, !.num = num]

Msg(type, from, to, i, num) ==
    [type |-> type, from |-> from, to |-> to, index |-> i, proposed |-> num,
     promised |-> 0, accepted |-> 0, value |-> NoValue]

Unless(ok, site) == IF ok THEN {} ELSE {site}

(* updatePromised and updateAccepted: the conditions and the changes.      *)
Promises(ins, n) == ins.promised <= n
SetPromised(ins, n) == [ins EXCEPT !.promised = n]

Accepts(ins, n, fast) ==
    /\ ins.promised <= n
    /\ fast => ins.accepted = 0

SetAccepted_NoPromise(ins, n, v) == [ins EXCEPT !.accepted = n, !.value = v]  \* mutant

SetAccepted(ins, n, v) ==
    [ins EXCEPT !.promised = n, !.accepted = n, !.value = v]

-----------------------------------------------------------------------------
(* PInsAliveState::updatePropState, one operator per state that is entered.*)

(* beginPreparePhase carries on the value that this server has accepted.   *)
Adopts_Never(x) == FALSE  \* mutant: the own accepted value is ignored

Adopts(x) == x.ins.accepted # 0 /\ x.al.accepted_hint < x.ins.accepted

EnterPrepare(x) ==
    LET g == IF x.ins.promised # 0 THEN NextNum(x.al.num, x.ins.promised) ELSE x.al.num
        num == Update(g, MaxOf(x.al.hint, x.al.accepted_hint))
    IN  IF x.al.cnt + 1 > MaxPropCnt
        THEN [x EXCEPT !.al.cnt = x.al.cnt + 1, !.al.state = "PROP_FROZEN", !.notify = TRUE]
        ELSE [x EXCEPT
                !.al = [x.al EXCEPT
                    !.cnt = x.al.cnt + 1, !.num = num, !.state = "WAIT_PREPARE",
                    !.accepted_hint = IF Adopts(x) THEN x.ins.accepted ELSE x.al.accepted_hint,
                    !.value = IF Adopts(x) THEN x.ins.value ELSE x.al.value,
                    !.yes = {}, !.no = {}],
                !.ins = [x.ins EXCEPT !.proposed = num, !.promised = num],
                !.write = TRUE, !.rsp = "PROP",
                !.failed = x.failed \cup
                    Unless(num > x.ins.proposed /\ num > x.ins.promised, "prop_num")]

EnterAccept(x) ==
    IF Accepts(x.ins, x.al.num, FALSE)
    THEN [x EXCEPT
            !.al = [x.al EXCEPT !.state = "WAIT_ACCEPT", !.yes = {}, !.no = {}],
            !.ins = SetAccepted(x.ins, x.al.num, x.al.value),
            !.write = TRUE, !.rsp = "ACCPT"]
    ELSE EnterPrepare(x)

EnterChosen(x) ==
    [x EXCEPT
        !.al = [x.al EXCEPT !.state = "CHOSEN", !.yes = {}, !.no = {}, !.value = NoValue],
        !.rsp = "CHOSEN"]

-----------------------------------------------------------------------------
(* PInsAliveState::Step.                                                   *)

Vote(al, peer, yes) ==
    IF yes THEN [al EXCEPT !.yes = al.yes \cup {peer}]
    ELSE [al EXCEPT !.no = al.no \cup {peer}]

SameVote(al, peer, yes) == peer \notin (IF yes THEN al.no ELSE al.yes)

(* stepPrepareRsp: the vote, and the accepted value with the highest number.*)
TakesPeerValue(al, m) == m.value # NoValue /\ m.accepted > al.accepted_hint

AfterPrepareVote(y) ==
    IF Cardinality(y.al.no) >= major_cnt THEN EnterPrepare(y)
    ELSE IF Cardinality(y.al.yes) + 1 >= major_cnt THEN EnterAccept(y)
    ELSE y

stepPrepareRsp(x, m) ==
    LET voted == Vote(x.al, m.from, x.al.num = m.promised)
    IN  AfterPrepareVote([x EXCEPT
            !.al = IF TakesPeerValue(x.al, m)
                   THEN [voted EXCEPT !.accepted_hint = m.accepted, !.value = m.value]
                   ELSE voted,
            !.failed = x.failed
                \cup Unless(SameVote(x.al, m.from, x.al.num = m.promised), "vote")
                \cup Unless(x.al.num <= m.promised, "promised")
                \cup Unless(m.value # NoValue /\ m.accepted = x.al.accepted_hint
                                => m.value = x.al.value, "accepted_value")])

StepPropRsp(x, m) ==
    IF x.al.state # "WAIT_PREPARE" \/ x.ins.proposed # m.proposed THEN x
    ELSE IF x.al.num # m.proposed THEN EnterPrepare(x)   \* the last write failed
    ELSE stepPrepareRsp(x, m)

AcceptVote_Any(al, m) == TRUE  \* mutant: a rejection counts as a vote

AcceptVote(al, m) == al.num = m.accepted

AfterAcceptVote(y, m) ==
    IF Cardinality(y.al.no) >= major_cnt THEN EnterPrepare(y)
    ELSE IF Cardinality(y.al.yes) + 1 >= major_cnt
    THEN [EnterChosen(y) EXCEPT !.failed = y.failed \cup
            Unless(y.ins.value = y.al.value /\ m.proposed <= y.ins.accepted, "chosen_value")]
    ELSE y

stepAcceptRsp(x, m) ==
    AfterAcceptVote([x EXCEPT
        !.al = Vote(x.al, m.from, AcceptVote(x.al, m)),
        !.failed = x.failed \cup
            Unless(SameVote(x.al, m.from, AcceptVote(x.al, m)), "vote")], m)

(* ACCPT_RSP and FAST_ACCPT_RSP; max_hint_num_ is raised at the end.       *)
WithHint(y, x, m) ==
    [y EXCEPT !.al.hint = MaxOf(MaxOf(x.al.hint, m.promised), m.accepted),
              !.failed = y.failed \cup Unless(x.al.num = m.proposed, "proposed")]

StepAcceptRsp(x, m) ==
    IF x.al.state # "WAIT_ACCEPT" \/ x.ins.proposed # m.proposed THEN x
    ELSE WithHint(stepAcceptRsp(x, m), x, m)

(* TRY_PROP.                                                               *)
StepTryProp(x, m) ==
    LET hint == IF get_prop_cnt(m.proposed) = 0 THEN prop_num_compose(0, 1) ELSE m.proposed
    IN  EnterPrepare([x EXCEPT !.al = [x.al EXCEPT
            !.num = Update(x.al.num, hint), !.cnt = 0, !.accepted_hint = 0,
            !.value = m.value, !.yes = {}, !.no = {}]])

(* BEGIN_PROP, and BEGIN_FAST_PROP that goes on with the accept phase.     *)
StepBeginProp(x, m) ==
    LET hint == IF m.type = "BEGIN_PROP" THEN prop_num_compose(0, 1) ELSE 0
        y == EnterPrepare([x EXCEPT !.al = [x.al EXCEPT
                !.num = Update(x.al.num, hint), !.value = m.value]])
    IN  IF x.ins.promised # 0 THEN x
        ELSE IF m.type = "BEGIN_PROP" THEN y
        ELSE [EnterAccept(y) EXCEPT !.rsp = "FAST_ACCPT"]

AliveStep(x, m) ==
    CASE m.type = "PROP_RSP" -> StepPropRsp(x, m)
      [] m.type \in {"ACCPT_RSP", "FAST_ACCPT_RSP"} -> StepAcceptRsp(x, m)
      [] m.type = "TRY_PROP" -> StepTryProp(x, m)
      [] m.type \in {"BEGIN_PROP", "BEGIN_FAST_PROP"} -> StepBeginProp(x, m)

-----------------------------------------------------------------------------
(* PInsWrapper.                                                            *)

Begin(ins, al) ==
    [ins |-> ins, al |-> al, write |-> FALSE, rsp |-> "NOOP", notify |-> FALSE,
     failed |-> {}, out |-> {}]

(* markChosen, for the instance and the alive state if there is one.       *)
markChosen(x) ==
    [x EXCEPT !.ins.chosen = TRUE,
              !.al = IF x.al = NoAlive THEN NoAlive ELSE EnterChosen(x).al]

(* stepChosen: who asks for a chosen instance is told its value.           *)
stepChosen(x, m) ==
    CASE m.type \in {"GET_CHOSEN", "PROP", "ACCPT", "FAST_ACCPT"} ->
            [x EXCEPT !.out = {[Msg("CHOSEN", m.to, m.from, m.index, x.ins.proposed) EXCEPT
                !.promised = x.ins.promised, !.accepted = x.ins.accepted, !.value = x.ins.value]}]
      [] m.type = "CHOSEN" ->
            [x EXCEPT !.failed = Unless(m.value = x.ins.value, "inconsistent")]
      [] OTHER -> x

(* The case CHOSEN of stepNotChosen: the accepted value is the chosen one, *)
(* or the chosen value is accepted with a number above all others.         *)
learnChosen(x, m) ==
    LET hint == MaxOf(MaxOf(m.proposed, x.ins.promised), x.ins.proposed)
        num == NextNum(prop_num_compose(0, 100), hint)
    IN  IF x.ins.accepted # 0 /\ m.proposed = x.ins.accepted
        THEN markChosen([x EXCEPT !.failed = Unless(m.value = x.ins.value, "inconsistent")])
        ELSE markChosen([x EXCEPT
                !.ins = [SetAccepted(x.ins, num, m.value) EXCEPT !.proposed = num],
                !.write = TRUE])

(* produceRsp.                                                             *)
produceRsp(x, m) ==
    LET ins == x.ins
        reply == Msg(x.rsp, m.to, m.from, m.index, m.proposed)
        all(msg) == {[msg EXCEPT !.to = s] : s \in Servers \ {m.to}}
        own == Msg(x.rsp, m.to, 0, m.index, ins.proposed)
    IN  CASE x.rsp = "NOOP" -> {}
          [] x.rsp = "PROP_RSP" ->
                {[reply EXCEPT !.promised = ins.promised, !.accepted = ins.accepted,
                               !.value = ins.value]}
          [] x.rsp \in {"ACCPT_RSP", "FAST_ACCPT_RSP"} ->
                {[reply EXCEPT !.accepted = ins.accepted,
                               !.promised = IF ins.accepted = 0 THEN ins.promised ELSE 0]}
          [] x.rsp = "PROP" -> all(own)
          [] x.rsp \in {"ACCPT", "FAST_ACCPT"} -> all([own EXCEPT !.value = x.al.value])
          [] x.rsp = "CHOSEN" -> all([own EXCEPT !.value = ins.value])

(* The assertions of produceRsp on what a proposer sends.                  *)
RspFailed(x) ==
    Unless(x.rsp \in {"PROP", "ACCPT"} => get_prop_cnt(x.ins.proposed) > 0, "prop_cnt")
    \cup Unless(x.rsp \in {"ACCPT", "FAST_ACCPT"} =>
                    x.ins.proposed = x.al.num /\ x.ins.value = x.al.value, "proposing_value")

(* The step of stepNotChosen, by the type of the message.                  *)
HandleMsg(x, m) ==
    CASE m.type = "GET_CHOSEN" -> x
      [] m.type = "CHOSEN" -> learnChosen(x, m)
      [] m.type = "PROP" ->
            IF Promises(x.ins, m.proposed)
            THEN [x EXCEPT !.ins = SetPromised(x.ins, m.proposed),
                           !.write = TRUE, !.rsp = "PROP_RSP"]
            ELSE [x EXCEPT !.rsp = "PROP_RSP"]
      [] m.type \in {"ACCPT", "FAST_ACCPT"} ->
            LET fast == m.type = "FAST_ACCPT"
                rsp == IF fast THEN "FAST_ACCPT_RSP" ELSE "ACCPT_RSP"
            IN  IF Accepts(x.ins, m.proposed, fast)
                THEN [x EXCEPT !.ins = SetAccepted(x.ins, m.proposed, m.value),
                               !.write = TRUE, !.rsp = rsp]
                ELSE [x EXCEPT !.rsp = rsp]
      [] OTHER -> IF x.al = NoAlive THEN x ELSE AliveStep(x, m)

(* The response, and markChosen when it tells the others.                  *)
Respond(y, m) ==
    [(IF y.rsp = "CHOSEN" THEN markChosen(y) ELSE y) EXCEPT
        !.out = produceRsp(y, m), !.failed = y.failed \cup RspFailed(y)]

stepNotChosen(x, m) == Respond(HandleMsg(x, m), m)

(* PInsWrapper::Step.                                                      *)
InsStep(ins, al, m) ==
    IF ins.chosen THEN stepChosen(Begin(ins, al), m) ELSE stepNotChosen(Begin(ins, al), m)
=============================================================================
