----------------------------- MODULE EntryState -----------------------------
(***************************************************************************)
(* The EntryStateMachine of certain/src/entry_state.cc: what one acceptor  *)
(* knows about one entry.  A machine is a function from acceptors to entry *)
(* records (entry_records_); the record of the local acceptor is the one   *)
(* that is written to the plog and sent to the peers.                      *)
(*                                                                         *)
(* entry_state_ is recomputed by CalcEntryState after every change of the  *)
(* records, so it is an operator of the records here.                      *)
(***************************************************************************)
EXTENDS Integers, FiniteSets

CONSTANTS
    AcceptorNum,  \* acceptor_num_, the number of replicas
    Values,       \* the non-empty values that clients write
    NoValue       \* the empty string

ASSUME AcceptorNumAssumption == AcceptorNum \in Nat \ {0, 1}
ASSUME NoValueAssumption == NoValue \notin Values

Acceptors == 0 .. AcceptorNum - 1

(* A value with its uuids is one datum: the code copies them together. *)
Record == [prepared : Nat, promised : Nat, accepted : Nat, value_id : Nat,
           value : Values \cup {NoValue}, chosen : BOOLEAN, id_only : BOOLEAN]

EmptyRecord == [prepared |-> 0, promised |-> 0, accepted |-> 0, value_id |-> 0,
                value |-> NoValue, chosen |-> FALSE, id_only |-> FALSE]

Machine == [Acceptors -> Record]

NewMachine == [a \in Acceptors |-> EmptyRecord]

IsMajority(S) == Cardinality(S) >= AcceptorNum \div 2 + 1

-----------------------------------------------------------------------------
(* CalcEntryState: the side effect, marking the local record chosen ...    *)
AcceptedSame(i, recs) == {a \in Acceptors : recs[a].accepted = recs[i].accepted}
PromisedSame(i, recs) == {a \in Acceptors : recs[a].promised = recs[i].promised}

MarkChosen(i, recs) ==
    IF recs[i].accepted > 0 /\ IsMajority(AcceptedSame(i, recs))
    THEN [recs EXCEPT ![i] = [@ EXCEPT !.chosen = TRUE]]
    ELSE recs

(* ... and the state it computes.                                          *)
entry_state(i, recs) ==
    LET r == recs[i] IN
    CASE r.chosen -> "Chosen"
      [] ~r.chosen /\ r.promised > r.prepared ->
            IF r.accepted = r.promised THEN "AcceptRemote" ELSE "PromiseRemote"
      [] ~r.chosen /\ r.promised <= r.prepared ->
            IF r.promised = 0 THEN "Normal"
            ELSE IF r.accepted = r.promised THEN "AcceptLocal"
            ELSE IF IsMajority(PromisedSame(i, recs)) THEN "MajorityPromise"
            ELSE "PromiseLocal"

(* The assertions in CalcEntryState.                                       *)
CalcAsserts(r) ==
    \/ r.chosen
    \/ /\ r.prepared <= r.promised
       /\ r.accepted <= r.promised

IsLocalEmpty(i, recs) == entry_state(i, recs) = "Normal"

-----------------------------------------------------------------------------
IsRecordNewer(old, new) ==
    /\ ~old.chosen
    /\ \/ new.chosen
       \/ new.prepared > old.prepared
       \/ new.promised > old.promised
       \/ new.accepted > old.accepted

IsValidRecord(r) ==
    /\ r.prepared <= r.promised
    /\ r.accepted <= r.promised
    /\ (r.accepted = 0) <=> (r.value_id = 0)
    /\ r.id_only => r.value_id # 0 /\ r.value = NoValue
    /\ r.value_id = 0 => r.value = NoValue /\ ~r.chosen

(* A record received without its value gets it from any record of the      *)
(* machine with the same value id.                                         *)
RestoreValueInRecord(recs, r) ==
    LET holders == {a \in Acceptors : recs[a].value_id = r.value_id} IN
    IF holders # {}
    THEN LET first == CHOOSE a \in holders : \A b \in holders : a <= b
         IN [r EXCEPT !.id_only = FALSE, !.value = recs[first].value]
    ELSE [r EXCEPT !.id_only = FALSE, !.value = NoValue, !.chosen = FALSE]

(* How the local record follows the record of a peer: whether it takes     *)
(* over what the peer has accepted, and what becomes of it.                *)
Adopts_AnyProposal(local, promised, r) ==  \* mutant: the promise is ignored
    r.chosen \/ local.accepted < r.accepted

Adopts(local, promised, r) ==
    \/ r.chosen
    \/ promised <= r.accepted /\ local.accepted < r.accepted

FollowPeer(local, r) ==
    LET promised == IF local.promised < r.promised
                    THEN r.promised ELSE local.promised
        base     == [local EXCEPT !.promised = promised]
        moved    == [base EXCEPT !.accepted = r.accepted, !.chosen = r.chosen]
    IN IF ~Adopts(local, promised, r) THEN base
       ELSE IF local.value_id = r.value_id THEN moved
       ELSE [moved EXCEPT !.value_id = r.value_id, !.value = r.value]

UpdateAccepts(r) == ~r.id_only /\ IsValidRecord(r)

Update(i, peer, recs, r) ==
    IF ~UpdateAccepts(r) \/ ~IsRecordNewer(recs[peer], r) THEN recs
    ELSE LET seen == [recs EXCEPT ![peer] = r] IN
         IF peer = i THEN MarkChosen(i, seen)
         ELSE IF recs[i].chosen THEN seen
         ELSE MarkChosen(i, [seen EXCEPT ![i] = FollowPeer(@, r)])

-----------------------------------------------------------------------------
(* The next proposal number of acceptor i above promised number pn.        *)
NextProposal_Counter(i, pn, pre_auth) == pn + 1  \* mutant: the acceptor's id is left out

NextProposal(i, pn, pre_auth) ==
    LET b == ((pn + AcceptorNum - 1) \div AcceptorNum) * AcceptorNum + i + 1
    IN IF ~pre_auth /\ b <= AcceptorNum THEN b + AcceptorNum ELSE b

Promise(i, recs, pre_auth) ==
    LET b == NextProposal(i, recs[i].promised, pre_auth) IN
    MarkChosen(i, [recs EXCEPT ![i] = [@ EXCEPT !.prepared = b, !.promised = b]])

IsLocalAcceptable(i, recs) ==
    \/ entry_state(i, recs) = "MajorityPromise"
    \/ entry_state(i, recs) = "PromiseLocal" /\ recs[i].promised <= AcceptorNum

MaxAccepted(recs) ==
    CHOOSE n \in {recs[a].accepted : a \in Acceptors} :
        \A a \in Acceptors : recs[a].accepted <= n

(* The acceptor whose proposal Accept takes over: the first with the       *)
(* largest accepted number.                                                *)
Selected(recs) ==
    CHOOSE a \in Acceptors :
        /\ recs[a].accepted = MaxAccepted(recs)
        /\ \A b \in Acceptors : recs[b].accepted = MaxAccepted(recs) => a <= b

PreparedValueAccepted_Unchecked(recs) == TRUE  \* mutant: accepted values are ignored

PreparedValueAccepted(recs) == MaxAccepted(recs) = 0

Accept(i, recs, value, value_id) ==
    LET own  == PreparedValueAccepted(recs)
        from == recs[Selected(recs)]
    IN MarkChosen(i, [recs EXCEPT ![i] = [@ EXCEPT
            !.accepted = recs[i].promised,
            !.value    = IF own THEN value ELSE from.value,
            !.value_id = IF own THEN value_id ELSE from.value_id]])

(* The peer has promised / accepted the proposal the local acceptor made.  *)
HasPromisedMyProposal(i, recs, peer) ==
    /\ recs[i].promised = recs[peer].promised
    /\ recs[i].promised = recs[i].prepared

HasAcceptedMyProposal_AnyProposal(i, recs, peer) ==  \* mutant: whoever proposed
    recs[i].accepted = recs[peer].accepted

HasAcceptedMyProposal(i, recs, peer) ==
    /\ recs[i].accepted = recs[peer].accepted
    /\ recs[i].accepted = recs[i].prepared
=============================================================================
