---------------------------- MODULE RecordLedger ----------------------------
(***************************************************************************)
(* What record mutations promise their clients: a request takes effect in  *)
(* one step, against the records as they are in that step, or is answered  *)
(* with the effect its receipt tells.  No transaction, lock, retry or lost *)
(* answer can be seen in it.                                               *)
(***************************************************************************)
EXTENDS Naturals

CONSTANTS Requests, Identities, Values, NoValue, MaxRecords

VARIABLES records,  \* each record's revision, tombstone and unique value
          receipts, \* what each identity's last request did, and if it has run out
          space,    \* the space's lifecycle and policy version
          answers   \* what clients were told

vars == <<records, receipts, space, answers>>

Ids == 1 .. MaxRecords

Init ==
    /\ records = [r \in Ids |-> [rev |-> 0, live |-> FALSE, value |-> NoValue]]
    /\ receipts = [i \in Identities |-> [digest |-> 0, record |-> 0, rev |-> 0, expired |-> TRUE]]
    /\ space = [lifecycle |-> "active", policy |-> 1]
    /\ answers = {}

(* The record q is for: a new one, or the live one at the revision it expects. *)
Target(q, r) ==
    IF q.op = "create" THEN records[r].rev = 0
    ELSE r = q.record /\ records[r].live /\ records[r].rev = q.expected

(* A tombstone goes on reserving its value. *)
ValueUnheld(q, r) ==
    q.op # "delete" /\ q.value # NoValue => \A p \in Ids \ {r} : records[p].value # q.value

(* Its receipt may have run out by the time it is there to be read. *)
Apply(q, r) ==
    /\ space.lifecycle = "active"
    /\ receipts[q.id].expired
    /\ Target(q, r) /\ ValueUnheld(q, r)
    /\ records' = [records EXCEPT ![r] =
                     [rev |-> @.rev + 1, live |-> q.op # "delete",
                      value |-> IF q.op = "delete" THEN @.value ELSE q.value]]
    /\ \E e \in BOOLEAN :
         receipts' = [receipts EXCEPT ![q.id] =
                        [digest |-> q.digest, record |-> r, rev |-> records'[r].rev, expired |-> e]]
    /\ \/ answers' = answers \union {[req |-> q, record |-> r, rev |-> records'[r].rev]}
       \/ UNCHANGED answers
    /\ UNCHANGED space

Replay(q) ==
    /\ space.lifecycle \in {"active", "readOnly"}
    /\ receipts[q.id].digest = q.digest /\ receipts[q.id].rev > 0
    /\ answers' = answers \union {[req |-> q, record |-> receipts[q.id].record, rev |-> receipts[q.id].rev]}
    /\ UNCHANGED <<records, receipts, space>>

RunOut(i) ==
    /\ ~receipts[i].expired
    /\ receipts' = [receipts EXCEPT ![i].expired = TRUE]
    /\ UNCHANGED <<records, space, answers>>

ChangePolicy(l) ==
    /\ space' = [lifecycle |-> l, policy |-> space.policy + 1]
    /\ UNCHANGED <<records, receipts, answers>>

Next ==
    \/ \E q \in Requests : Replay(q) \/ \E r \in Ids : Apply(q, r)
    \/ \E i \in Identities : RunOut(i)
    \/ \E l \in {"active", "readOnly", "suspended"} : ChangePolicy(l)

Spec == Init /\ [][Next]_vars
=============================================================================
