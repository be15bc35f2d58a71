-------------------------- MODULE RecordMutations --------------------------
(****************************************************************************)
(* Idempotent record mutations of one collection.                           *)
(*                                                                          *)
(* A client sends a request under an idempotency key, and sends it again    *)
(* whenever it likes: after an error, an unknown COMMIT or no answer.  Each *)
(* attempt runs in a session's transaction: check the scope, reserve the    *)
(* receipt's identity, replay a receipt that is still current or write the  *)
(* record by compare-and-swap with its unique value, stamp the receipt,     *)
(* check that it is still current, and commit.                              *)
(*                                                                          *)
(* The database runs READ COMMITTED: a session's writes are private until   *)
(* its commit, and a statement that meets another session's uncommitted     *)
(* write of the same key or row waits for that session to end.              *)
(****************************************************************************)
EXTENDS Integers, FiniteSets

CONSTANTS
    Requests,     \* what clients send; see RequestType
    Identities,   \* receipt identities: space, credential, operation and idempotency key
    Values,       \* values of the collection's unique declaration
    NoValue,      \* a record that declares none
    MaxRecords,   \* bound: record ids ever created
    Sessions,     \* transactions that may run at once
    Budgets       \* collection_write_slots (8 in the code), and bounds; see Budget

Ids == 1 .. MaxRecords

(* A create names no record; the others name one and the revision they expect.
   Two requests of one identity with different payloads have different digests. *)
RequestType ==
    [op: {"create", "replace", "delete"}, id: Identities, digest: Nat,
     record: Ids \union {0}, expected: Nat, value: Values \union {NoValue}]

(* The slots of the collection, attempts of each request, faults of the
   environment, receipts that run out of their retention, and policy and
   lifecycle changes. *)
Budget == [slots: Nat \ {0}, attempt: [Requests -> Nat], fault: Nat, expiry: Nat, op: Nat]

MutationAssumption ==
    /\ Requests \subseteq RequestType
    /\ \A q \in Requests : /\ q.op = "create" <=> q.record = 0
                           /\ q.op = "create" => q.expected = 0
    /\ NoValue \notin Values
    /\ MaxRecords \in Nat /\ Budgets \subseteq Budget
ASSUME MutationAssumed == MutationAssumption

VARIABLES
    records,   \* records: revision (0 before it is created), tombstone, unique value
    holder,    \* record_unique_keys: the record that holds each value, or 0
    receipts,  \* idempotency_receipts, at most one per identity
    space,     \* the cell's spaces row
    session,   \* transactions in progress
    effects,   \* history: every committed record effect
    answers,   \* history: every receipt returned to a client
    budget     \* the slots, and what is left of each bound

vars == <<records, holder, receipts, space, session, effects, answers, budget>>

NoRecord  == [rev |-> 0, live |-> FALSE, value |-> NoValue]
NoReceipt == [digest |-> 0, record |-> 0, rev |-> 0, expired |-> TRUE]

(* A transaction: its request, the policy version its credential was checked
   against, the record and revision it writes or replays, the unique value it
   lets go, and whether its client still waits for the answer. *)
Idle == [pc |-> "idle"]
Busy(q, policy) ==
    [pc |-> "begun", req |-> q, policy |-> policy, record |-> 0, rev |-> 0, freed |-> NoValue,
     replay |-> FALSE, expired |-> FALSE, waiting |-> TRUE]

At(s, pcs)  == session[s].pc \in pcs
Others(s)   == Sessions \ {s}
Goto(s, t)  == session' = [session EXCEPT ![s] = t]
End(s)      == Goto(s, Idle)

(* From the first checkScope on a transaction share-locks the space; from its
   reservation on it owns its identity; and so on, until it ends. *)
InScopePcs    == {"scoped", "fresh", "slot", "record", "written", "stamped", "commit"}
ReservedPcs   == InScopePcs \ {"scoped"}
SlotPcs       == {"slot", "record", "written", "stamped", "commit"}
RowPcs        == {"record", "written", "stamped", "commit"}
ValuePcs      == {"written", "stamped", "commit"}

Writes(s, pcs) == At(s, pcs) /\ ~session[s].replay

(* No other transaction holds the reservation of this one's identity. *)
IdentityFree(s) ==
    \A t \in Others(s) : At(t, ReservedPcs) => session[t].req.id # session[s].req.id

SlotFree(s) == Cardinality({t \in Others(s) : Writes(t, SlotPcs)}) < budget.slots

(* No other transaction has updated this one's record and not ended. *)
RowFree(s) ==
    \A t \in Others(s) : Writes(t, RowPcs) => session[t].record # session[s].req.record

(* The value a transaction reserves, and the values whose reservation it has
   deleted or inserted. *)
Wanted(s) == IF session[s].req.op = "delete" THEN NoValue ELSE session[s].req.value

Touched(t) ==
    {v \in Values : \/ Writes(t, RowPcs) /\ v = session[t].freed
                    \/ Writes(t, ValuePcs) /\ v = Wanted(t)}

ValueFree(s) == \A t \in Others(s) : Wanted(s) \notin Touched(t)

(* Wrong: the check reads the space without locking it. *)
ScopeUnlocked == TRUE

ScopeFree == \A s \in Sessions : ~At(s, InScopePcs)

Spend(what) == budget[what] > 0 /\ budget' = [budget EXCEPT ![what] = @ - 1]

----------------------------------------------------------------------------
Init ==
    /\ records = [r \in Ids |-> NoRecord]
    /\ holder = [v \in Values |-> 0]
    /\ receipts = [i \in Identities |-> NoReceipt]
    /\ space = [lifecycle |-> "active", policy |-> 1]
    /\ session = [s \in Sessions |-> Idle]
    /\ effects = {} /\ answers = {}
    /\ budget \in Budgets

(* A client sends q, for the first time or again, under the policy version its
   credential has just been checked against. *)
Begin(s, q) ==
    /\ At(s, {"idle"})
    /\ budget.attempt[q] > 0
    /\ budget' = [budget EXCEPT !.attempt[q] = @ - 1]
    /\ Goto(s, Busy(q, space.policy))
    /\ UNCHANGED <<records, holder, receipts, space, effects, answers>>

InScope(s) ==
    /\ space.policy = session[s].policy
    /\ space.lifecycle \in {"active", "readOnly"}

CheckScope(s) ==
    /\ At(s, {"begun"})
    /\ InScope(s)
    /\ Goto(s, [session[s] EXCEPT !.pc = "scoped"])
    /\ UNCHANGED <<records, holder, receipts, space, effects, answers, budget>>

(* The identity's receipt, if any, is past its retention. *)
Expired(i) == receipts[i].expired

Current(i) == receipts[i] # NoReceipt /\ ~Expired(i)

(* Wrong: a key used again with another payload replays the first one. *)
AnyRequest(q) == TRUE

SameRequest(q) == receipts[q.id].digest = q.digest

(* Reserve the identity and find its receipt current: a replay. *)
Replay(s) ==
    LET q == session[s].req IN
    /\ At(s, {"scoped"}) /\ IdentityFree(s)
    /\ Current(q.id) /\ SameRequest(q)
    /\ Goto(s, [session[s] EXCEPT !.pc = "stamped", !.replay = TRUE,
                                  !.record = receipts[q.id].record, !.rev = receipts[q.id].rev])
    /\ UNCHANGED <<records, holder, receipts, space, effects, answers, budget>>

(* Wrong: a space that answers reads takes effects too. *)
WritableReadOnly == space.lifecycle # "suspended"

Writable == space.lifecycle = "active"

(* Reserve the identity and find no current receipt: a fresh effect, for which
   the space must be active.  An expired receipt goes when this commits. *)
Fresh(s) ==
    /\ At(s, {"scoped"}) /\ IdentityFree(s)
    /\ ~Current(session[s].req.id)
    /\ Writable
    /\ Goto(s, [session[s] EXCEPT !.pc = "fresh"])
    /\ UNCHANGED <<records, holder, receipts, space, effects, answers, budget>>

TakeSlot(s) ==
    /\ At(s, {"fresh"}) /\ SlotFree(s)
    /\ Goto(s, [session[s] EXCEPT !.pc = "slot"])
    /\ UNCHANGED <<records, holder, receipts, space, effects, answers, budget>>

FirstRevision == 1

(* A new record id, never used before. *)
UsedIds == {r \in Ids : records[r].rev > 0}
           \union {session[t].record : t \in {t \in Sessions : Writes(t, RowPcs)}}

CreateRecord(s) ==
    /\ At(s, {"slot"}) /\ session[s].req.op = "create"
    /\ \E r \in Ids \ UsedIds :
         /\ \A p \in Ids \ UsedIds : r <= p
         /\ Goto(s, [session[s] EXCEPT !.pc = "record", !.record = r, !.rev = FirstRevision])
    /\ UNCHANGED <<records, holder, receipts, space, effects, answers, budget>>

(* The row the compare-and-swap updates: live, at the expected revision. *)
Matches(q) == records[q.record].live /\ records[q.record].rev = q.expected

(* Lock the record and advance it.  A replace deletes its unique value; a
   delete keeps it, so that the tombstone goes on reserving it. *)
UpdateRecord(s) ==
    LET q == session[s].req IN
    /\ At(s, {"slot"}) /\ q.op # "create"
    /\ RowFree(s) /\ Matches(q)
    /\ Goto(s, [session[s] EXCEPT !.pc = "record", !.record = q.record,
                                  !.rev = records[q.record].rev + 1,
                                  !.freed = IF q.op = "replace" THEN records[q.record].value
                                            ELSE NoValue])
    /\ UNCHANGED <<records, holder, receipts, space, effects, answers, budget>>

(* The value this transaction wants has no holder but itself. *)
Reservable(s) ==
    \A v \in Values : v = Wanted(s) =>
        holder[v] = 0 \/ (v = session[s].freed /\ holder[v] = session[s].record)

ReserveValue(s) ==
    /\ At(s, {"record"})
    /\ ValueFree(s) /\ Reservable(s)
    /\ Goto(s, [session[s] EXCEPT !.pc = "written"])
    /\ UNCHANGED <<records, holder, receipts, space, effects, answers, budget>>

(* The unique key of idempotency_receipts, a second fence behind the
   reservation: it waits for another receipt of the identity to commit or not,
   and conflicts with one that did. *)
ReceiptFree(s) ==
    \A t \in Others(s) : Writes(t, {"stamped", "commit"}) => session[t].req.id # session[s].req.id

(* finalizeReceipts: the retention starts now, by the database's clock. *)
Stamp(s) ==
    /\ At(s, {"written"})
    /\ ReceiptFree(s) /\ ~Current(session[s].req.id)
    /\ Goto(s, [session[s] EXCEPT !.pc = "stamped"])
    /\ UNCHANGED <<records, holder, receipts, space, effects, answers, budget>>

(* The receipt stamped or replayed is still current. *)
ReceiptCurrent(s) ==
    IF session[s].replay THEN ~receipts[session[s].req.id].expired ELSE ~session[s].expired

(* ensureReceiptsCurrent, the last statement before COMMIT is sent. *)
SendCommit(s) ==
    /\ At(s, {"stamped"})
    /\ ReceiptCurrent(s)
    /\ Goto(s, [session[s] EXCEPT !.pc = "commit"])
    /\ UNCHANGED <<records, holder, receipts, space, effects, answers, budget>>

(* Wrong: a delete gives its unique value up. *)
HolderAfterReleasing(s) ==
    [v \in Values |->
        IF v = Wanted(s) THEN session[s].record
        ELSE IF holder[v] = session[s].record THEN 0
        ELSE holder[v]]

(* record_unique_keys once the transaction has committed. *)
HolderAfter(s) ==
    [v \in Values |->
        IF v = Wanted(s) THEN session[s].record
        ELSE IF v = session[s].freed THEN 0
        ELSE holder[v]]

(* The commit lands: all of the transaction's writes at once, and the answer,
   if the client still waits. *)
CommitLands(s) ==
    LET t == session[s]
        q == t.req
    IN
    /\ At(s, {"commit"})
    /\ IF t.replay
       THEN UNCHANGED <<records, holder, receipts, effects>>
       ELSE /\ records' = [records EXCEPT ![t.record] =
                             [rev |-> t.rev, live |-> q.op # "delete",
                              value |-> IF q.op = "delete" THEN @.value ELSE q.value]]
            /\ holder' = HolderAfter(s)
            /\ receipts' = [receipts EXCEPT ![q.id] =
                              [digest |-> q.digest, record |-> t.record, rev |-> t.rev,
                               expired |-> t.expired]]
            /\ effects' = effects \union {[req |-> q, record |-> t.record, rev |-> t.rev,
                                           policy |-> t.policy]}
    /\ answers' = IF t.waiting
                  THEN answers \union {[req |-> q, record |-> t.record, rev |-> t.rev]}
                  ELSE answers
    /\ End(s)
    /\ UNCHANGED <<space, budget>>
(* The deadline passes before COMMIT is acknowledged: the client is told that
   the outcome is unknown, while the commit may still land. *)
AckTimeout(s) ==
    /\ At(s, {"commit"}) /\ session[s].waiting
    /\ Spend("fault")
    /\ Goto(s, [session[s] EXCEPT !.waiting = FALSE])
    /\ UNCHANGED <<records, holder, receipts, space, effects, answers>>

(* A crash, a lost connection or a deadline: nothing is committed, not even if
   COMMIT had been sent. *)
Abort(s) ==
    /\ ~At(s, {"idle"})
    /\ Spend("fault")
    /\ End(s)
    /\ UNCHANGED <<records, holder, receipts, space, effects, answers>>

(* What a statement waits for another transaction to end before it decides. *)
Waiting(s) ==
    \/ At(s, {"scoped"}) /\ ~IdentityFree(s)
    \/ At(s, {"slot"}) /\ session[s].req.op # "create" /\ ~RowFree(s)
    \/ At(s, {"record"}) /\ ~ValueFree(s)
    \/ At(s, {"written"}) /\ ~ReceiptFree(s)

(* What it refuses when it need not wait. *)
Denied(s) ==
    LET q == session[s].req IN
    \/ At(s, {"begun"}) /\ ~InScope(s)
    \/ At(s, {"scoped"}) /\ Current(q.id) /\ ~SameRequest(q)
    \/ At(s, {"scoped"}) /\ ~Current(q.id) /\ ~Writable
    \/ At(s, {"fresh"}) /\ ~SlotFree(s)
    \/ At(s, {"slot"}) /\ q.op # "create" /\ ~Matches(q)
    \/ At(s, {"record"}) /\ ~Reservable(s)
    \/ At(s, {"written"}) /\ Current(q.id)
    \/ At(s, {"stamped"}) /\ ~ReceiptCurrent(s)

(* An error answers the client: a refusal, or a wait past its time limit. *)
Refuse(s) ==
    /\ Waiting(s) \/ Denied(s)
    /\ End(s)
    /\ UNCHANGED <<records, holder, receipts, space, effects, answers, budget>>

(* Two replaces each want a value the other has let go: the database rolls
   one back, and mutate runs it again under the same scope. *)
WaitsForValue(s, t) == At(s, {"record"}) /\ At(t, RowPcs) /\ Wanted(s) \in Touched(t)

Deadlock(s) ==
    /\ \E t \in Others(s) : WaitsForValue(s, t) /\ WaitsForValue(t, s)
    /\ budget.attempt[session[s].req] > 0
    /\ budget' = [budget EXCEPT !.attempt[session[s].req] = @ - 1]
    /\ Goto(s, Busy(session[s].req, session[s].policy))
    /\ UNCHANGED <<records, holder, receipts, space, effects, answers>>

(* Time passes the retention of a committed receipt, or of one stamped by a
   transaction that has not ended. *)
ExpireReceipt(i) ==
    /\ receipts[i] # NoReceipt /\ ~receipts[i].expired
    /\ Spend("expiry")
    /\ receipts' = [receipts EXCEPT ![i].expired = TRUE]
    /\ UNCHANGED <<records, holder, space, session, effects, answers>>

ExpireStamped(s) ==
    /\ Writes(s, {"stamped", "commit"}) /\ ~session[s].expired
    /\ Spend("expiry")
    /\ Goto(s, [session[s] EXCEPT !.expired = TRUE])
    /\ UNCHANGED <<records, holder, receipts, space, effects, answers>>

(* A revocation, or archive, restore or suspend: each takes the space's row
   lock and advances its policy version. *)
ChangePolicy(l) ==
    /\ Spend("op")
    /\ ScopeFree
    /\ space' = [lifecycle |-> l, policy |-> space.policy + 1]
    /\ UNCHANGED <<records, holder, receipts, session, effects, answers>>

----------------------------------------------------------------------------
SessionNext(s) ==
    \/ \E q \in Requests : Begin(s, q)
    \/ CheckScope(s) \/ Replay(s) \/ Fresh(s) \/ TakeSlot(s)
    \/ CreateRecord(s) \/ UpdateRecord(s) \/ ReserveValue(s)
    \/ Stamp(s) \/ SendCommit(s) \/ CommitLands(s)
    \/ Refuse(s) \/ Deadlock(s) \/ AckTimeout(s) \/ Abort(s) \/ ExpireStamped(s)

Next ==
    \/ \E s \in Sessions : SessionNext(s)
    \/ \E i \in Identities : ExpireReceipt(i)
    \/ \E l \in {"active", "readOnly", "suspended"} : ChangePolicy(l)

Spec == Init /\ [][Next]_vars

----------------------------------------------------------------------------
(* Properties *)

Committed == [req: Requests, record: Ids, rev: Nat \ {0}, policy: Nat]
Answer    == [req: Requests, record: Ids, rev: Nat \ {0}]
Transaction ==
    [pc: {"begun"} \union InScopePcs, req: Requests, policy: Nat, record: Ids \union {0}, rev: Nat,
     freed: Values \union {NoValue}, replay: BOOLEAN, expired: BOOLEAN, waiting: BOOLEAN]

(* Every variable holds what its table or object can hold. *)
TypeOK ==
    /\ records \in [Ids -> [rev: Nat, live: BOOLEAN, value: Values \union {NoValue}]]
    /\ holder \in [Values -> Ids \union {0}]
    /\ receipts \in [Identities -> [digest: Nat, record: Ids \union {0}, rev: Nat, expired: BOOLEAN]]
    /\ space \in [lifecycle: {"active", "readOnly", "suspended"}, policy: Nat]
    /\ session \in [Sessions -> {Idle} \union Transaction]
    /\ effects \subseteq Committed
    /\ answers \subseteq Answer
    /\ budget \in Budget

(* A request takes effect at most once while its receipt is current, however
   often it is sent, at whatever moment, and whatever became of each COMMIT. *)
OneEffectPerReceipt ==
    \A e \in effects' \ effects : receipts[e.req.id].expired

(* Every answer is true and durable: it names a committed effect of the same
   identity and the same payload. *)
AnswersAreEffects ==
    \A a \in answers : \E e \in effects :
        /\ e.req.id = a.req.id /\ e.req.digest = a.req.digest
        /\ e.record = a.record /\ e.rev = a.rev

(* No lost update: each revision of a record is the effect of one request, the
   one that expected the revision before it. *)
RevisionsChain ==
    /\ \A e \in effects : e.rev = e.req.expected + 1
    /\ \A e, f \in effects : e.record = f.record /\ e.rev = f.rev => e = f
    /\ \A r \in Ids : {e.rev : e \in {f \in effects : f.record = r}} = 1 .. records[r].rev

(* A unique value belongs to one record for as long as the record has it, even
   as a tombstone, and is free again when a live record lets it go. *)
ValuesHeld ==
    /\ \A r \in Ids : records[r].value # NoValue => holder[records[r].value] = r
    /\ \A v \in Values : holder[v] # 0 => records[holder[v]].value = v

(* No effect outlives its authority: a policy change or suspension that
   commits before an effect's COMMIT denies it, and a later one waits. *)
EffectsInScope ==
    \A e \in effects' \ effects :
         e.policy = space.policy /\ space.lifecycle = "active"

(* An identity answers with the effect of its own payload, first or replayed,
   whatever attempts, lost acknowledgements and expiries came between. *)
ReceiptsHold == TypeOK /\ AnswersAreEffects

(* A record's revisions are one chain of commits, and a unique value has one
   record that reserves it. *)
ChainsHold == RevisionsChain /\ ValuesHeld

(* No step commits twice under one receipt or outside its scope. *)
EffectsHold == [][OneEffectPerReceipt /\ EffectsInScope]_vars

(* A mutation of several statements, under READ COMMITTED, takes effect in one
   step, its COMMIT: the revision it expects, the value it wants, its receipt and
   its scope are then as its statements found them. *)
Ledger == INSTANCE RecordLedger

ImplementsLedger == Ledger!Spec
=============================================================================
