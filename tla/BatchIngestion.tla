-------------------------- MODULE BatchIngestion --------------------------
(***************************************************************************)
(* One batch operation: its durable manifest, its items and its callers.   *)
(*                                                                         *)
(* A call commits the manifest, then settles each eligible item in a       *)
(* transaction of its own, which locks the batch and the item and writes   *)
(* the record, its receipt and the item's success together.  A confirmed   *)
(* failure rolls that transaction back and is recorded by another one,     *)
(* which takes no lock on the batch.  Callers race, lose acknowledgements, *)
(* run out of time and call again; anyone may cancel.                      *)
(***************************************************************************)
EXTENDS Naturals, Sequences

CONSTANTS
    Ordinals,   \* the items of a manifest
    Manifests,  \* the manifests sent under the operation key
    Callers,    \* concurrent callers of ingestBatch
    None,       \* no holder, no manifest, no item
    MaxCalls,   \* bound: calls of each caller
    MaxFaults   \* bound: lost acknowledgements, timeouts and rollbacks

BatchRow == "batch"

BatchAssumption ==
    /\ None \notin Callers \union Manifests \union Ordinals
    /\ BatchRow \notin Ordinals
    /\ MaxCalls \in Nat /\ MaxFaults \in Nat

VARIABLES
    batch,     \* the batch_operations row
    item,      \* the batch_items rows
    receipt,   \* the idempotency receipt under each item's derived key
    effects,   \* the record mutations committed for each item, by manifest
    holder,    \* who holds the batch row and each item row
    caller,    \* each caller's call in progress
    calls,     \* calls made so far (bound)
    faults     \* faults spent so far (bound)

vars == <<batch, item, receipt, effects, holder, caller, calls, faults>>

NoItem == [state |-> "none", text |-> None]

Pcs == {"idle", "start", "between", "writing", "failing", "recording",
        "writingFailure", "unrecorded", "answered", "cancelled", "threw"}

Call == [pc: Pcs,
         manifest: Manifests \union {None}, retryFailed: BOOLEAN, eligible: SUBSET Ordinals,
         ordinal: Ordinals \union {None}, seen: {"active", "cancelled"}]

NoCall == [pc |-> "idle", manifest |-> None, retryFailed |-> FALSE, eligible |-> {},
           ordinal |-> None, seen |-> "active"]

Init ==
    /\ batch = [state |-> "none", manifest |-> None]
    /\ item = [o \in Ordinals |-> NoItem]
    /\ receipt = [o \in Ordinals |-> "none"]
    /\ effects = [o \in Ordinals |-> <<>>]
    /\ holder = [r \in Ordinals \union {BatchRow} |-> None]
    /\ caller = [c \in Callers |-> NoCall]
    /\ calls = [c \in Callers |-> 0]
    /\ faults = 0

Fault == faults < MaxFaults /\ faults' = faults + 1

Free(r) == holder[r] = None

Goto(c, pc) == caller' = [caller EXCEPT ![c].pc = pc]

Holding(c, rows) == holder' = [r \in DOMAIN holder |-> IF r \in rows THEN c ELSE holder[r]]

Releasing(c) == holder' = [r \in DOMAIN holder |-> IF holder[r] = c THEN None ELSE holder[r]]

----------------------------------------------------------------------------
(* The manifest *)

(* A call, or another try after one that threw or left failed items. *)
Begin(c) ==
    /\ caller[c].pc \in {"idle", "threw", "answered", "cancelled"}
    /\ calls[c] < MaxCalls
    /\ calls' = [calls EXCEPT ![c] = @ + 1]
    /\ \E m \in Manifests : \E retry \in BOOLEAN :
         caller' = [caller EXCEPT ![c].pc = "start", ![c].manifest = m, ![c].retryFailed = retry]
    /\ UNCHANGED <<batch, item, receipt, effects, holder, faults>>

(* Wrong: a retry selects the failed items only. *)
EligibleFailed(c) ==
    {o \in Ordinals : item[o].state = IF caller[c].retryFailed THEN "failed" ELSE "pending"}

(* Items the call will process, the ones it inserts included. *)
Eligible(c) ==
    {o \in Ordinals : \/ item[o].state \in {"none", "pending"}
                      \/ caller[c].retryFailed /\ item[o].state = "failed"}

(* The manifest the operation key is bound to. *)
SameManifest(c) == batch.manifest = caller[c].manifest

(* What startBatch commits under the batch row's lock. *)
StartEffect(c) ==
    /\ Free(BatchRow)
    /\ batch.state # "cancelled"
    /\ batch.state = "active" => SameManifest(c)
    /\ batch' = [state |-> "active", manifest |-> caller[c].manifest]
    /\ item' = [o \in Ordinals |-> IF item[o].state = "none"
                                   THEN [state |-> "pending", text |-> caller[c].manifest]
                                   ELSE item[o]]

Start(c) ==
    /\ caller[c].pc = "start"
    /\ StartEffect(c)
    /\ caller' = [caller EXCEPT ![c].pc = "between", ![c].eligible = Eligible(c)]
    /\ UNCHANGED <<receipt, effects, holder, calls, faults>>

(* The manifest commits, its acknowledgement is lost. *)
StartUnknown(c) ==
    /\ caller[c].pc = "start"
    /\ Fault
    /\ StartEffect(c)
    /\ Goto(c, "threw")
    /\ UNCHANGED <<receipt, effects, holder, calls>>

(* BATCH_CONFLICT or BATCH_CANCELLED: the caller gives up. *)
StartRefused(c) ==
    /\ caller[c].pc = "start" /\ Free(BatchRow)
    /\ batch.state # "none"
    /\ batch.state = "active" => ~SameManifest(c)
    /\ Goto(c, "cancelled")
    /\ UNCHANGED <<batch, item, receipt, effects, holder, calls, faults>>

----------------------------------------------------------------------------
(* One item *)

(* What the locked item row says. *)
Settled(c, o) ==
    \/ item[o].state = "succeeded"
    \/ item[o].state = "failed" /\ ~caller[c].retryFailed

(* The rows an item's transaction locks, from its reads to its end. *)
LockedRows(c, o) == {BatchRow, o}

CanLock(c, o) == Free(BatchRow) /\ Free(o)

(* Ordinals are taken in any order: the code's is theirs. *)
Lock(c, o) ==
    /\ caller[c].pc = "between" /\ o \in caller[c].eligible
    /\ CanLock(c, o)
    /\ batch.state = "active"
    /\ IF Settled(c, o)
       THEN /\ caller' = [caller EXCEPT ![c].eligible = @ \ {o}]
            /\ UNCHANGED holder
       ELSE /\ caller' = [caller EXCEPT ![c].pc = "writing", ![c].ordinal = o]
            /\ Holding(c, LockedRows(c, o))
    /\ UNCHANGED <<batch, item, receipt, effects, calls, faults>>

StopCancelled(c, o) ==
    /\ caller[c].pc = "between" /\ o \in caller[c].eligible
    /\ CanLock(c, o)
    /\ batch.state = "cancelled"
    /\ Goto(c, "cancelled")
    /\ UNCHANGED <<batch, item, receipt, effects, holder, calls, faults>>

(* The record, its receipt and the item commit together.  A receipt that is
   still current is replayed without another effect. *)
Succeed(c, o) ==
    /\ caller[c].pc = "writing" /\ o = caller[c].ordinal
    /\ item' = [item EXCEPT ![o].state = "succeeded"]
    /\ effects' = [effects EXCEPT ![o] = IF receipt[o] = "current" THEN @ ELSE Append(@, item[o].text)]
    /\ receipt' = [receipt EXCEPT ![o] = "current"]
    /\ Releasing(c)

ProcessItem(c, o) ==
    /\ Succeed(c, o)
    /\ caller' = [caller EXCEPT ![c].pc = "between", ![c].eligible = @ \ {o}]
    /\ UNCHANGED <<batch, calls, faults>>

ProcessUnknown(c, o) ==
    /\ Fault
    /\ Succeed(c, o)
    /\ Goto(c, "threw")
    /\ UNCHANGED <<batch, calls>>

(* A confirmed failure rolls the item's transaction back. *)
ItemFails(c) ==
    /\ caller[c].pc = "writing"
    /\ Goto(c, "failing")
    /\ Releasing(c)
    /\ UNCHANGED <<batch, item, receipt, effects, calls, faults>>

----------------------------------------------------------------------------
(* A failure's record *)

(* The statement's snapshot is taken; it may then wait for the item row. *)
FailSnapshot(c) ==
    /\ caller[c].pc = "failing"
    /\ caller' = [caller EXCEPT ![c].pc = "recording", ![c].seen = batch.state]
    /\ UNCHANGED <<batch, item, receipt, effects, holder, calls, faults>>

(* The row's own state is read again after the wait, the batch's is not. *)
Recordable(c, o) == caller[c].seen = "active" /\ item[o].state # "succeeded"

FailUpdate(c, o) ==
    /\ caller[c].pc = "recording" /\ o = caller[c].ordinal
    /\ Free(o)
    /\ IF Recordable(c, o)
       THEN Goto(c, "writingFailure") /\ Holding(c, {o})
       ELSE Goto(c, "unrecorded") /\ UNCHANGED holder
    /\ UNCHANGED <<batch, item, receipt, effects, calls, faults>>

Fail(c, o) ==
    /\ caller[c].pc = "writingFailure" /\ o = caller[c].ordinal
    /\ item' = [item EXCEPT ![o].state = "failed"]
    /\ Releasing(c)

FailItem(c, o) ==
    /\ Fail(c, o)
    /\ caller' = [caller EXCEPT ![c].pc = "between", ![c].eligible = @ \ {o}]
    /\ UNCHANGED <<batch, receipt, effects, calls, faults>>

FailUnknown(c, o) ==
    /\ Fault
    /\ Fail(c, o)
    /\ Goto(c, "threw")
    /\ UNCHANGED <<batch, receipt, effects, calls>>

(* No row was updated: a second statement finds out why. *)
Verdict(o) ==
    IF batch.state = "cancelled" THEN "cancelled"
    ELSE IF item[o].state = "succeeded" THEN "between"
    ELSE "threw"

Unrecorded(c, o) ==
    /\ caller[c].pc = "unrecorded" /\ o = caller[c].ordinal
    /\ caller' = [caller EXCEPT ![c].pc = Verdict(o), ![c].eligible = @ \ {o}]
    /\ UNCHANGED <<batch, item, receipt, effects, holder, calls, faults>>

----------------------------------------------------------------------------
(* The end of a call, cancellation and time *)

Answer(c) ==
    /\ caller[c].pc = "between" /\ caller[c].eligible = {}
    /\ Goto(c, "answered")
    /\ UNCHANGED <<batch, item, receipt, effects, holder, calls, faults>>

(* A deadline, a lock timeout, a rollback or a crash ends the call. *)
Throw(c) ==
    /\ caller[c].pc \notin {"idle", "answered", "cancelled", "threw"}
    /\ Fault
    /\ Goto(c, "threw")
    /\ Releasing(c)
    /\ UNCHANGED <<batch, item, receipt, effects, calls>>

(* cancelBatch updates the batch row, which serializes it with the items. *)
Cancel ==
    /\ batch.state = "active" /\ Free(BatchRow)
    /\ batch' = [batch EXCEPT !.state = "cancelled"]
    /\ UNCHANGED <<item, receipt, effects, holder, caller, calls, faults>>

ExpireReceipt(o) ==
    /\ receipt[o] = "current"
    /\ receipt' = [receipt EXCEPT ![o] = "expired"]
    /\ UNCHANGED <<batch, item, effects, holder, caller, calls, faults>>

----------------------------------------------------------------------------
CallNext(c) ==
    \/ Start(c) \/ StartRefused(c) \/ ItemFails(c) \/ FailSnapshot(c) \/ Answer(c)
    \/ \E o \in Ordinals :
         \/ Lock(c, o) \/ StopCancelled(c, o) \/ ProcessItem(c, o)
         \/ FailUpdate(c, o) \/ FailItem(c, o) \/ Unrecorded(c, o)

FaultNext(c) ==
    \/ StartUnknown(c) \/ Throw(c)
    \/ \E o \in Ordinals : ProcessUnknown(c, o) \/ FailUnknown(c, o)

Next ==
    \/ \E c \in Callers : Begin(c) \/ CallNext(c) \/ FaultNext(c)
    \/ Cancel
    \/ \E o \in Ordinals : ExpireReceipt(o)

Spec == Init /\ [][Next]_vars

----------------------------------------------------------------------------
(* Properties *)

(* Every variable holds what its row or object can hold. *)
Typed ==
    /\ batch \in [state: {"none", "active", "cancelled"}, manifest: Manifests \union {None}]
    /\ item \in [Ordinals -> [state: {"none", "pending", "failed", "succeeded"},
                              text: Manifests \union {None}]]
    /\ receipt \in [Ordinals -> {"none", "current", "expired"}]
    /\ effects \in [Ordinals -> Seq(Manifests)]
    /\ caller \in [Callers -> Call]
    /\ holder \in [Ordinals \union {BatchRow} -> Callers \union {None}]
    /\ calls \in [Callers -> 0 .. MaxCalls] /\ faults \in 0 .. MaxFaults

(* So it does, and a locked row is held by a transaction that is running. *)
TypeOK ==
    /\ Typed
    /\ \A r \in DOMAIN holder : holder[r] # None =>
         caller[holder[r]].pc \in {"writing", "writingFailure"}

(* An item is reported succeeded exactly when its one record mutation committed,
   from the manifest the key is bound to: whatever raced, threw, was retried
   after its receipt expired, or failed elsewhere at the same time. *)
ItemsTellEffects ==
    \A o \in Ordinals :
        effects[o] = IF item[o].state = "succeeded" THEN <<batch.manifest>> ELSE <<>>

(* Once a cancellation has committed, no item takes effect any more. *)
CancelStopsEffects == batch.state = "cancelled" => UNCHANGED effects

(* A call that answers a batch that was not cancelled leaves no item pending. *)
AnsweredMeansSettled ==
    \A c \in Callers : caller[c].pc = "answered" =>
        \A o \in Ordinals : item[o].state \in {"failed", "succeeded"}

(* The inductive invariant: the rows of a batch agree, what a transaction has
   locked stays as it found it, and what a call has passed is settled. *)

(* A batch that has begun has its items, from the manifest its key is bound to. *)
ItemsFollowBatch ==
    IF batch.state = "none"
    THEN \A o \in Ordinals : item[o].state = "none"
    ELSE /\ batch.manifest \in Manifests
         /\ \A o \in Ordinals : item[o].state # "none" /\ item[o].text = batch.manifest

(* A receipt is written with its item's success only. *)
ReceiptsFollowItems == \A o \in Ordinals : receipt[o] # "none" => item[o].state = "succeeded"

(* The rows of each transaction that runs, and nobody else's. *)
RowsHeld ==
    \A c \in Callers, r \in Ordinals \union {BatchRow} :
        holder[r] = c <=> \/ caller[c].pc = "writing" /\ r \in {BatchRow, caller[c].ordinal}
                          \/ caller[c].pc = "writingFailure" /\ r = caller[c].ordinal

AtItem == {"writing", "failing", "recording", "writingFailure", "unrecorded"}

(* A transaction writes an item that has not succeeded, of a batch that is active
   as long as it holds its row. *)
WritersMay ==
    \A c \in Callers :
        /\ caller[c].pc = "start" => caller[c].manifest \in Manifests
        /\ caller[c].pc \in AtItem => caller[c].ordinal \in Ordinals
        /\ caller[c].pc = "writing" => batch.state = "active"
        /\ caller[c].pc \in {"writing", "writingFailure"} => item[caller[c].ordinal].state # "succeeded"

(* A call that goes through its batch has settled what is not left to it. *)
PassedIsSettled ==
    \A c \in Callers : caller[c].pc \in {"between", "answered"} \union AtItem =>
        /\ batch.state # "none"
        /\ \A o \in Ordinals \ caller[c].eligible : item[o].state \in {"failed", "succeeded"}
        /\ caller[c].pc = "answered" => caller[c].eligible = {}

Inv ==
    /\ Typed /\ ItemsFollowBatch /\ ReceiptsFollowItems /\ ItemsTellEffects
    /\ RowsHeld /\ WritersMay /\ PassedIsSettled

(* A batch whose callers call again after a fault settles every item or is
   cancelled. *)
Settles ==
    batch.state = "active" => \A o \in Ordinals : item[o].state \in {"failed", "succeeded"}
=============================================================================
