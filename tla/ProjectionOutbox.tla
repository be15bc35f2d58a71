-------------------------- MODULE ProjectionOutbox --------------------------
(***************************************************************************)
(* The durable projection outbox of one space and one collection.          *)
(*                                                                         *)
(* Every record write commits a row of projection_outbox.  Dispatchers     *)
(* lease due rows and send hints through an at-least-once queue; workers   *)
(* start a lease, prepare outside SQL, and complete in one transaction     *)
(* that moves the record's projection head; operators retry dead letters   *)
(* and run reconciliations; a placement fence makes every delivered        *)
(* projection stale and schedules its repair in the same transaction.      *)
(*                                                                         *)
(* A transaction is one action unless another transaction can commit       *)
(* between two of its statements and be seen by the later one: completion  *)
(* (lock and read, then write and commit) and a reconciliation step (lock  *)
(* and read scope, then page) are two.  Row locks held between the two are *)
(* the pc "locked" of a worker and job.locked.                             *)
(***************************************************************************)
EXTENDS Integers, FiniteSets

CONSTANTS
    NumRecords,    \* records of the collection; their ids are their keyset order
    MaxRevision,   \* bound: revisions a record reaches
    MaxPlacement,  \* bound: placement generations
    MaxFailures,   \* MAX_PROJECTION_FAILURES (8 in the code)
    InFlight,      \* unstarted unexpired dispatch leases allowed in the cell
    ClaimLimit,    \* rows one claim may take
    PageSize,      \* records one reconciliation step scans
    MaxFaults,     \* bound: faults of the environment
    MaxOps,        \* bound: operator calls, lifecycle and policy changes
    Workers,       \* consumers that may run at once
    Dispatchers    \* ticks that may overlap between claim and send

ASSUME OutboxAssumption ==
    /\ NumRecords \in Nat \ {0} /\ MaxRevision \in Nat \ {0} /\ MaxPlacement \in Nat \ {0}
    /\ MaxFailures \in Nat \ {0} /\ InFlight \in Nat \ {0} /\ ClaimLimit \in Nat \ {0}
    /\ PageSize \in Nat \ {0} /\ MaxFaults \in Nat /\ MaxOps \in Nat

VARIABLES
    rev,         \* records.revision of each record, 0 before it is created
    row,         \* projection_outbox, one row per committed revision
    head,        \* projection_heads
    space,       \* the cell's spaces row: lifecycle, policy and placement
    job,         \* the collection's running reconciliation, if any
    hints,       \* delivery hints in the queue
    dispatcher,  \* a tick's claimed batch between claim, send and release
    worker,      \* a delivery between start and its end
    faults,      \* faults spent so far (bound)
    ops,         \* operator calls spent so far (bound)
    uncovered    \* history: records a cancelled reconciliation never reached

vars == <<rev, row, head, space, job, hints, dispatcher, worker, faults, ops, uncovered>>

Records   == 1 .. NumRecords
Revisions == 1 .. MaxRevision
Events    == Records \X Revisions      \* the event of a record's revision

(* projection_outbox.available_at against the clock: due, in the future, or
   'infinity' (a parked dead letter; dead_lettered_at is set with it). *)
Availability == {"now", "later", "never"}
RowStates    == {"absent", "pending", "delivering", "degraded", "delivered"}
Row == [state: RowStates, attempts: Nat, failures: Nat, started: Nat,
        avail: Availability, gen: Nat]
NoRow == [state |-> "absent", attempts |-> 0, failures |-> 0, started |-> 0,
          avail |-> "never", gen |-> 0]

NoHead == [gen |-> 0, rev |-> 0]
Hint   == [ev: Events, attempt: Nat]

Lifecycles == {"active", "readOnly", "suspended"}
Open == space.lifecycle \in {"active", "readOnly"}

WorkerStates == {"idle", "started", "locked", "release", "fail"}
(* A worker's delivery and the scope it captured at start; latest is the
   record revision its completion read. *)
Delivery == [pc: WorkerStates, ev: Events, attempt: Nat, gen: Nat,
             policy: Nat, placement: Nat, latest: Nat]
Idle == [pc |-> "idle", ev |-> <<1, 1>>, attempt |-> 0, gen |-> 0,
         policy |-> 0, placement |-> 0, latest |-> 0]

NoBatch == [pc |-> "idle", batch |-> {}]

----------------------------------------------------------------------------
(* Reading the outbox *)

(* Wrong: LIVE_OUTBOX without 'delivering', so expired leases are not reclaimed. *)
LiveUnleased(e) == row[e].state \in {"pending", "degraded"}
Live(e)       == row[e].state \in {"pending", "delivering", "degraded"}
Due(e)        == Live(e) /\ row[e].avail = "now"
DeadLetter(e) == row[e].state = "degraded" /\ row[e].avail = "never"
RowLocked(e)  == \E w \in Workers : worker[w].pc = "locked" /\ worker[w].ev = e

(* Wrong: every expired lease counts, started or not. *)
ExpiredAlways(x) == IF x.state = "delivering" THEN 1 ELSE 0

(* A lease that a worker started and that then expired is a failed attempt;
   one that was never started costs nothing. *)
Expired(x) == IF x.state = "delivering" /\ x.started = x.attempts THEN 1 ELSE 0

Unstarted == {e \in Events : /\ row[e].state = "delivering"
                             /\ row[e].started = 0
                             /\ row[e].avail = "later"}

(* What the in-flight bound leaves of a claim. *)
Room == InFlight - Cardinality(Unstarted)

(* The state a row returns to when its lease is given back uncounted. *)
Returned(x) == IF x.failures > 0 THEN "degraded" ELSE "pending"

(* claimOutboxSql: lease a due row, or park it when its budget is spent. *)
Claimed(x, started) ==
    LET failures == x.failures + Expired(x)
        parked   == failures >= MaxFailures
    IN  [state    |-> IF parked THEN "degraded" ELSE "delivering",
         attempts |-> x.attempts + 1,
         failures |-> failures,
         started  |-> IF started THEN x.attempts + 1 ELSE 0,
         avail    |-> IF parked THEN "never" ELSE "later",
         gen      |-> x.gen]

(* RELEASE_SQL: give back the lease h, if it is still that attempt's and was
   started or not as the caller says; due again at avail. *)
Released(x, attempt, started, avail) ==
    IF /\ x.state = "delivering"
       /\ x.attempts = attempt
       /\ (x.started = x.attempts) = started
    THEN [x EXCEPT !.state = Returned(x), !.started = 0, !.avail = avail]
    ELSE x

(* failOutboxSql: one counted failure of the still-current, unexpired lease. *)
Failed(x, d) ==
    IF /\ x.state = "delivering" /\ x.avail = "later"
       /\ x.attempts = d.attempt /\ x.gen = d.gen
    THEN [state    |-> "degraded",
          attempts |-> x.attempts,
          failures |-> x.failures + 1,
          started  |-> 0,
          avail    |-> IF x.failures + 1 >= MaxFailures THEN "never" ELSE "later",
          gen      |-> x.gen]
    ELSE x

(* A new row, and the other statements that rewrite one: a worker's start,
   a completion that delivers it or queues it again under placement gen, a
   reconciliation that finds it stale, an operator's retry of a dead letter. *)
Committed(gen)    == [NoRow EXCEPT !.state = "pending", !.avail = "now", !.gen = gen]
Started(x)        == [x EXCEPT !.started = x.attempts, !.avail = "later"]
Completed(x)      == [x EXCEPT !.state = "delivered", !.started = 0, !.avail = "now"]
Requeued(x, gen)  == [x EXCEPT !.state = "pending", !.started = 0, !.avail = "now", !.gen = gen]
Repaired(x, gen)  == [Requeued(x, gen) EXCEPT !.failures = 0]
Retried(x)        == [x EXCEPT !.state = "pending", !.failures = 0, !.started = 0, !.avail = "now"]

(* Wrong: a generation already projected accepts any revision of it. *)
BehindAny(h, gen, v) == h.gen <= gen

(* Wrong: the head moves once per generation. *)
BehindOnce(h, gen, v) == h.gen < gen

(* (head.generation, head.revision) < (gen, v), compared as the upsert does. *)
Behind(h, gen, v) == h.gen < gen \/ (h.gen = gen /\ h.rev < v)

(* Wrong: completions hold no lock on the space. *)
ScopeUnlocked == TRUE

(* Waiting for the share locks a completion holds on the space. *)
ScopeFree == \A w \in Workers : worker[w].pc # "locked"

Fault    == faults < MaxFaults /\ faults' = faults + 1
Operator == ops < MaxOps /\ ops' = ops + 1

----------------------------------------------------------------------------
Init ==
    /\ rev = [r \in Records |-> 0]
    /\ row = [e \in Events |-> NoRow]
    /\ head = [r \in Records |-> NoHead]
    /\ space = [lifecycle |-> "active", policy |-> 1, placement |-> 1]
    /\ job = [running |-> FALSE, after |-> 0, locked |-> FALSE, gen |-> 0]
    /\ hints = {}
    /\ dispatcher = [d \in Dispatchers |-> NoBatch]
    /\ worker = [w \in Workers |-> Idle]
    /\ faults = 0 /\ ops = 0
    /\ uncovered = {}

(* A committed create, replace, patch or delete: the record's next revision
   with its outbox row, under the space's current placement. *)
Write(r) ==
    /\ space.lifecycle = "active"
    /\ rev[r] < MaxRevision
    /\ rev' = [rev EXCEPT ![r] = @ + 1]
    /\ row' = [row EXCEPT ![<<r, rev[r] + 1>>] = Committed(space.placement)]
    /\ UNCHANGED <<head, space, job, hints, dispatcher, worker, faults, ops, uncovered>>

----------------------------------------------------------------------------
(* Dispatcher: claim, send, release *)

(* One claim transaction.  Its checkpoint lock serializes dispatchers, rows a
   completion has locked are skipped, and the batch is cut to what the
   in-flight bound leaves.  Which due rows it takes is chosen elsewhere. *)
Claim(d) ==
    /\ dispatcher[d].pc = "idle"
    /\ Open
    /\ \E S \in SUBSET {e \in Events : Due(e) /\ ~RowLocked(e)} :
         /\ S # {}
         /\ Cardinality(S) <= ClaimLimit
         /\ Cardinality(S) <= Room
         /\ row' = [e \in Events |-> IF e \in S THEN Claimed(row[e], FALSE) ELSE row[e]]
         /\ LET leased == {e \in S : Claimed(row[e], FALSE).state = "delivering"}
            IN  dispatcher' = [dispatcher EXCEPT ![d] =
                    IF leased = {} THEN NoBatch
                    ELSE [pc |-> "send",
                          batch |-> {[ev |-> e, attempt |-> row[e].attempts + 1] : e \in leased}]]
    /\ UNCHANGED <<rev, head, space, job, hints, worker, faults, ops, uncovered>>

Send(d) ==
    /\ dispatcher[d].pc = "send"
    /\ hints' = hints \union dispatcher[d].batch
    /\ dispatcher' = [dispatcher EXCEPT ![d] = NoBatch]
    /\ UNCHANGED <<rev, row, head, space, job, worker, faults, ops, uncovered>>

(* The queue refuses the batch, though part of it may have been accepted. *)
SendFails(d) ==
    /\ dispatcher[d].pc = "send"
    /\ Fault
    /\ \E sent \in SUBSET dispatcher[d].batch : hints' = hints \union sent
    /\ dispatcher' = [dispatcher EXCEPT ![d].pc = "unsend"]
    /\ UNCHANGED <<rev, row, head, space, job, worker, ops, uncovered>>

(* Every lease of the refused batch that no worker has started is due again. *)
Unsend(d) ==
    /\ dispatcher[d].pc = "unsend"
    /\ \A h \in dispatcher[d].batch : ~RowLocked(h.ev)
    /\ row' = [e \in Events |->
                 IF \E h \in dispatcher[d].batch : h.ev = e
                 THEN Released(row[e], (CHOOSE h \in dispatcher[d].batch : h.ev = e).attempt, FALSE, "now")
                 ELSE row[e]]
    /\ dispatcher' = [dispatcher EXCEPT ![d] = NoBatch]
    /\ UNCHANGED <<rev, head, space, job, hints, worker, faults, ops, uncovered>>

(* A crash, or the tick's deadline, between claim and the end of its batch:
   the leases are kept, and an abandoned send may still have arrived. *)
DispatcherStops(d) ==
    /\ dispatcher[d].pc \in {"send", "unsend"}
    /\ Fault
    /\ \E sent \in SUBSET dispatcher[d].batch :
         hints' = IF dispatcher[d].pc = "send" THEN hints \union sent ELSE hints
    /\ dispatcher' = [dispatcher EXCEPT ![d] = NoBatch]
    /\ UNCHANGED <<rev, row, head, space, job, worker, ops, uncovered>>

LoseHint(h) ==
    /\ h \in hints
    /\ Fault
    /\ hints' = hints \ {h}
    /\ UNCHANGED <<rev, row, head, space, job, dispatcher, worker, ops, uncovered>>

----------------------------------------------------------------------------
(* Worker: start, complete, fail, release *)

(* Wrong: a started lease may be started again. *)
CanRestart(h) ==
    /\ row[h.ev].state = "delivering"
    /\ row[h.ev].attempts >= h.attempt

(* A hint starts the row's current lease if no worker has, even when it names
   an earlier one or the lease has expired. *)
CanStart(h) ==
    /\ row[h.ev].state = "delivering"
    /\ row[h.ev].attempts >= h.attempt
    /\ row[h.ev].started # row[h.ev].attempts

(* The queue drops a hint it delivered, or delivers it again (a fault). *)
Delivered(h) ==
    \/ hints' = hints \ {h} /\ UNCHANGED faults
    \/ hints' = hints /\ Fault

(* A closed space releases the lease at start, uncounted. *)
StartClosed(w, h) ==
    /\ worker[w].pc = "idle" /\ h \in hints
    /\ CanStart(h) /\ ~RowLocked(h.ev)
    /\ ~Open
    /\ row' = [row EXCEPT ![h.ev] = Released(@, @.attempts, FALSE, "now")]
    /\ Delivered(h)
    /\ UNCHANGED <<rev, head, space, job, dispatcher, worker, ops, uncovered>>

Start(w, h) ==
    /\ worker[w].pc = "idle" /\ h \in hints
    /\ CanStart(h) /\ ~RowLocked(h.ev)
    /\ Open
    /\ row' = [row EXCEPT ![h.ev] = Started(@)]
    /\ worker' = [worker EXCEPT ![w] =
                    [pc |-> "started", ev |-> h.ev, attempt |-> row[h.ev].attempts,
                     gen |-> row[h.ev].gen, policy |-> space.policy,
                     placement |-> space.placement, latest |-> 0]]
    /\ Delivered(h)
    /\ UNCHANGED <<rev, head, space, job, dispatcher, ops, uncovered>>

(* process returns 'lost': the hint names no lease it may start. *)
Lost(h) ==
    /\ h \in hints
    /\ ~CanStart(h)
    /\ hints' = hints \ {h}
    /\ UNCHANGED <<rev, row, head, space, job, dispatcher, worker, faults, ops, uncovered>>

(* The collection-scoped claim: the claimant starts its lease as it takes it.
   Parked rows are not returned. *)
ClaimOutbox(w, e) ==
    /\ worker[w].pc = "idle"
    /\ Open
    /\ Due(e) /\ ~RowLocked(e)
    /\ LET leased == Claimed(row[e], TRUE)
       IN  /\ row' = [row EXCEPT ![e] = leased]
           /\ worker' = IF leased.state = "delivering"
                        THEN [worker EXCEPT ![w] =
                               [pc |-> "started", ev |-> e, attempt |-> leased.attempts,
                                gen |-> leased.gen, policy |-> space.policy,
                                placement |-> space.placement, latest |-> 0]]
                        ELSE worker
    /\ UNCHANGED <<rev, head, space, job, hints, dispatcher, faults, ops, uncovered>>

(* Wrong: the placement captured at start is not rechecked. *)
InScopeAnyPlacement(d) == Open /\ space.policy = d.policy

(* checkScope: the space is open and has the policy and placement captured at
   start; it holds share locks on the space until the transaction ends. *)
InScope(d) == Open /\ space.policy = d.policy /\ space.placement = d.placement

(* Completion is denied; the lease is then given back uncounted. *)
Denied(w) ==
    /\ worker[w].pc = "started"
    /\ ~InScope(worker[w])
    /\ worker' = [worker EXCEPT ![w].pc = "release"]
    /\ UNCHANGED <<rev, row, head, space, job, hints, dispatcher, faults, ops, uncovered>>

(* The lease this delivery was given is still current and unexpired. *)
HoldsLease(d) ==
    /\ row[d.ev].state = "delivering" /\ row[d.ev].avail = "later"
    /\ row[d.ev].attempts = d.attempt /\ row[d.ev].gen = d.gen

(* Lock the lease, then read the record's latest revision. *)
LockLease(w) ==
    LET d == worker[w] IN
    /\ d.pc = "started" /\ InScope(d) /\ ~RowLocked(d.ev)
    /\ worker' = [worker EXCEPT ![w] =
                    IF HoldsLease(d) THEN [d EXCEPT !.pc = "locked", !.latest = rev[d.ev[1]]]
                    ELSE Idle]
    /\ UNCHANGED <<rev, row, head, space, job, hints, dispatcher, faults, ops, uncovered>>

(* The latest revision captured under an earlier placement is queued again. *)
Requeue(w) ==
    LET d == worker[w] IN
    /\ d.pc = "locked"
    /\ d.gen # d.placement /\ d.latest = d.ev[2]
    /\ row' = [row EXCEPT ![d.ev] = Requeued(@, d.placement)]
    /\ worker' = [worker EXCEPT ![w] = Idle]
    /\ UNCHANGED <<rev, head, space, job, hints, dispatcher, faults, ops, uncovered>>

(* Deliver the row; only the latest revision under the current placement may
   move the head (and run the projector's apply), and only forward. *)
Complete(w) ==
    LET d == worker[w]
        r == d.ev[1]
        v == d.ev[2]
    IN
    /\ d.pc = "locked"
    /\ ~(d.gen # d.placement /\ d.latest = v)
    /\ head' = IF d.gen = d.placement /\ d.latest = v /\ Behind(head[r], d.placement, v)
               THEN [head EXCEPT ![r] = [gen |-> d.placement, rev |-> v]]
               ELSE head
    /\ row' = [row EXCEPT ![d.ev] = Completed(@)]
    /\ worker' = [worker EXCEPT ![w] = Idle]
    /\ UNCHANGED <<rev, space, job, hints, dispatcher, faults, ops, uncovered>>

(* The projector rejects the item, or it overruns its budget: rolled back,
   then one counted failure in a transaction of its own. *)
ItemFault(w) ==
    /\ worker[w].pc \in {"started", "locked"}
    /\ Fault
    /\ worker' = [worker EXCEPT ![w].pc = "fail"]
    /\ UNCHANGED <<rev, row, head, space, job, hints, dispatcher, ops, uncovered>>

FailLease(w) ==
    LET d == worker[w] IN
    /\ d.pc = "fail" /\ ~RowLocked(d.ev)
    /\ row' = [row EXCEPT ![d.ev] = Failed(@, d)]
    /\ worker' = [worker EXCEPT ![w] = Idle]
    /\ UNCHANGED <<rev, head, space, job, hints, dispatcher, faults, ops, uncovered>>

(* An infrastructure fault or lock timeout with a known rollback; it is
   rethrown, so the queue delivers the hint again if the lease came from one. *)
InfrastructureFault(w) ==
    /\ worker[w].pc \in {"started", "locked"}
    /\ Fault
    /\ worker' = [worker EXCEPT ![w].pc = "release"]
    /\ \E again \in SUBSET {[ev |-> worker[w].ev, attempt |-> worker[w].attempt]} :
         hints' = hints \union again
    /\ UNCHANGED <<rev, row, head, space, job, dispatcher, ops, uncovered>>

ReleaseLease(w) ==
    LET d == worker[w] IN
    /\ d.pc = "release" /\ ~RowLocked(d.ev)
    /\ row' = [row EXCEPT ![d.ev] = Released(@, d.attempt, TRUE, "later")]
    /\ worker' = [worker EXCEPT ![w] = Idle]
    /\ UNCHANGED <<rev, head, space, job, hints, dispatcher, faults, ops, uncovered>>

(* A crash, an unknown COMMIT that did not commit, or a release or failure
   record that could not commit: the lease is left to expire. *)
Crash(w) ==
    /\ worker[w].pc # "idle"
    /\ Fault
    /\ worker' = [worker EXCEPT ![w] = Idle]
    /\ UNCHANGED <<rev, row, head, space, job, hints, dispatcher, ops, uncovered>>

(* Someone is still at work on the row's current lease. *)
Attended(e) ==
    /\ row[e].state = "delivering"
    /\ \/ /\ row[e].started = 0
          /\ \/ \E h \in hints : h.ev = e
             \/ \E d \in Dispatchers : \E h \in dispatcher[d].batch : h.ev = e
       \/ \E w \in Workers : /\ worker[w].pc # "idle" /\ worker[w].ev = e
                             /\ worker[w].attempt = row[e].attempts

(* Time passes a lease's expiry or a backoff.  Expiry of a lease still
   attended to is a fault (a slow queue, an overrunning worker). *)
Elapse(e) ==
    /\ row[e].avail = "later"
    /\ row' = [row EXCEPT ![e].avail = "now"]
    /\ IF Attended(e) THEN Fault ELSE UNCHANGED faults
    /\ UNCHANGED <<rev, head, space, job, hints, dispatcher, worker, ops, uncovered>>

----------------------------------------------------------------------------
(* Operators, reconciliation and placement *)

(* Return the space's dead letters to the queue with a fresh budget. *)
Retry ==
    /\ Operator
    /\ row' = [e \in Events |-> IF DeadLetter(e) THEN Retried(row[e]) ELSE row[e]]
    /\ UNCHANGED <<rev, head, space, job, hints, dispatcher, worker, faults, uncovered>>

(* Start the collection's one running reconciliation, or return it. *)
Reconcile ==
    /\ Operator
    /\ Open /\ ~job.running
    /\ job' = [job EXCEPT !.running = TRUE, !.after = 0]
    /\ uncovered' = {}
    /\ UNCHANGED <<rev, row, head, space, hints, dispatcher, worker, faults>>

Cancel ==
    /\ Operator
    /\ job.running /\ ~job.locked
    /\ job' = [job EXCEPT !.running = FALSE]
    /\ uncovered' = uncovered \union {r \in Records : r > job.after}
    /\ UNCHANGED <<rev, row, head, space, hints, dispatcher, worker, faults>>

(* A step locks its job, then reads the placement; a closed space only
   postpones the job. *)
StepLock ==
    /\ job.running /\ ~job.locked
    /\ Open
    /\ job' = [job EXCEPT !.locked = TRUE, !.gen = space.placement]
    /\ UNCHANGED <<rev, row, head, space, hints, dispatcher, worker, faults, ops, uncovered>>

(* Created records the job has yet to scan, and the next page of them: the
   first PageSize in key order, or all that are left. *)
Unscanned == {r \in Records : rev[r] > 0 /\ r > job.after}

NextPage(page) ==
    /\ page \subseteq Unscanned
    /\ \A r \in page : \A q \in Unscanned \ page : r < q
    /\ \/ page = Unscanned /\ Cardinality(page) <= PageSize
       \/ Cardinality(page) = PageSize

(* Delivered, but the head is missing, behind or of another placement. *)
StaleUnder(r, gen) ==
    /\ rev[r] > 0
    /\ row[<<r, rev[r]>>].state = "delivered"
    /\ head[r].gen # gen \/ head[r].rev < rev[r]

StepPage ==
    /\ job.locked
    /\ \E page \in SUBSET Unscanned : \E last \in Records \union {job.after} :
         /\ NextPage(page)
         /\ IF page = {} THEN last = job.after ELSE last \in page /\ \A r \in page : r <= last
         /\ row' = [e \in Events |->
                      IF e[1] \in page /\ e[2] = rev[e[1]] /\ StaleUnder(e[1], job.gen)
                      THEN Repaired(row[e], job.gen)
                      ELSE row[e]]
         /\ job' = [job EXCEPT !.locked = FALSE, !.after = last,
                               !.running = Cardinality(page) = PageSize]
    /\ UNCHANGED <<rev, head, space, hints, dispatcher, worker, faults, ops, uncovered>>

(* The step's deadline or a lost session: it rolls back. *)
StepAborts ==
    /\ job.locked
    /\ Fault
    /\ job' = [job EXCEPT !.locked = FALSE]
    /\ UNCHANGED <<rev, row, head, space, hints, dispatcher, worker, ops, uncovered>>

(* The cell transaction of fencePlacement: it waits for completions and for a
   step's job lock, and schedules or restarts the repair as it commits. *)
FencePlacement ==
    /\ ScopeFree /\ ~job.locked
    /\ space.placement < MaxPlacement
    /\ space' = [space EXCEPT !.placement = @ + 1]
    /\ job' = [job EXCEPT !.running = TRUE, !.after = 0]
    /\ uncovered' = {}
    /\ UNCHANGED <<rev, row, head, hints, dispatcher, worker, faults, ops>>

(* archive, restore or suspend; each advances the policy version. *)
ChangeLifecycle(l) ==
    /\ Operator
    /\ ScopeFree
    /\ l # space.lifecycle
    /\ space' = [space EXCEPT !.lifecycle = l, !.policy = @ + 1]
    /\ UNCHANGED <<rev, row, head, job, hints, dispatcher, worker, faults, uncovered>>

(* A grant or revocation advances the policy version. *)
ChangePolicy ==
    /\ Operator
    /\ ScopeFree
    /\ space' = [space EXCEPT !.policy = @ + 1]
    /\ UNCHANGED <<rev, row, head, job, hints, dispatcher, worker, faults, uncovered>>

----------------------------------------------------------------------------
DispatcherNext(d) == Claim(d) \/ Send(d) \/ SendFails(d) \/ Unsend(d) \/ DispatcherStops(d)

WorkerNext(w) ==
    \/ \E h \in hints : StartClosed(w, h) \/ Start(w, h)
    \/ \E e \in Events : ClaimOutbox(w, e)
    \/ Denied(w) \/ LockLease(w) \/ Requeue(w) \/ Complete(w)
    \/ ItemFault(w) \/ FailLease(w) \/ InfrastructureFault(w) \/ ReleaseLease(w) \/ Crash(w)

OperatorNext == Retry \/ Reconcile \/ Cancel \/ FencePlacement \/ ChangePolicy
                \/ \E l \in Lifecycles : ChangeLifecycle(l)

Next ==
    \/ \E r \in Records : Write(r)
    \/ \E d \in Dispatchers : DispatcherNext(d)
    \/ \E w \in Workers : WorkerNext(w)
    \/ \E h \in hints : Lost(h) \/ LoseHint(h)
    \/ \E e \in Events : Elapse(e)
    \/ StepLock \/ StepPage \/ StepAborts
    \/ OperatorNext

Spec == Init /\ [][Next]_vars

----------------------------------------------------------------------------
(* Properties *)

(* Every variable holds what its column or object can hold. *)
TypeOK ==
    /\ rev \in [Records -> 0 .. MaxRevision]
    /\ row \in [Events -> Row]
    /\ head \in [Records -> [gen : Nat, rev : 0 .. MaxRevision]]
    /\ space \in [lifecycle : Lifecycles, policy : Nat \ {0}, placement : Nat \ {0}]
    /\ job \in [running : BOOLEAN, after : Nat, locked : BOOLEAN, gen : Nat]
    /\ hints \subseteq Hint
    /\ dispatcher \in [Dispatchers -> [pc : {"idle", "send", "unsend"}, batch : SUBSET Hint]]
    /\ worker \in [Workers -> Delivery]
    /\ faults \in Nat /\ ops \in Nat
    /\ uncovered \subseteq Records

(* The attempt number fences late workers: between its lock and its commit a
   completion owns a lease that is current, started and its own, however long
   ago it started and whatever claimed the row since. *)
LeaseHeld ==
    \A w \in Workers : worker[w].pc = "locked" =>
        LET x == row[worker[w].ev] IN
        /\ x.state = "delivering" /\ x.gen = worker[w].gen
        /\ x.attempts = worker[w].attempt /\ x.started = x.attempts

(* Duplicate, late and redelivered hints never put two workers on one lease. *)
OneWorkerPerLease ==
    \A v, w \in Workers :
        /\ worker[v].pc # "idle" /\ worker[w].pc # "idle"
        /\ worker[v].ev = worker[w].ev /\ worker[v].attempt = worker[w].attempt
        => v = w

(* A row is parked as a dead letter exactly when its budget is spent,
   whichever of a failure record or an expired lease spent the last of it. *)
ParkedAtBudget ==
    \A e \in Events : row[e].state # "absent" =>
        (row[e].avail = "never" <=> row[e].failures >= MaxFailures)

(* Lost hints, failed sends, closed spaces and outages are free: only an
   attempt a worker really started is ever counted against the row. *)
OnlyStartedAttemptsCount ==
    [][\A e \in Events : row'[e].failures > row[e].failures =>
         /\ row[e].state = "delivering" /\ row[e].started = row[e].attempts
         /\ row'[e].failures = row[e].failures + 1]_vars

(* Dispatch never runs ahead of its consumers by more than the bound. *)
DispatchBounded == Cardinality({e \in Events : /\ row[e].state = "delivering"
                                               /\ row[e].started = 0
                                               /\ row[e].avail = "later"}) <= InFlight

(* A delivery is fenced by its lease, counted once against its row's budget,
   and dispatched within the bound. *)
DeliveriesHold ==
    TypeOK /\ LeaseHeld /\ OneWorkerPerLease /\ ParkedAtBudget /\ DispatchBounded

(* Neither the projected generation nor the projected revision of a record
   ever moves back, so nothing a later revision replaced or deleted returns. *)
HeadsOnlyAdvance ==
    [][\A r \in Records : head[r].gen <= head'[r].gen /\ head[r].rev <= head'[r].rev]_vars

(* A head moves only while the space is open and only to the placement in
   force as the completion commits: a suspension or a fence that commits
   first denies it, and one that comes later waits for it. *)
ProjectsOnlyInScope ==
    [][\A r \in Records : head'[r] # head[r] => Open /\ head'[r].gen = space.placement]_vars

(* projection() reports a record current only when its head is the latest
   committed revision under the current placement. *)
ReportedCurrent(r) ==
    LET x == row[<<r, rev[r]>>] IN
    rev[r] > 0 /\ x.state = "delivered" /\ x.gen = space.placement

CurrentMeansProjected ==
    \A r \in Records : ReportedCurrent(r) => head[r] = [gen |-> space.placement, rev |-> rev[r]]

(* No delivered projection is stale and forgotten: a running reconciliation
   has yet to reach it, unless an operator cancelled the one that would. *)
RepairCovered ==
    \A r \in Records :
        /\ rev[r] > 0 /\ row[<<r, rev[r]>>].state = "delivered"
        /\ head[r] # [gen |-> space.placement, rev |-> rev[r]]
        => (job.running /\ job.after < r) \/ r \in uncovered

(* The inductive invariant, in three layers.  Leases: rows belong to committed
   revisions, and a worker's attempt is the row's current, started lease or
   one the row has left behind. *)
RowsCommitted == \A e \in Events : row[e].state # "absent" => e[2] <= rev[e[1]]

LeaseFenced ==
    \A w \in Workers : worker[w].pc # "idle" =>
        LET x == row[worker[w].ev] IN
        /\ x.state # "absent" /\ worker[w].attempt <= x.attempts
        /\ x.state = "delivering" /\ x.attempts = worker[w].attempt => x.started = x.attempts

LeaseInv == RowsCommitted /\ LeaseFenced /\ LeaseHeld /\ OneWorkerPerLease

(* Scope: why a late completion is harmless.  A locked worker is in scope, and
   the latest revision it read is no older than what the head of an earlier
   generation shows. *)
HeadsBounded ==
    /\ \A r \in Records : head[r].gen <= space.placement /\ head[r].rev <= rev[r]
    /\ \A e \in Events : row[e].gen <= space.placement

LockedInScope ==
    \A w \in Workers : worker[w].pc = "locked" =>
        LET d == worker[w] IN
        /\ InScope(d)
        /\ d.ev[2] <= d.latest /\ d.latest <= rev[d.ev[1]]
        /\ head[d.ev[1]].gen = space.placement \/ head[d.ev[1]].rev <= d.latest

JobInScope == job.locked => job.running /\ job.gen = space.placement

ScopeInv == HeadsBounded /\ LockedInScope /\ JobInScope

(* Once writes, faults and operators stop, every record ends current, parked
   or given up by a cancelled reconciliation, unless the space is closed. *)
Converged ==
    Open => \A r \in Records : rev[r] > 0 =>
      \/ ReportedCurrent(r)
      \/ DeadLetter(<<r, rev[r]>>)
      \/ r \in uncovered

(* The outbox implements what projections promise. *)
Projection == INSTANCE ProjectionHeads
    WITH committed <- rev, placement <- space.placement, open <- Open

ImplementsHeads == Projection!Spec
=============================================================================
