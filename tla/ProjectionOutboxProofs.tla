----------------------- MODULE ProjectionOutboxProofs -----------------------
(***************************************************************************)
(* Safety of the projection outbox for every number of records, revisions, *)
(* placements, workers and dispatchers.                                    *)
(***************************************************************************)
EXTENDS ProjectionOutbox, FiniteSetTheorems, TLAPS

(* What a rewritten row y does to the lease of the row x. *)
SameLease(x, y)    == /\ y.state = x.state /\ y.attempts = x.attempts
                      /\ y.started = x.started /\ y.gen = x.gen
LeaseLeft(x, y)    == /\ x.state # "absent" /\ y.state \notin {"absent", "delivering"}
                      /\ y.attempts = x.attempts
LeaseTaken(x, y)   == /\ x.state # "absent" /\ y.state # "absent"
                      /\ y.attempts = x.attempts + 1
LeaseStarted(x, y) == /\ x.state = "delivering" /\ y.state = "delivering"
                      /\ y.attempts = x.attempts /\ y.started = y.attempts

(* What the statements that rewrite a row return. *)
LEMMA ClaimedRow ==
    ASSUME NEW x \in Row, NEW b \in BOOLEAN
    PROVE  /\ Claimed(x, b) \in Row
           /\ Claimed(x, b).attempts = x.attempts + 1
           /\ Claimed(x, b).gen = x.gen
           /\ Claimed(x, b).state \in {"delivering", "degraded"}
           /\ b => Claimed(x, b).started = x.attempts + 1
  BY OutboxAssumption DEF Claimed, Expired, Row, RowStates, Availability

LEMMA ReleasedRow ==
    ASSUME NEW x \in Row, NEW a \in Nat, NEW b \in BOOLEAN, NEW t \in Availability
    PROVE  /\ Released(x, a, b, t) \in Row
           /\ Released(x, a, b, t).attempts = x.attempts
           /\ Released(x, a, b, t).gen = x.gen
           /\ Released(x, a, b, t) = x \/ LeaseLeft(x, Released(x, a, b, t))
           /\ Released(x, a, b, t) = x \/ Released(x, a, b, t).state # "delivered"
<1>1. Returned(x) \in {"pending", "degraded"}
  BY DEF Returned
<1>2. ASSUME NEW s \in {"pending", "degraded"}
      PROVE  LET y == [x EXCEPT !.state = s, !.started = 0, !.avail = t] IN
             y \in Row /\ y.attempts = x.attempts /\ y.gen = x.gen /\ y.state = s
  BY DEF Row, RowStates
<1> QED
  BY <1>1, <1>2 DEF Released, LeaseLeft

LEMMA FailedRow ==
    ASSUME NEW x \in Row, NEW d \in Delivery
    PROVE  /\ Failed(x, d) \in Row
           /\ Failed(x, d).attempts = x.attempts
           /\ Failed(x, d).gen = x.gen
           /\ Failed(x, d) = x \/ LeaseLeft(x, Failed(x, d))
           /\ Failed(x, d) = x \/ Failed(x, d).state # "delivered"
  BY DEF Failed, Row, RowStates, Availability, LeaseLeft

LEMMA RewrittenRow ==
    ASSUME NEW x \in Row, NEW g \in Nat
    PROVE  /\ Committed(g) \in Row /\ Committed(g).state = "pending" /\ Committed(g).gen = g
           /\ Committed(g).attempts = 0
           /\ Started(x) \in Row /\ Started(x).state = x.state /\ Started(x).gen = x.gen
           /\ Started(x).attempts = x.attempts /\ Started(x).started = x.attempts
           /\ Completed(x) \in Row /\ Completed(x).state = "delivered" /\ Completed(x).gen = x.gen
           /\ Completed(x).attempts = x.attempts
           /\ Requeued(x, g) \in Row /\ Requeued(x, g).state = "pending" /\ Requeued(x, g).gen = g
           /\ Requeued(x, g).attempts = x.attempts
           /\ Repaired(x, g) \in Row /\ Repaired(x, g).state = "pending" /\ Repaired(x, g).gen = g
           /\ Repaired(x, g).attempts = x.attempts
           /\ Retried(x) \in Row /\ Retried(x).state = "pending" /\ Retried(x).gen = x.gen
           /\ Retried(x).attempts = x.attempts
<1>1. /\ Committed(g) \in Row /\ Committed(g).state = "pending" /\ Committed(g).gen = g
      /\ Committed(g).attempts = 0
  BY DEF Committed, NoRow, Row, RowStates, Availability
<1>2. /\ Started(x) \in Row /\ Started(x).state = x.state /\ Started(x).gen = x.gen
      /\ Started(x).attempts = x.attempts /\ Started(x).started = x.attempts
  BY DEF Started, Row, Availability
<1>3. /\ Completed(x) \in Row /\ Completed(x).state = "delivered" /\ Completed(x).gen = x.gen
      /\ Completed(x).attempts = x.attempts
  BY DEF Completed, Row, RowStates, Availability
<1>4. /\ Requeued(x, g) \in Row /\ Requeued(x, g).state = "pending" /\ Requeued(x, g).gen = g
      /\ Requeued(x, g).attempts = x.attempts
  BY DEF Requeued, Row, RowStates, Availability
<1>5. /\ Repaired(x, g) \in Row /\ Repaired(x, g).state = "pending" /\ Repaired(x, g).gen = g
      /\ Repaired(x, g).attempts = x.attempts
  BY <1>4 DEF Repaired, Row
<1>6. /\ Retried(x) \in Row /\ Retried(x).state = "pending" /\ Retried(x).gen = x.gen
      /\ Retried(x).attempts = x.attempts
  BY DEF Retried, Row, RowStates, Availability
<1> QED
  BY <1>1, <1>2, <1>3, <1>4, <1>5, <1>6

(* Every variable keeps its type. *)
LEMMA TypeInit == Init => TypeOK
<1> SUFFICES ASSUME Init PROVE TypeOK
  OBVIOUS
<1>1. NoRow \in Row /\ Idle \in Delivery /\ NoHead \in [gen : Nat, rev : 0 .. MaxRevision]
      /\ NoBatch \in [pc : {"idle", "send", "unsend"}, batch : SUBSET Hint]
  BY OutboxAssumption
     DEF NoRow, Row, RowStates, Availability, Idle, Delivery, WorkerStates, Events, Records,
         Revisions, NoHead, NoBatch
<1> QED
  BY <1>1, OutboxAssumption DEF Init, TypeOK, Lifecycles

LEMMA TypeNext == TypeOK /\ [Next]_vars => TypeOK'
<1> SUFFICES ASSUME TypeOK, [Next]_vars PROVE TypeOK'
  OBVIOUS
<1>a. \A e \in Events : row[e] \in Row /\ row[e].attempts \in Nat /\ row[e].gen \in Nat
  BY DEF TypeOK, Row
<1>b. \A w \in Workers : worker[w] \in Delivery /\ worker[w].ev \in Events
                        /\ worker[w].attempt \in Nat /\ worker[w].placement \in Nat
  BY DEF TypeOK, Delivery
<1>c. \A h \in hints : h \in Hint /\ h.ev \in Events
  BY DEF TypeOK, Hint
<1>d. \A d \in Dispatchers : dispatcher[d].batch \subseteq Hint
  BY DEF TypeOK
<1>e. Idle \in Delivery
  BY OutboxAssumption DEF Idle, Delivery, WorkerStates, Events, Records, Revisions
<1>f. NoBatch \in [pc : {"idle", "send", "unsend"}, batch : SUBSET Hint]
  BY DEF NoBatch
<1>g. \A r \in Records : rev[r] \in 0 .. MaxRevision
  BY DEF TypeOK
<1> DEFINE Job == [running : BOOLEAN, after : Nat, locked : BOOLEAN, gen : Nat]
<1>h. \A b \in BOOLEAN, n \in Nat :
        /\ [job EXCEPT !.running = b] \in Job
        /\ [job EXCEPT !.running = b, !.after = n] \in Job
        /\ [job EXCEPT !.locked = b] \in Job
        /\ [job EXCEPT !.locked = b, !.gen = n] \in Job
  BY DEF TypeOK
<1> HIDE DEF Job
<1>i. space.placement \in Nat /\ TRUE \in BOOLEAN /\ FALSE \in BOOLEAN /\ 0 \in Nat
  BY DEF TypeOK
<1>1. ASSUME NEW r \in Records, Write(r) PROVE TypeOK'
  <2>1. space.placement \in Nat
    BY DEF TypeOK
  <2>2. Committed(space.placement) \in Row
    BY <2>1 DEF Committed, NoRow, Row, RowStates, Availability
  <2>3. row' \in [Events -> Row]
    BY <1>1, <2>2 DEF Write, TypeOK
  <2>4. rev' \in [Records -> 0 .. MaxRevision]
    BY <1>1, <1>g, OutboxAssumption DEF Write, TypeOK
  <2> QED
    BY <1>1, <2>3, <2>4 DEF Write, TypeOK
<1>2. ASSUME NEW d \in Dispatchers, DispatcherNext(d) PROVE TypeOK'
  <2>1. CASE Claim(d)
    <3>1. PICK S \in SUBSET {e \in Events : Due(e) /\ ~RowLocked(e)} :
            /\ row' = [e \in Events |-> IF e \in S THEN Claimed(row[e], FALSE) ELSE row[e]]
            /\ LET leased == {e \in S : Claimed(row[e], FALSE).state = "delivering"}
               IN  dispatcher' = [dispatcher EXCEPT ![d] =
                    IF leased = {} THEN NoBatch
                    ELSE [pc |-> "send",
                          batch |-> {[ev |-> e, attempt |-> row[e].attempts + 1] : e \in leased}]]
      BY <2>1 DEF Claim
    <3>2. row' \in [Events -> Row]
      BY <3>1, <1>a, ClaimedRow
    <3>3. ASSUME NEW L \in SUBSET Events
          PROVE {[ev |-> e, attempt |-> row[e].attempts + 1] : e \in L} \subseteq Hint
      BY <1>a DEF Hint
    <3>4. dispatcher' \in [Dispatchers -> [pc : {"idle", "send", "unsend"}, batch : SUBSET Hint]]
      <4> DEFINE leased == {e \in S : Claimed(row[e], FALSE).state = "delivering"}
                 batch  == {[ev |-> e, attempt |-> row[e].attempts + 1] : e \in leased}
      <4>1. batch \subseteq Hint
        BY <3>3
      <4>2. dispatcher' = [dispatcher EXCEPT ![d] = IF leased = {} THEN NoBatch
                                                    ELSE [pc |-> "send", batch |-> batch]]
        BY <3>1
      <4> HIDE DEF leased, batch
      <4> QED
        BY <4>1, <4>2, <1>f DEF TypeOK
    <3> QED
      BY <2>1, <3>2, <3>4 DEF Claim, TypeOK
  <2>2. CASE Send(d)
    BY <2>2, <1>d, <1>f DEF Send, TypeOK
  <2>3. CASE SendFails(d)
    BY <2>3, <1>d DEF SendFails, Fault, TypeOK
  <2>4. CASE Unsend(d)
    <3>1. ASSUME NEW e \in Events, \E h \in dispatcher[d].batch : h.ev = e
          PROVE  (CHOOSE h \in dispatcher[d].batch : h.ev = e).attempt \in Nat
      BY <3>1, <1>d DEF Hint
    <3>2. ASSUME NEW e \in Events, \E h \in dispatcher[d].batch : h.ev = e
          PROVE  Released(row[e], (CHOOSE h \in dispatcher[d].batch : h.ev = e).attempt,
                          FALSE, "now") \in Row
      BY <3>1, <3>2, <1>a, ReleasedRow DEF Availability
    <3>3. row' \in [Events -> Row]
      BY <2>4, <3>2, <1>a DEF Unsend
    <3> QED
      BY <2>4, <3>3, <1>f DEF Unsend, TypeOK
  <2>5. CASE DispatcherStops(d)
    BY <2>5, <1>d, <1>f DEF DispatcherStops, Fault, TypeOK
  <2> QED
    BY <1>2, <2>1, <2>2, <2>3, <2>4, <2>5 DEF DispatcherNext
<1>3. ASSUME NEW w \in Workers, WorkerNext(w) PROVE TypeOK'
  <2>1. ASSUME NEW h \in hints, StartClosed(w, h) PROVE TypeOK'
    <3>1. Released(row[h.ev], row[h.ev].attempts, FALSE, "now") \in Row
      BY <1>a, <1>c, ReleasedRow DEF Availability
    <3>2. row' \in [Events -> Row]
      BY <2>1, <3>1 DEF StartClosed, TypeOK
    <3>3. hints' \subseteq Hint /\ faults' \in Nat
      BY <2>1 DEF StartClosed, Delivered, Fault, TypeOK
    <3> QED
      BY <2>1, <3>2, <3>3 DEF StartClosed, TypeOK
  <2>2. ASSUME NEW h \in hints, Start(w, h) PROVE TypeOK'
    <3>1. Started(row[h.ev]) \in Row
      BY <1>a, <1>c, RewrittenRow
    <3>2. row' \in [Events -> Row]
      BY <2>2, <3>1 DEF Start, TypeOK
    <3>3. [pc |-> "started", ev |-> h.ev, attempt |-> row[h.ev].attempts,
           gen |-> row[h.ev].gen, policy |-> space.policy,
           placement |-> space.placement, latest |-> 0] \in Delivery
      BY <1>a, <1>c DEF TypeOK, Delivery, WorkerStates
    <3>4. worker' \in [Workers -> Delivery]
      BY <2>2, <3>3 DEF Start, TypeOK
    <3> QED
      BY <2>2, <3>2, <3>4 DEF Start, Delivered, Fault, TypeOK
  <2>3. ASSUME NEW e \in Events, ClaimOutbox(w, e) PROVE TypeOK'
    <3> DEFINE leased == Claimed(row[e], TRUE)
    <3>1. leased \in Row
      BY <1>a, ClaimedRow
    <3>2. row' = [row EXCEPT ![e] = leased] /\ row' \in [Events -> Row]
      BY <2>3, <3>1 DEF ClaimOutbox, TypeOK
    <3>3. [pc |-> "started", ev |-> e, attempt |-> leased.attempts, gen |-> leased.gen,
           policy |-> space.policy, placement |-> space.placement, latest |-> 0] \in Delivery
      BY <3>1 DEF TypeOK, Delivery, Row, WorkerStates
    <3>4. worker' \in [Workers -> Delivery]
      BY <2>3, <3>3 DEF ClaimOutbox, TypeOK
    <3> QED
      BY <2>3, <3>2, <3>4 DEF ClaimOutbox, TypeOK
  <2>4. CASE Denied(w) \/ InfrastructureFault(w) \/ ItemFault(w) \/ Crash(w)
    <3>1. worker' \in [Workers -> Delivery]
      <4>1. \A s \in WorkerStates : [worker[w] EXCEPT !.pc = s] \in Delivery
        BY <1>b DEF Delivery
      <4>2. \/ worker' = [worker EXCEPT ![w] = Idle]
            \/ \E s \in WorkerStates : worker' = [worker EXCEPT ![w].pc = s]
        BY <2>4 DEF Denied, InfrastructureFault, ItemFault, Crash, WorkerStates
      <4> QED
        BY <4>1, <4>2, <1>e DEF TypeOK
    <3>3. faults' \in Nat
      BY <2>4 DEF Denied, InfrastructureFault, ItemFault, Crash, Fault, TypeOK
    <3>2. hints' \subseteq Hint
      <4>1. [ev |-> worker[w].ev, attempt |-> worker[w].attempt] \in Hint
        BY <1>b DEF Hint
      <4> QED
        BY <2>4, <4>1 DEF Denied, InfrastructureFault, ItemFault, Crash, TypeOK
    <3> QED
      BY <2>4, <3>1, <3>2, <3>3 DEF Denied, InfrastructureFault, ItemFault, Crash, TypeOK
  <2>5. CASE LockLease(w)
    <3>1. rev[worker[w].ev[1]] \in Nat
      BY <1>b, <1>g, OutboxAssumption DEF Events
    <3>2. [worker[w] EXCEPT !.pc = "locked", !.latest = rev[worker[w].ev[1]]] \in Delivery
      BY <1>b, <3>1 DEF Delivery, WorkerStates
    <3>3. worker' \in [Workers -> Delivery]
      BY <2>5, <3>2, <1>e DEF LockLease, TypeOK
    <3> QED
      BY <2>5, <3>3 DEF LockLease, TypeOK
  <2>6. CASE Requeue(w)
    <3>1. Requeued(row[worker[w].ev], worker[w].placement) \in Row
      BY <1>a, <1>b, RewrittenRow
    <3>2. row' \in [Events -> Row] /\ worker' \in [Workers -> Delivery]
      BY <2>6, <3>1, <1>e DEF Requeue, TypeOK
    <3> QED
      BY <2>6, <3>2 DEF Requeue, TypeOK
  <2>7. CASE Complete(w)
    <3>1. Completed(row[worker[w].ev]) \in Row
      BY <1>a, <1>b, RewrittenRow
    <3>2. row' \in [Events -> Row] /\ worker' \in [Workers -> Delivery]
      BY <2>7, <3>1, <1>e DEF Complete, TypeOK
    <3>3. worker[w].ev[1] \in Records /\ worker[w].ev[2] \in 0 .. MaxRevision
      BY <1>b, OutboxAssumption DEF Events, Revisions
    <3>4. [gen |-> worker[w].placement, rev |-> worker[w].ev[2]]
             \in [gen : Nat, rev : 0 .. MaxRevision]
      BY <1>b, <3>3
    <3>5. head' \in [Records -> [gen : Nat, rev : 0 .. MaxRevision]]
      BY <2>7, <3>4 DEF Complete, TypeOK
    <3> QED
      BY <2>7, <3>2, <3>5 DEF Complete, TypeOK
  <2>8. CASE FailLease(w)
    <3>1. Failed(row[worker[w].ev], worker[w]) \in Row
      BY <1>a, <1>b, FailedRow
    <3>2. row' \in [Events -> Row] /\ worker' \in [Workers -> Delivery]
      BY <2>8, <3>1, <1>e DEF FailLease, TypeOK
    <3> QED
      BY <2>8, <3>2 DEF FailLease, TypeOK
  <2>9. CASE ReleaseLease(w)
    <3>1. Released(row[worker[w].ev], worker[w].attempt, TRUE, "later") \in Row
      BY <1>a, <1>b, ReleasedRow DEF Availability
    <3>2. row' \in [Events -> Row] /\ worker' \in [Workers -> Delivery]
      BY <2>9, <3>1, <1>e DEF ReleaseLease, TypeOK
    <3> QED
      BY <2>9, <3>2 DEF ReleaseLease, TypeOK
  <2> QED
    BY <1>3, <2>1, <2>2, <2>3, <2>4, <2>5, <2>6, <2>7, <2>8, <2>9 DEF WorkerNext
<1>4. ASSUME NEW h \in hints, Lost(h) \/ LoseHint(h) PROVE TypeOK'
  BY <1>4 DEF Lost, LoseHint, Fault, TypeOK
<1>5. ASSUME NEW e \in Events, Elapse(e) PROVE TypeOK'
  <2>1. [row[e] EXCEPT !.avail = "now"] \in Row
    BY <1>a DEF Row, Availability
  <2>2. row' \in [Events -> Row]
    BY <1>5, <2>1 DEF Elapse, TypeOK
  <2> QED
    BY <1>5, <2>2 DEF Elapse, Fault, TypeOK
<1>6. CASE StepLock \/ StepAborts
  <2>1. job' \in Job
    BY <1>6, <1>h, <1>i DEF StepLock, StepAborts
  <2> QED
    BY <1>6, <2>1 DEF StepLock, StepAborts, Fault, TypeOK, Job
<1>7. CASE StepPage
  <2>1. PICK page \in SUBSET Unscanned, last \in Records \union {job.after} :
          /\ row' = [e \in Events |->
                        IF e[1] \in page /\ e[2] = rev[e[1]] /\ StaleUnder(e[1], job.gen)
                        THEN Repaired(row[e], job.gen)
                        ELSE row[e]]
          /\ job' = [job EXCEPT !.locked = FALSE, !.after = last,
                                !.running = Cardinality(page) = PageSize]
    BY <1>7 DEF StepPage
  <2>2. job.gen \in Nat /\ last \in Nat
    BY OutboxAssumption DEF TypeOK, Records
  <2>3. row' \in [Events -> Row]
    BY <2>1, <2>2, <1>a, RewrittenRow
  <2>4. \A b \in BOOLEAN : [job EXCEPT !.locked = FALSE, !.after = last, !.running = b]
               \in [running : BOOLEAN, after : Nat, locked : BOOLEAN, gen : Nat]
    BY <2>2 DEF TypeOK
  <2>5. (Cardinality(page) = PageSize) \in BOOLEAN
    OBVIOUS
  <2>6. job' \in [running : BOOLEAN, after : Nat, locked : BOOLEAN, gen : Nat]
    BY <2>1, <2>4, <2>5, Zenon
  <2> QED
    BY <1>7, <2>3, <2>6 DEF StepPage, TypeOK
<1>8. CASE OperatorNext
  <2>1. CASE Retry
    <3>1. row' \in [Events -> Row]
      BY <2>1, <1>a, RewrittenRow DEF Retry
    <3> QED
      BY <2>1, <3>1 DEF Retry, Operator, TypeOK
  <2>2. CASE Reconcile \/ Cancel
    <3>1. job' \in Job
      BY <2>2, <1>h, <1>i DEF Reconcile, Cancel
    <3> QED
      BY <2>2, <3>1 DEF Reconcile, Cancel, Operator, TypeOK, Job
  <2>3. CASE FencePlacement
    <3>1. job' \in Job
      BY <2>3, <1>h, <1>i DEF FencePlacement
    <3>2. space' \in [lifecycle : Lifecycles, policy : Nat \ {0}, placement : Nat \ {0}]
      BY <2>3 DEF FencePlacement, TypeOK
    <3> QED
      BY <2>3, <3>1, <3>2 DEF FencePlacement, TypeOK, Job
  <2>4. CASE ChangePolicy
    <3>1. space' \in [lifecycle : Lifecycles, policy : Nat \ {0}, placement : Nat \ {0}]
      BY <2>4 DEF ChangePolicy, TypeOK
    <3> QED
      BY <2>4, <3>1 DEF ChangePolicy, Operator, TypeOK
  <2>5. ASSUME NEW l \in Lifecycles, ChangeLifecycle(l) PROVE TypeOK'
    <3> DEFINE Space == [lifecycle : Lifecycles, policy : Nat \ {0}, placement : Nat \ {0}]
    <3>1. \A n \in Nat \ {0} : [space EXCEPT !.lifecycle = l, !.policy = n] \in Space
      BY DEF TypeOK
    <3>2. space.policy + 1 \in Nat \ {0}
      BY DEF TypeOK
    <3>3. space' \in Space
      BY <2>5, <3>1, <3>2 DEF ChangeLifecycle
    <3> QED
      BY <2>5, <3>3 DEF ChangeLifecycle, Operator, TypeOK
  <2> QED
    BY <1>8, <2>1, <2>2, <2>3, <2>4, <2>5 DEF OperatorNext
<1>9. CASE UNCHANGED vars
  BY <1>9 DEF vars, TypeOK
<1> QED
  BY <1>1, <1>2, <1>3, <1>4, <1>5, <1>6, <1>7, <1>8, <1>9 DEF Next

----------------------------------------------------------------------------
(* Leases *)

(* What one step may do to a row. *)
RowAdded(e)        == /\ row[e].state = "absent" /\ row'[e].state # "absent"
                      /\ e[2] <= rev'[e[1]]

RowStep(e) == \/ SameLease(row[e], row'[e]) \/ LeaseLeft(row[e], row'[e])
              \/ LeaseTaken(row[e], row'[e]) \/ LeaseStarted(row[e], row'[e])
              \/ RowAdded(e)

(* A row's lease only changes under a completion that ends with the step. *)
Undisturbed(e) ==
    \/ SameLease(row[e], row'[e])
    \/ \A w \in Workers : worker[w].pc = "locked" /\ worker[w].ev = e => worker'[w] = Idle

LEMMA SameRow ==
    ASSUME NEW e \in Events, row'[e] = row[e] PROVE RowStep(e) /\ Undisturbed(e)
  BY DEF RowStep, Undisturbed, SameLease

LEMMA RowSteps ==
    ASSUME TypeOK, LeaseInv, [Next]_vars, NEW e \in Events
    PROVE  RowStep(e) /\ Undisturbed(e)
<1>a. row[e] \in Row /\ row \in [Events -> Row]
  BY DEF TypeOK
<1>b. \A w \in Workers : worker[w] \in Delivery /\ worker[w].ev \in Events
                        /\ worker[w].attempt \in Nat /\ worker[w].placement \in Nat
  BY DEF TypeOK, Delivery
<1>c. \A h \in hints : h.ev \in Events
  BY DEF TypeOK, Hint
<1>e. row[e].attempts \in Nat /\ job.gen \in Nat
  BY <1>a DEF TypeOK, Row
<1>d. ~RowLocked(e) => Undisturbed(e)
  BY DEF RowLocked, Undisturbed
<1>1. ASSUME NEW r \in Records, Write(r) PROVE RowStep(e) /\ Undisturbed(e)
  <2>1. CASE e = <<r, rev[r] + 1>>
    <3>1. rev[r] \in Nat /\ space.placement \in Nat
      BY OutboxAssumption DEF TypeOK
    <3>2. row[e].state = "absent"
      BY <2>1, <3>1 DEF LeaseInv, RowsCommitted
    <3>3. row'[e] = Committed(space.placement) /\ row'[e].state = "pending"
      BY <1>1, <1>a, <2>1, <3>1, RewrittenRow DEF Write
    <3>4. rev'[r] = rev[r] + 1
      BY <1>1 DEF Write, TypeOK
    <3>5. RowStep(e)
      BY <2>1, <3>1, <3>2, <3>3, <3>4 DEF RowStep, RowAdded
    <3>6. ~RowLocked(e)
      BY <3>2 DEF RowLocked, LeaseInv, LeaseHeld
    <3> QED
      BY <3>5, <3>6, <1>d
  <2>2. CASE e # <<r, rev[r] + 1>>
    BY <1>1, <1>a, <2>2, SameRow DEF Write
  <2> QED
    BY <2>1, <2>2
<1>2. ASSUME NEW d \in Dispatchers, DispatcherNext(d) PROVE RowStep(e) /\ Undisturbed(e)
  <2>1. CASE Claim(d)
    <3>1. PICK S \in SUBSET {x \in Events : Due(x) /\ ~RowLocked(x)} :
            row' = [x \in Events |-> IF x \in S THEN Claimed(row[x], FALSE) ELSE row[x]]
      BY <2>1 DEF Claim
    <3>2. CASE e \in S
      <4>1. row[e].state # "absent" /\ ~RowLocked(e)
        BY <3>2 DEF Due, Live
      <4>2. row'[e] = Claimed(row[e], FALSE)
        BY <3>1, <3>2
      <4>3. LeaseTaken(row[e], row'[e])
        BY <1>a, <4>1, <4>2, ClaimedRow DEF LeaseTaken
      <4> QED
        BY <4>1, <4>3, <1>d DEF RowStep
    <3>3. CASE e \notin S
      BY <3>1, <3>3, SameRow
    <3> QED
      BY <3>2, <3>3
  <2>2. CASE Send(d) \/ SendFails(d) \/ DispatcherStops(d)
    BY <2>2, SameRow DEF Send, SendFails, DispatcherStops
  <2>3. CASE Unsend(d)
    <3>1. CASE \E h \in dispatcher[d].batch : h.ev = e
      <4> DEFINE a == (CHOOSE h \in dispatcher[d].batch : h.ev = e).attempt
      <4>1. a \in Nat
        BY <3>1 DEF TypeOK, Hint
      <4>2. row'[e] = Released(row[e], a, FALSE, "now")
        BY <2>3, <3>1 DEF Unsend
      <4> HIDE DEF a
      <4>3. row'[e] = row[e] \/ LeaseLeft(row[e], row'[e])
        BY <1>a, <4>1, <4>2, ReleasedRow DEF Availability
      <4>4. ~RowLocked(e)
        BY <2>3, <3>1 DEF Unsend
      <4> QED
        BY <4>3, <4>4, <1>d, SameRow DEF RowStep
    <3>2. CASE ~\E h \in dispatcher[d].batch : h.ev = e
      BY <2>3, <3>2, SameRow DEF Unsend
    <3> QED
      BY <3>1, <3>2
  <2> QED
    BY <1>2, <2>1, <2>2, <2>3 DEF DispatcherNext
<1>3. ASSUME NEW w \in Workers, WorkerNext(w) PROVE RowStep(e) /\ Undisturbed(e)
  <2>1. ASSUME NEW h \in hints, StartClosed(w, h) PROVE RowStep(e) /\ Undisturbed(e)
    <3>1. CASE e = h.ev
      <4>1. row'[e] = Released(row[e], row[e].attempts, FALSE, "now") /\ ~RowLocked(e)
        BY <2>1, <3>1, <1>a DEF StartClosed
      <4>2. row'[e] = row[e] \/ LeaseLeft(row[e], row'[e])
        BY <1>a, <1>e, <4>1, ReleasedRow DEF Availability
      <4> QED
        BY <4>1, <4>2, <1>d, SameRow DEF RowStep
    <3>2. CASE e # h.ev
      BY <2>1, <3>2, <1>a, <1>c, SameRow DEF StartClosed
    <3> QED
      BY <3>1, <3>2
  <2>2. ASSUME NEW h \in hints, Start(w, h) PROVE RowStep(e) /\ Undisturbed(e)
    <3>1. CASE e = h.ev
      <4>1. row'[e] = Started(row[e]) /\ ~RowLocked(e) /\ row[e].state = "delivering"
        BY <2>2, <3>1, <1>a DEF Start, CanStart
      <4>2. LeaseStarted(row[e], row'[e])
        BY <1>a, <4>1, RewrittenRow DEF LeaseStarted
      <4> QED
        BY <4>1, <4>2, <1>d DEF RowStep
    <3>2. CASE e # h.ev
      BY <2>2, <3>2, <1>a, <1>c, SameRow DEF Start
    <3> QED
      BY <3>1, <3>2
  <2>3. ASSUME NEW x \in Events, ClaimOutbox(w, x) PROVE RowStep(e) /\ Undisturbed(e)
    <3>1. row' = [row EXCEPT ![x] = Claimed(row[x], TRUE)] /\ Due(x) /\ ~RowLocked(x)
      BY <2>3 DEF ClaimOutbox
    <3>2. CASE e = x
      <4>1. row'[e] = Claimed(row[e], TRUE) /\ row[e].state # "absent"
        BY <1>a, <3>1, <3>2 DEF Due, Live
      <4>2. LeaseTaken(row[e], row'[e])
        BY <1>a, <4>1, ClaimedRow DEF LeaseTaken
      <4> QED
        BY <3>1, <3>2, <4>2, <1>d DEF RowStep
    <3>3. CASE e # x
      BY <3>1, <3>3, <1>a, SameRow
    <3> QED
      BY <3>2, <3>3
  <2>4. CASE Denied(w) \/ LockLease(w) \/ InfrastructureFault(w) \/ ItemFault(w) \/ Crash(w)
    BY <2>4, SameRow DEF Denied, LockLease, InfrastructureFault, ItemFault, Crash
  <2>5. CASE Requeue(w) \/ Complete(w)
    <3>1. CASE e = worker[w].ev
      <4>1. \/ row'[e] = Requeued(row[e], worker[w].placement)
            \/ row'[e] = Completed(row[e])
        BY <2>5, <3>1, <1>a DEF Requeue, Complete
      <4>2. row[e].state = "delivering" /\ worker[w].pc = "locked"
        BY <2>5, <3>1 DEF Requeue, Complete, LeaseInv, LeaseHeld
      <4>3. LeaseLeft(row[e], row'[e])
        BY <1>a, <1>b, <4>1, <4>2, RewrittenRow DEF LeaseLeft
      <4>4. \A v \in Workers : worker[v].pc = "locked" /\ worker[v].ev = e => v = w
        BY <3>1, <4>2 DEF LeaseInv, LeaseHeld, OneWorkerPerLease
      <4>5. worker'[w] = Idle
        BY <2>5 DEF Requeue, Complete, TypeOK
      <4> QED
        BY <4>3, <4>4, <4>5 DEF RowStep, Undisturbed
    <3>2. CASE e # worker[w].ev
      BY <2>5, <3>2, <1>a, <1>b, SameRow DEF Requeue, Complete
    <3> QED
      BY <3>1, <3>2
  <2>6. CASE FailLease(w) \/ ReleaseLease(w)
    <3>1. CASE e = worker[w].ev
      <4>1. /\ ~RowLocked(e)
            /\ \/ row'[e] = Failed(row[e], worker[w])
               \/ row'[e] = Released(row[e], worker[w].attempt, TRUE, "later")
        BY <2>6, <3>1, <1>a DEF FailLease, ReleaseLease
      <4>2. Failed(row[e], worker[w]) = row[e] \/ LeaseLeft(row[e], Failed(row[e], worker[w]))
        BY <1>a, <1>b, FailedRow
      <4>3. LET y == Released(row[e], worker[w].attempt, TRUE, "later")
            IN  y = row[e] \/ LeaseLeft(row[e], y)
        BY <1>a, <1>b, ReleasedRow DEF Availability
      <4> QED
        BY <4>1, <4>2, <4>3, <1>d, SameRow DEF RowStep
    <3>2. CASE e # worker[w].ev
      BY <2>6, <3>2, <1>a, <1>b, SameRow DEF FailLease, ReleaseLease
    <3> QED
      BY <3>1, <3>2
  <2> QED
    BY <1>3, <2>1, <2>2, <2>3, <2>4, <2>5, <2>6 DEF WorkerNext
<1>4. ASSUME NEW h \in hints, Lost(h) \/ LoseHint(h) PROVE RowStep(e) /\ Undisturbed(e)
  BY <1>4, SameRow DEF Lost, LoseHint
<1>5. ASSUME NEW x \in Events, Elapse(x) PROVE RowStep(e) /\ Undisturbed(e)
  <2>1. SameLease(row[e], row'[e])
    BY <1>5, <1>a DEF Elapse, SameLease, Row
  <2> QED
    BY <2>1 DEF RowStep, Undisturbed
<1>6. CASE StepPage
  <2>1. PICK page \in SUBSET Unscanned :
          row' = [x \in Events |->
                    IF x[1] \in page /\ x[2] = rev[x[1]] /\ StaleUnder(x[1], job.gen)
                    THEN Repaired(row[x], job.gen)
                    ELSE row[x]]
    BY <1>6 DEF StepPage
  <2>2. CASE e[1] \in page /\ e[2] = rev[e[1]] /\ StaleUnder(e[1], job.gen)
    <3>1. row'[e] = Repaired(row[e], job.gen)
      BY <2>1, <2>2
    <3>2. row[e].state = "delivered"
      BY <2>2 DEF StaleUnder, Events
    <3>a. /\ Repaired(row[e], job.gen).state = "pending"
          /\ Repaired(row[e], job.gen).attempts = row[e].attempts
      BY <1>a, <1>e, RewrittenRow
    <3>3. LeaseLeft(row[e], row'[e])
      BY <3>a, <3>1, <3>2 DEF LeaseLeft
    <3>4. ~RowLocked(e)
      BY <3>2 DEF RowLocked, LeaseInv, LeaseHeld
    <3> QED
      BY <3>3, <3>4, <1>d DEF RowStep
  <2>3. CASE ~(e[1] \in page /\ e[2] = rev[e[1]] /\ StaleUnder(e[1], job.gen))
    BY <2>1, <2>3, SameRow
  <2> QED
    BY <2>2, <2>3
<1>7. CASE Retry
  <2>1. CASE DeadLetter(e)
    <3>1. row'[e] = Retried(row[e]) /\ row[e].state = "degraded"
      BY <1>7, <2>1 DEF Retry, DeadLetter
    <3>2. LeaseLeft(row[e], row'[e])
      BY <1>a, <3>1, RewrittenRow DEF LeaseLeft
    <3>3. ~RowLocked(e)
      BY <3>1 DEF RowLocked, LeaseInv, LeaseHeld
    <3> QED
      BY <3>2, <3>3, <1>d DEF RowStep
  <2>2. CASE ~DeadLetter(e)
    BY <1>7, <2>2, SameRow DEF Retry
  <2> QED
    BY <2>1, <2>2
<1>8. CASE \/ StepLock \/ StepAborts \/ Reconcile \/ Cancel \/ FencePlacement \/ ChangePolicy
           \/ \E l \in Lifecycles : ChangeLifecycle(l)
  BY <1>8, SameRow DEF StepLock, StepAborts, Reconcile, Cancel, FencePlacement, ChangePolicy,
     ChangeLifecycle
<1>9. CASE UNCHANGED vars
  BY <1>9, SameRow DEF vars
<1> QED
  BY <1>1, <1>2, <1>3, <1>4, <1>5, <1>6, <1>7, <1>8, <1>9 DEF Next, OperatorNext

(* What one step may do to a worker. *)
SameDelivery(d, b) == b.ev = d.ev /\ b.attempt = d.attempt /\ b.gen = d.gen

Ends(w)   == /\ worker[w].pc # "idle" /\ worker'[w].pc \in {"release", "fail"}
             /\ SameDelivery(worker[w], worker'[w])
Locks(w)  == /\ worker[w].pc # "idle" /\ worker'[w].pc = "locked"
             /\ SameDelivery(worker[w], worker'[w])
             /\ worker'[w].policy = worker[w].policy
             /\ worker'[w].placement = worker[w].placement
             /\ worker'[w].latest = rev[worker[w].ev[1]]
             /\ HoldsLease(worker[w]) /\ InScope(worker[w])
             /\ UNCHANGED <<rev, row, head, space>>
Begins(w) == /\ worker[w].pc = "idle" /\ worker'[w].pc = "started"
             /\ \A v \in Workers \ {w} : worker'[v] = worker[v]
             /\ LET e == worker'[w].ev
                    a == worker'[w].attempt
                IN  /\ row'[e].state = "delivering" /\ row'[e].attempts = a /\ row'[e].started = a
                    /\ \/ row[e].attempts < a
                       \/ row[e].state = "delivering" /\ row[e].started # a

WorkerStep(w) == worker'[w] = worker[w] \/ worker'[w] = Idle \/ Ends(w) \/ Locks(w) \/ Begins(w)

LEMMA WorkerSteps ==
    ASSUME TypeOK, [Next]_vars, NEW w \in Workers
    PROVE  WorkerStep(w)
<1>a. worker \in [Workers -> Delivery] /\ worker[w] \in Delivery /\ row \in [Events -> Row]
  BY DEF TypeOK
<1>1. ASSUME worker' = worker PROVE WorkerStep(w)
  BY <1>1 DEF WorkerStep
<1>2. ASSUME NEW v \in Workers, WorkerNext(v) PROVE WorkerStep(w)
  <2>1. ASSUME NEW h \in hints, Start(v, h) PROVE WorkerStep(w)
    <3>1. CASE v = w
      <4> DEFINE e == h.ev
      <4>1. e \in Events /\ row[e] \in Row
        BY <1>a DEF TypeOK, Hint
      <4>2. /\ worker' = [worker EXCEPT ![w] =
                    [pc |-> "started", ev |-> e, attempt |-> row[e].attempts,
                     gen |-> row[e].gen, policy |-> space.policy,
                     placement |-> space.placement, latest |-> 0]]
            /\ worker[w].pc = "idle" /\ row[e].state = "delivering"
            /\ row[e].started # row[e].attempts /\ row' = [row EXCEPT ![e] = Started(row[e])]
        BY <2>1, <3>1 DEF Start, CanStart
      <4> HIDE DEF e
      <4>3. /\ worker'[w].pc = "started" /\ worker'[w].ev = e
            /\ worker'[w].attempt = row[e].attempts
            /\ \A u \in Workers \ {w} : worker'[u] = worker[u]
        BY <1>a, <4>2
      <4>4. row'[e].state = "delivering" /\ row'[e].attempts = row[e].attempts
            /\ row'[e].started = row[e].attempts
        BY <1>a, <4>1, <4>2, RewrittenRow
      <4> QED
        BY <4>2, <4>3, <4>4 DEF WorkerStep, Begins
    <3>2. CASE v # w
      BY <1>a, <2>1, <3>2 DEF Start, WorkerStep
    <3> QED
      BY <3>1, <3>2
  <2>2. ASSUME NEW e \in Events, ClaimOutbox(v, e) PROVE WorkerStep(w)
    <3> DEFINE leased == Claimed(row[e], TRUE)
    <3>1. CASE v = w /\ leased.state = "delivering"
      <4>1. /\ worker' = [worker EXCEPT ![w] =
                    [pc |-> "started", ev |-> e, attempt |-> leased.attempts,
                     gen |-> leased.gen, policy |-> space.policy,
                     placement |-> space.placement, latest |-> 0]]
            /\ worker[w].pc = "idle" /\ row' = [row EXCEPT ![e] = leased]
        BY <2>2, <3>1 DEF ClaimOutbox
      <4>2. row[e] \in Row /\ leased.attempts = row[e].attempts + 1
            /\ leased.started = leased.attempts
        BY <1>a, ClaimedRow
      <4>4. row'[e] = leased
        BY <1>a, <4>1
      <4> HIDE DEF leased
      <4>3. row[e].attempts < leased.attempts
        <5>1. row[e].attempts \in Nat
          BY <4>2 DEF Row
        <5> QED
          BY <4>2, <5>1
      <4>5. /\ worker'[w].pc = "started" /\ worker'[w].ev = e
            /\ worker'[w].attempt = leased.attempts
            /\ \A u \in Workers \ {w} : worker'[u] = worker[u]
        BY <1>a, <4>1
      <4> QED
        BY <3>1, <4>1, <4>2, <4>3, <4>4, <4>5 DEF WorkerStep, Begins
    <3>2. CASE ~(v = w /\ leased.state = "delivering")
      BY <1>a, <2>2, <3>2 DEF ClaimOutbox, WorkerStep
    <3> QED
      BY <3>1, <3>2
  <2>3. CASE LockLease(v)
    <3>1. CASE v = w /\ HoldsLease(worker[w])
      <4>1. /\ worker'[w] = [worker[w] EXCEPT !.pc = "locked", !.latest = rev[worker[w].ev[1]]]
            /\ worker[w].pc = "started" /\ InScope(worker[w])
            /\ UNCHANGED <<rev, row, head, space>>
        BY <1>a, <2>3, <3>1 DEF LockLease
      <4>2. /\ worker'[w].pc = "locked" /\ SameDelivery(worker[w], worker'[w])
            /\ worker'[w].policy = worker[w].policy
            /\ worker'[w].placement = worker[w].placement
            /\ worker'[w].latest = rev[worker[w].ev[1]]
        BY <1>a, <4>1 DEF SameDelivery, Delivery
      <4> QED
        BY <3>1, <4>1, <4>2 DEF WorkerStep, Locks
    <3>2. CASE ~(v = w /\ HoldsLease(worker[w]))
      BY <1>a, <2>3, <3>2 DEF LockLease, WorkerStep
    <3> QED
      BY <3>1, <3>2
  <2>4. CASE Denied(v) \/ InfrastructureFault(v) \/ ItemFault(v)
    <3>1. CASE v = w
      <4>1. /\ \/ worker'[w] = [worker[w] EXCEPT !.pc = "release"]
               \/ worker'[w] = [worker[w] EXCEPT !.pc = "fail"]
            /\ worker[w].pc # "idle"
        BY <1>a, <2>4, <3>1 DEF Denied, InfrastructureFault, ItemFault
      <4>2. ASSUME NEW s \in {"release", "fail"}
            PROVE  LET b == [worker[w] EXCEPT !.pc = s] IN
                   b.pc = s /\ b.ev = worker[w].ev /\ b.attempt = worker[w].attempt
                   /\ b.gen = worker[w].gen
        BY <1>a DEF Delivery
      <4> QED
        BY <4>1, <4>2 DEF WorkerStep, Ends, SameDelivery
    <3>2. CASE v # w
      BY <1>a, <2>4, <3>2 DEF Denied, InfrastructureFault, ItemFault, WorkerStep
    <3> QED
      BY <3>1, <3>2
  <2>5. CASE Requeue(v) \/ Complete(v) \/ FailLease(v) \/ ReleaseLease(v) \/ Crash(v)
    BY <1>a, <2>5 DEF Requeue, Complete, FailLease, ReleaseLease, Crash, WorkerStep
  <2>6. ASSUME NEW h \in hints, StartClosed(v, h) PROVE WorkerStep(w)
    BY <1>1, <2>6 DEF StartClosed
  <2> QED
    BY <1>2, <2>1, <2>2, <2>3, <2>4, <2>5, <2>6 DEF WorkerNext
<1>3. ASSUME NEW d \in Dispatchers, DispatcherNext(d) PROVE worker' = worker
  BY <1>3 DEF DispatcherNext, Claim, Send, SendFails, Unsend, DispatcherStops
<1>4. ASSUME NEW h \in hints, Lost(h) \/ LoseHint(h) PROVE worker' = worker
  BY <1>4 DEF Lost, LoseHint
<1>5. ASSUME \/ \E r \in Records : Write(r)
             \/ \E e \in Events : Elapse(e)
             \/ StepLock \/ StepPage \/ StepAborts \/ UNCHANGED vars
      PROVE worker' = worker
  BY <1>5 DEF Write, Elapse, StepLock, StepPage, StepAborts, vars
<1>6. ASSUME OperatorNext PROVE worker' = worker
  BY <1>6 DEF OperatorNext, Retry, Reconcile, Cancel, FencePlacement, ChangePolicy, ChangeLifecycle
<1> QED
  BY <1>1, <1>2, <1>3, <1>4, <1>5, <1>6 DEF Next

(* The only steps that change a revision, a head or the space, and the only
   ones that change the reconciliation. *)
LEMMA ScopeSteps ==
    ASSUME [Next]_vars
    PROVE  \/ UNCHANGED <<rev, head, space>>
           \/ \E r \in Records : Write(r)
           \/ \E w \in Workers : Complete(w)
           \/ FencePlacement \/ ChangePolicy \/ \E l \in Lifecycles : ChangeLifecycle(l)
<1>1. CASE \E d \in Dispatchers : DispatcherNext(d)
  BY <1>1 DEF DispatcherNext, Claim, Send, SendFails, Unsend, DispatcherStops
<1>2. CASE \E w \in Workers : WorkerNext(w)
  BY <1>2 DEF WorkerNext, StartClosed, Start, ClaimOutbox, Denied, LockLease, Requeue,
     ItemFault, FailLease, InfrastructureFault, ReleaseLease, Crash
<1>3. CASE \E h \in hints : Lost(h) \/ LoseHint(h)
  BY <1>3 DEF Lost, LoseHint
<1>4. CASE \/ \E e \in Events : Elapse(e)
           \/ StepLock \/ StepPage \/ StepAborts \/ UNCHANGED vars
  BY <1>4 DEF Elapse, StepLock, StepPage, StepAborts, vars
<1>5. CASE OperatorNext
  BY <1>5 DEF OperatorNext, Retry, Reconcile, Cancel
<1> QED
  BY <1>1, <1>2, <1>3, <1>4, <1>5 DEF Next

LEMMA JobSteps ==
    ASSUME [Next]_vars
    PROVE  \/ UNCHANGED <<job, uncovered>>
           \/ StepLock \/ StepPage \/ StepAborts \/ Reconcile \/ Cancel \/ FencePlacement
<1>1. CASE \E d \in Dispatchers : DispatcherNext(d)
  BY <1>1 DEF DispatcherNext, Claim, Send, SendFails, Unsend, DispatcherStops
<1>2. CASE \E w \in Workers : WorkerNext(w)
  BY <1>2 DEF WorkerNext, StartClosed, Start, ClaimOutbox, Denied, LockLease, Requeue, Complete,
     ItemFault, FailLease, InfrastructureFault, ReleaseLease, Crash
<1>3. CASE \E h \in hints : Lost(h) \/ LoseHint(h)
  BY <1>3 DEF Lost, LoseHint
<1>4. CASE \/ \E r \in Records : Write(r)
           \/ \E e \in Events : Elapse(e)
           \/ UNCHANGED vars
  BY <1>4 DEF Write, Elapse, vars
<1>5. CASE OperatorNext
  BY <1>5 DEF OperatorNext, Retry, ChangePolicy, ChangeLifecycle
<1> QED
  BY <1>1, <1>2, <1>3, <1>4, <1>5 DEF Next

(* Revisions only grow. *)
LEMMA RevisionsGrow ==
    ASSUME TypeOK, [Next]_vars, NEW r \in Records PROVE rev[r] <= rev'[r]
<1>1. rev[r] \in Nat
  BY OutboxAssumption DEF TypeOK
<1>2. CASE \E q \in Records : Write(q)
  BY <1>1, <1>2 DEF Write, TypeOK
<1>3. CASE rev' = rev
  BY <1>1, <1>3
<1> QED
  BY <1>2, <1>3, ScopeSteps DEF Complete, FencePlacement, ChangePolicy, ChangeLifecycle

LEMMA LeaseInit == Init => LeaseInv
  BY DEF Init, LeaseInv, RowsCommitted, LeaseFenced, LeaseHeld, OneWorkerPerLease, NoRow, Idle

LEMMA LeaseNext == TypeOK /\ LeaseInv /\ [Next]_vars => LeaseInv'
<1> SUFFICES ASSUME TypeOK, LeaseInv, [Next]_vars PROVE LeaseInv'
  OBVIOUS
<1>a. \A w \in Workers : worker[w] \in Delivery /\ worker[w].ev \in Events
                        /\ worker[w].attempt \in Nat
  BY DEF TypeOK, Delivery
<1>b. \A e \in Events : row[e].attempts \in Nat /\ row'[e].attempts \in Nat
  <2>1. TypeOK'
    BY TypeNext
  <2> QED
    BY <2>1 DEF TypeOK, Row
<1>c. \A e \in Events : e[1] \in Records /\ e[2] \in Nat
  BY DEF Events, Revisions
<1>d. \A r \in Records : rev[r] \in Nat /\ rev'[r] \in Nat /\ rev[r] <= rev'[r]
  <2>1. TypeOK'
    BY TypeNext
  <2> QED
    BY <2>1, RevisionsGrow, OutboxAssumption DEF TypeOK
<1>e. \A e \in Events : RowStep(e) /\ Undisturbed(e)
  BY RowSteps
<1>f. \A w \in Workers : WorkerStep(w)
  BY WorkerSteps
<1>g. Idle.pc = "idle"
  BY DEF Idle
<1>1. RowsCommitted'
  <2> SUFFICES ASSUME NEW e \in Events, row'[e].state # "absent" PROVE e[2] <= rev'[e[1]]
    BY DEF RowsCommitted
  <2>1. CASE RowAdded(e)
    BY <2>1 DEF RowAdded
  <2>2. CASE ~RowAdded(e)
    <3>1. row[e].state # "absent"
      BY <1>e, <2>2 DEF RowStep, SameLease, LeaseLeft, LeaseTaken, LeaseStarted
    <3>2. e[2] <= rev[e[1]]
      BY <3>1 DEF LeaseInv, RowsCommitted
    <3> QED
      BY <3>2, <1>c, <1>d
  <2> QED
    BY <2>1, <2>2
<1>2. LeaseFenced'
  <2> SUFFICES ASSUME NEW w \in Workers, worker'[w].pc # "idle"
               PROVE  LET x == row'[worker'[w].ev] IN
                      /\ x.state # "absent" /\ worker'[w].attempt <= x.attempts
                      /\ x.state = "delivering" /\ x.attempts = worker'[w].attempt
                            => x.started = x.attempts
    BY DEF LeaseFenced
  <2>1. CASE /\ worker[w].pc # "idle"
             /\ worker'[w].ev = worker[w].ev /\ worker'[w].attempt = worker[w].attempt
    <3> DEFINE e == worker[w].ev
    <3>1. /\ e \in Events /\ row[e].state # "absent" /\ worker[w].attempt <= row[e].attempts
          /\ row[e].state = "delivering" /\ row[e].attempts = worker[w].attempt
                => row[e].started = row[e].attempts
      BY <1>a, <2>1 DEF LeaseInv, LeaseFenced
    <3>2. /\ worker[w].attempt \in Nat /\ row[e].attempts \in Nat /\ row'[e].attempts \in Nat
          /\ RowStep(e)
      BY <1>a, <1>b, <1>e, <3>1
    <3> HIDE DEF e
    <3>3. /\ row'[e].state # "absent" /\ worker[w].attempt <= row'[e].attempts
          /\ row'[e].state = "delivering" /\ row'[e].attempts = worker[w].attempt
                => row'[e].started = row'[e].attempts
      BY <3>1, <3>2 DEF RowStep, SameLease, LeaseLeft, LeaseTaken, LeaseStarted, RowAdded
    <3> QED
      BY <2>1, <3>3 DEF e
  <2>2. CASE Begins(w)
    <3>1. /\ row'[worker'[w].ev].state = "delivering"
          /\ row'[worker'[w].ev].attempts = worker'[w].attempt
          /\ row'[worker'[w].ev].started = worker'[w].attempt
      BY <2>2 DEF Begins
    <3>2. worker'[w].attempt \in Nat
      BY TypeNext DEF TypeOK, Delivery
    <3> QED
      BY <3>1, <3>2
  <2> QED
    BY <1>f, <1>g, <2>1, <2>2 DEF WorkerStep, Ends, Locks, SameDelivery
<1>3. LeaseHeld'
  <2> SUFFICES ASSUME NEW w \in Workers, worker'[w].pc = "locked"
               PROVE  LET x == row'[worker'[w].ev] IN
                      /\ x.state = "delivering" /\ x.gen = worker'[w].gen
                      /\ x.attempts = worker'[w].attempt /\ x.started = x.attempts
    BY DEF LeaseHeld
  <2>1. CASE worker'[w] = worker[w]
    <3>1. Undisturbed(worker[w].ev)
      BY <1>a, <1>e
    <3>2. SameLease(row[worker[w].ev], row'[worker[w].ev])
      BY <2>1, <3>1, <1>g DEF Undisturbed
    <3> QED
      BY <2>1, <3>2 DEF LeaseInv, LeaseHeld, SameLease
  <2>2. CASE Locks(w)
    BY <2>2 DEF Locks, HoldsLease, SameDelivery, LeaseInv, LeaseFenced
  <2> QED
    BY <1>f, <1>g, <2>1, <2>2 DEF WorkerStep, Ends, Begins
<1>4. OneWorkerPerLease'
  <2>1. ASSUME NEW v \in Workers, NEW w \in Workers, v # w, Begins(v),
               worker'[w].pc # "idle", worker'[v].ev = worker'[w].ev,
               worker'[v].attempt = worker'[w].attempt
        PROVE  FALSE
    <3>1. worker'[w] = worker[w]
      BY <2>1 DEF Begins
    <3> DEFINE e == worker[w].ev
    <3>2. /\ row[e].state # "absent" /\ worker[w].attempt <= row[e].attempts
          /\ row[e].state = "delivering" /\ row[e].attempts = worker[w].attempt
                => row[e].started = row[e].attempts
      BY <2>1, <3>1 DEF LeaseInv, LeaseFenced
    <3>3. /\ row'[e].state = "delivering" /\ row'[e].attempts = worker[w].attempt
          /\ \/ row[e].attempts < worker[w].attempt
             \/ row[e].state = "delivering" /\ row[e].started # worker[w].attempt
      BY <2>1, <3>1 DEF Begins
    <3>4. e \in Events /\ worker[w].attempt \in Nat /\ row[e].attempts \in Nat /\ RowStep(e)
      BY <1>a, <1>b, <1>e
    <3> HIDE DEF e
    <3>5. row[e].attempts = worker[w].attempt
      BY <3>2, <3>3, <3>4 DEF RowStep, SameLease, LeaseLeft, LeaseTaken, LeaseStarted, RowAdded
    <3> QED
      BY <3>2, <3>3, <3>4, <3>5
  <2> SUFFICES ASSUME NEW v \in Workers, NEW w \in Workers,
                      worker'[v].pc # "idle", worker'[w].pc # "idle",
                      worker'[v].ev = worker'[w].ev, worker'[v].attempt = worker'[w].attempt,
                      v # w
               PROVE  FALSE
    BY DEF OneWorkerPerLease
  <2>2. ~Begins(v) /\ ~Begins(w)
    BY <2>1
  <2>3. ASSUME NEW u \in {v, w}
        PROVE  /\ worker[u].pc # "idle" /\ worker[u].ev = worker'[u].ev
               /\ worker[u].attempt = worker'[u].attempt
    BY <1>f, <1>g, <2>2 DEF WorkerStep, Ends, Locks, SameDelivery
  <2> QED
    BY <2>3 DEF LeaseInv, OneWorkerPerLease
<1> QED
  BY <1>1, <1>2, <1>3, <1>4 DEF LeaseInv

----------------------------------------------------------------------------
(* Budgets and the dispatch bound *)

(* The statements that rewrite a row, and the states they find it in. *)
RowClaimed(e)   == \E b \in BOOLEAN : /\ Due(e) /\ row'[e] = Claimed(row[e], b)
                                      /\ ~b => \E d \in Dispatchers : Claim(d)
RowReleased(e)  == \E a \in Nat, b \in BOOLEAN, t \in {"now", "later"} :
                       row'[e] = Released(row[e], a, b, t)
RowFailed(e)    == \E w \in Workers : /\ worker[w].pc = "fail" /\ worker[w].ev = e
                                      /\ row'[e] = Failed(row[e], worker[w])
RowDelivered(e) == /\ row[e].state = "delivering"
                   /\ \/ row'[e] = Started(row[e]) \/ row'[e] = Completed(row[e])
                      \/ \E g \in Nat : row'[e] = Requeued(row[e], g)
RowRenewed(e)   == \/ row[e].state = "absent" /\ \E g \in Nat : row'[e] = Committed(g)
                   \/ row[e].state = "delivered" /\ \E g \in Nat : row'[e] = Repaired(row[e], g)
                   \/ DeadLetter(e) /\ row'[e] = Retried(row[e])
RowElapsed(e)   == row[e].avail = "later" /\ row'[e] = [row[e] EXCEPT !.avail = "now"]

Rewritten(e) == \/ row'[e] = row[e] \/ RowClaimed(e) \/ RowReleased(e) \/ RowFailed(e)
                \/ RowDelivered(e) \/ RowRenewed(e) \/ RowElapsed(e)

LEMMA RowRewrites ==
    ASSUME TypeOK, LeaseInv, [Next]_vars, NEW e \in Events PROVE Rewritten(e)
<1>a. row[e] \in Row /\ row \in [Events -> Row] /\ row[e].attempts \in Nat
  BY DEF TypeOK, Row
<1>b. \A w \in Workers : /\ worker[w].ev \in Events /\ worker[w].attempt \in Nat
                         /\ worker[w].placement \in Nat
  BY DEF TypeOK, Delivery
<1>c. \A h \in hints : h.ev \in Events
  BY DEF TypeOK, Hint
<1>d. job.gen \in Nat /\ space.placement \in Nat
  BY DEF TypeOK
<1>1. ASSUME NEW r \in Records, Write(r) PROVE Rewritten(e)
  <2>1. rev[r] \in Nat
    BY OutboxAssumption DEF TypeOK
  <2>2. CASE e = <<r, rev[r] + 1>>
    <3>1. row[e].state = "absent"
      BY <2>1, <2>2 DEF LeaseInv, RowsCommitted
    <3>2. row'[e] = Committed(space.placement)
      BY <1>1, <1>a, <2>2 DEF Write
    <3> QED
      BY <3>1, <3>2, <1>d DEF Rewritten, RowRenewed
  <2>3. CASE e # <<r, rev[r] + 1>>
    BY <1>1, <1>a, <2>3 DEF Write, Rewritten
  <2> QED
    BY <2>2, <2>3
<1>2. ASSUME NEW d \in Dispatchers, DispatcherNext(d) PROVE Rewritten(e)
  <2>1. CASE Claim(d)
    <3>1. PICK S \in SUBSET {x \in Events : Due(x) /\ ~RowLocked(x)} :
            row' = [x \in Events |-> IF x \in S THEN Claimed(row[x], FALSE) ELSE row[x]]
      BY <2>1 DEF Claim
    <3>2. CASE e \in S
      <4>1. Due(e) /\ row'[e] = Claimed(row[e], FALSE)
        BY <3>1, <3>2
      <4> QED
        BY <2>1, <4>1 DEF Rewritten, RowClaimed
    <3>3. CASE e \notin S
      BY <3>1, <3>3 DEF Rewritten
    <3> QED
      BY <3>2, <3>3
  <2>2. CASE Send(d) \/ SendFails(d) \/ DispatcherStops(d)
    BY <2>2 DEF Send, SendFails, DispatcherStops, Rewritten
  <2>3. CASE Unsend(d)
    <3>1. CASE \E h \in dispatcher[d].batch : h.ev = e
      <4> DEFINE a == (CHOOSE h \in dispatcher[d].batch : h.ev = e).attempt
      <4>1. a \in Nat
        BY <3>1 DEF TypeOK, Hint
      <4>2. row'[e] = Released(row[e], a, FALSE, "now")
        BY <2>3, <3>1 DEF Unsend
      <4> HIDE DEF a
      <4> QED
        BY <4>1, <4>2 DEF Rewritten, RowReleased
    <3>2. CASE ~\E h \in dispatcher[d].batch : h.ev = e
      BY <2>3, <3>2 DEF Unsend, Rewritten
    <3> QED
      BY <3>1, <3>2
  <2> QED
    BY <1>2, <2>1, <2>2, <2>3 DEF DispatcherNext
<1>3. ASSUME NEW w \in Workers, WorkerNext(w) PROVE Rewritten(e)
  <2>1. ASSUME NEW h \in hints, StartClosed(w, h) PROVE Rewritten(e)
    <3>1. \/ row'[e] = row[e]
          \/ row'[e] = Released(row[e], row[e].attempts, FALSE, "now")
      BY <2>1, <1>a, <1>c DEF StartClosed
    <3> QED
      BY <3>1, <1>a DEF Rewritten, RowReleased
  <2>2. ASSUME NEW h \in hints, Start(w, h) PROVE Rewritten(e)
    <3>1. row'[e] = row[e] \/ (row[e].state = "delivering" /\ row'[e] = Started(row[e]))
      BY <2>2, <1>a, <1>c DEF Start, CanStart
    <3> QED
      BY <3>1 DEF Rewritten, RowDelivered
  <2>3. ASSUME NEW x \in Events, ClaimOutbox(w, x) PROVE Rewritten(e)
    <3>1. row' = [row EXCEPT ![x] = Claimed(row[x], TRUE)] /\ Due(x)
      BY <2>3 DEF ClaimOutbox
    <3>2. row'[e] = row[e] \/ (Due(e) /\ row'[e] = Claimed(row[e], TRUE))
      BY <3>1, <1>a
    <3> QED
      BY <3>2 DEF Rewritten, RowClaimed
  <2>4. CASE Denied(w) \/ LockLease(w) \/ InfrastructureFault(w) \/ ItemFault(w) \/ Crash(w)
    BY <2>4 DEF Denied, LockLease, InfrastructureFault, ItemFault, Crash, Rewritten
  <2>5. CASE Requeue(w) \/ Complete(w)
    <3>1. \/ row'[e] = row[e]
          \/ /\ row[e].state = "delivering"
             /\ row'[e] = Requeued(row[e], worker[w].placement) \/ row'[e] = Completed(row[e])
      BY <2>5, <1>a, <1>b DEF Requeue, Complete, LeaseInv, LeaseHeld
    <3> QED
      BY <3>1, <1>b DEF Rewritten, RowDelivered
  <2>6. CASE FailLease(w)
    <3>1. \/ row'[e] = row[e]
          \/ /\ worker[w].pc = "fail" /\ worker[w].ev = e
             /\ row'[e] = Failed(row[e], worker[w])
      BY <2>6, <1>a, <1>b DEF FailLease
    <3> QED
      BY <3>1 DEF Rewritten, RowFailed
  <2>7. CASE ReleaseLease(w)
    <3>1. \/ row'[e] = row[e]
          \/ row'[e] = Released(row[e], worker[w].attempt, TRUE, "later")
      BY <2>7, <1>a, <1>b DEF ReleaseLease
    <3> QED
      BY <3>1, <1>b DEF Rewritten, RowReleased
  <2> QED
    BY <1>3, <2>1, <2>2, <2>3, <2>4, <2>5, <2>6, <2>7 DEF WorkerNext
<1>4. ASSUME NEW h \in hints, Lost(h) \/ LoseHint(h) PROVE Rewritten(e)
  BY <1>4 DEF Lost, LoseHint, Rewritten
<1>5. ASSUME NEW x \in Events, Elapse(x) PROVE Rewritten(e)
  <2>1. \/ row'[e] = row[e]
        \/ row[e].avail = "later" /\ row'[e] = [row[e] EXCEPT !.avail = "now"]
    BY <1>5, <1>a DEF Elapse
  <2> QED
    BY <2>1 DEF Rewritten, RowElapsed
<1>6. CASE StepPage
  <2>1. PICK page \in SUBSET Unscanned :
          row' = [x \in Events |->
                    IF x[1] \in page /\ x[2] = rev[x[1]] /\ StaleUnder(x[1], job.gen)
                    THEN Repaired(row[x], job.gen)
                    ELSE row[x]]
    BY <1>6 DEF StepPage
  <2>2. CASE e[1] \in page /\ e[2] = rev[e[1]] /\ StaleUnder(e[1], job.gen)
    <3>1. row'[e] = Repaired(row[e], job.gen) /\ row[e].state = "delivered"
      BY <2>1, <2>2 DEF StaleUnder, Events
    <3> QED
      BY <3>1, <1>d DEF Rewritten, RowRenewed
  <2>3. CASE ~(e[1] \in page /\ e[2] = rev[e[1]] /\ StaleUnder(e[1], job.gen))
    BY <2>1, <2>3 DEF Rewritten
  <2> QED
    BY <2>2, <2>3
<1>7. CASE Retry
  BY <1>7 DEF Retry, Rewritten, RowRenewed
<1>8. CASE \/ StepLock \/ StepAborts \/ Reconcile \/ Cancel \/ FencePlacement \/ ChangePolicy
           \/ \E l \in Lifecycles : ChangeLifecycle(l)
  <2>1. row' = row
    <3>1. CASE StepLock \/ StepAborts
      BY <3>1 DEF StepLock, StepAborts
    <3>2. CASE Reconcile \/ Cancel
      BY <3>2 DEF Reconcile, Cancel
    <3>3. CASE FencePlacement \/ ChangePolicy
      BY <3>3 DEF FencePlacement, ChangePolicy
    <3>4. CASE \E l \in Lifecycles : ChangeLifecycle(l)
      BY <3>4 DEF ChangeLifecycle
    <3> QED
      BY <1>8, <3>1, <3>2, <3>3, <3>4
  <2> QED
    BY <2>1 DEF Rewritten
<1>9. CASE UNCHANGED vars
  BY <1>9 DEF vars, Rewritten
<1> QED
  BY <1>1, <1>2, <1>3, <1>4, <1>5, <1>6, <1>7, <1>8, <1>9 DEF Next, OperatorNext

(* What holds of every row: it is parked at its budget and only there, and a
   leased one is not parked and has been attempted. *)
Budgeted(x) ==
    /\ x.state # "absent" => (x.avail = "never" <=> x.failures >= MaxFailures)
    /\ x.state = "delivering" => x.avail # "never" /\ x.attempts > 0

BudgetInv == \A e \in Events : Budgeted(row[e])

LEMMA BudgetInit == Init => BudgetInv
  BY DEF Init, BudgetInv, Budgeted, NoRow

LEMMA BudgetStep ==
    ASSUME TypeOK, NEW e \in Events, Budgeted(row[e]), Rewritten(e)
    PROVE  Budgeted(row'[e])
<1> DEFINE x == row[e]
<1>a. /\ x \in Row /\ x.state \in RowStates /\ x.failures \in Nat /\ x.attempts \in Nat
      /\ x.avail \in Availability /\ MaxFailures \in Nat \ {0}
  BY OutboxAssumption DEF TypeOK, Row
<1>b. Budgeted(x)
  OBVIOUS
<1> HIDE DEF x
<1>1. CASE row'[e] = x
  BY <1>1, <1>b
<1>2. ASSUME NEW b \in BOOLEAN, row'[e] = Claimed(x, b) PROVE Budgeted(row'[e])
  BY <1>2, <1>a DEF Claimed, Expired, Budgeted
<1>3. ASSUME NEW a \in Nat, NEW b \in BOOLEAN, NEW t \in {"now", "later"},
             row'[e] = Released(x, a, b, t)
      PROVE  Budgeted(row'[e])
  <2>1. CASE row'[e] = x
    BY <2>1, <1>b
  <2>2. CASE row'[e] # x
    <3>1. x.state = "delivering"
      BY <1>3, <2>2 DEF Released
    <3>2. /\ row'[e].state \in {"pending", "degraded"} /\ row'[e].avail = t
          /\ row'[e].failures = x.failures
      BY <1>3, <2>2, <1>a DEF Released, Returned, Row
    <3> QED
      BY <3>1, <3>2, <1>b DEF Budgeted
  <2> QED
    BY <2>1, <2>2
<1>4. ASSUME NEW w \in Workers, row'[e] = Failed(x, worker[w]) PROVE Budgeted(row'[e])
  BY <1>4, <1>a, <1>b DEF Failed, Budgeted
<1>5. CASE x.state = "delivering" /\ row'[e] = Started(x)
  BY <1>5, <1>a, <1>b DEF Started, Budgeted, Row
<1>6. CASE x.state = "delivering" /\ row'[e] = Completed(x)
  BY <1>6, <1>a, <1>b DEF Completed, Budgeted, Row
<1>7. ASSUME NEW g \in Nat, x.state = "delivering", row'[e] = Requeued(x, g)
      PROVE  Budgeted(row'[e])
  BY <1>7, <1>a, <1>b DEF Requeued, Budgeted, Row
<1>8. ASSUME NEW g \in Nat, row'[e] = Committed(g) PROVE Budgeted(row'[e])
  BY <1>8, <1>a DEF Committed, NoRow, Budgeted
<1>9. ASSUME NEW g \in Nat, row'[e] = Repaired(x, g) PROVE Budgeted(row'[e])
  <2>1. Requeued(x, g) \in Row /\ Requeued(x, g).state = "pending" /\ Requeued(x, g).avail = "now"
    BY <1>a DEF Requeued, Row, RowStates, Availability
  <2>2. row'[e].state = "pending" /\ row'[e].avail = "now" /\ row'[e].failures = 0
    BY <1>9, <2>1 DEF Repaired, Row
  <2> QED
    BY <2>2, <1>a DEF Budgeted
<1>10. CASE row'[e] = Retried(x)
  <2>1. row'[e].state = "pending" /\ row'[e].avail = "now" /\ row'[e].failures = 0
    BY <1>10, <1>a DEF Retried, Row
  <2> QED
    BY <2>1, <1>a DEF Budgeted
<1>11. CASE x.avail = "later" /\ row'[e] = [x EXCEPT !.avail = "now"]
  BY <1>11, <1>a, <1>b DEF Budgeted, Row
<1> QED
  BY <1>1, <1>2, <1>3, <1>4, <1>5, <1>6, <1>7, <1>8, <1>9, <1>10, <1>11
     DEF Rewritten, RowClaimed, RowReleased, RowFailed, RowDelivered, RowRenewed, RowElapsed, x

LEMMA BudgetNext == TypeOK /\ LeaseInv /\ BudgetInv /\ [Next]_vars => BudgetInv'
<1> SUFFICES ASSUME TypeOK, LeaseInv, BudgetInv, [Next]_vars, NEW e \in Events
             PROVE  Budgeted(row'[e])
  BY DEF BudgetInv
<1> QED
  BY RowRewrites, BudgetStep DEF BudgetInv

(* A failure is counted by a claim that finds an expired started lease, or by
   the worker that still holds its lease. *)
LEMMA CountedStep ==
    ASSUME TypeOK, LeaseInv, NEW e \in Events, Rewritten(e), row'[e].failures > row[e].failures
    PROVE  /\ row[e].state = "delivering" /\ row[e].started = row[e].attempts
           /\ row'[e].failures = row[e].failures + 1
<1> DEFINE x == row[e]
<1>a. x \in Row /\ x.failures \in Nat /\ x.attempts \in Nat
  BY DEF TypeOK, Row
<1>b. row'[e].failures > x.failures
  OBVIOUS
<1> DEFINE Counted == /\ x.state = "delivering" /\ x.started = x.attempts
                      /\ row'[e].failures = x.failures + 1
<1> HIDE DEF x
<1>1. ASSUME NEW b \in BOOLEAN, row'[e] = Claimed(x, b) PROVE Counted
  BY <1>1, <1>a, <1>b DEF Claimed, Expired
<1>2. ASSUME NEW a \in Nat, NEW b \in BOOLEAN, NEW t \in {"now", "later"},
             row'[e] = Released(x, a, b, t)
      PROVE  FALSE
  BY <1>2, <1>a, <1>b DEF Released, Row
<1>3. ASSUME NEW w \in Workers, worker[w].pc = "fail", worker[w].ev = e,
             row'[e] = Failed(x, worker[w])
      PROVE  Counted
  <2>1. x.state = "delivering" /\ x.attempts = worker[w].attempt => x.started = x.attempts
    BY <1>3 DEF LeaseInv, LeaseFenced, x
  <2> QED
    BY <1>3, <2>1, <1>a, <1>b DEF Failed
<1>4. ASSUME NEW g \in Nat
      PROVE  /\ Started(x).failures = x.failures /\ Completed(x).failures = x.failures
             /\ Requeued(x, g).failures = x.failures /\ Repaired(x, g).failures = 0
             /\ Committed(g).failures = 0 /\ Retried(x).failures = 0
             /\ [x EXCEPT !.avail = "now"].failures = x.failures
  <2>1. /\ Started(x).failures = x.failures /\ Completed(x).failures = x.failures
        /\ Retried(x).failures = 0 /\ [x EXCEPT !.avail = "now"].failures = x.failures
    BY <1>a DEF Started, Completed, Retried, Row
  <2>2. Requeued(x, g) \in Row /\ Requeued(x, g).failures = x.failures
    BY <1>a DEF Requeued, Row, RowStates, Availability
  <2>3. Repaired(x, g).failures = 0
    BY <2>2 DEF Repaired, Row
  <2> QED
    BY <2>1, <2>2, <2>3 DEF Committed, NoRow
<1>5. CASE RowDelivered(e) \/ RowRenewed(e) \/ RowElapsed(e) \/ row'[e] = x
  <2>1. row'[e].failures \in {0, x.failures}
    BY <1>5, <1>4 DEF RowDelivered, RowRenewed, RowElapsed, x
  <2> QED
    BY <2>1, <1>a, <1>b
<1> QED
  BY <1>1, <1>2, <1>3, <1>5 DEF Rewritten, RowClaimed, RowReleased, RowFailed, x

(* Whatever is lost, refused, released or left to expire, a row's budget is
   spent only by attempts that a worker really started, one at a time. *)
THEOREM AttemptsCounted == Spec => OnlyStartedAttemptsCount
<1>1. Init => TypeOK /\ LeaseInv
  BY TypeInit, LeaseInit
<1>2. TypeOK /\ LeaseInv /\ [Next]_vars => TypeOK' /\ LeaseInv'
  BY TypeNext, LeaseNext
<1>3. TypeOK /\ LeaseInv /\ [Next]_vars
      => [\A e \in Events : row'[e].failures > row[e].failures =>
            /\ row[e].state = "delivering" /\ row[e].started = row[e].attempts
            /\ row'[e].failures = row[e].failures + 1]_vars
  BY RowRewrites, CountedStep
<1> QED
  BY <1>1, <1>2, <1>3, PTL DEF Spec, OnlyStartedAttemptsCount

LEMMA EventsFinite == IsFiniteSet(Events)
<1>1. IsFiniteSet(Records) /\ IsFiniteSet(Revisions)
  BY FS_Interval, OutboxAssumption DEF Records, Revisions
<1> QED
  BY <1>1, FS_Product DEF Events

LEMMA UnstartedFinite ==
    IsFiniteSet(Unstarted) /\ Cardinality(Unstarted) \in Nat
<1>1. Unstarted \subseteq Events
  BY DEF Unstarted
<1> QED
  BY <1>1, EventsFinite, FS_Subset, FS_CardinalityType

(* A row joins the unstarted leases only as a dispatcher's claim takes it. *)
LEMMA UnstartedStep ==
    ASSUME TypeOK, BudgetInv, NEW e \in Events, Rewritten(e), e \in Unstarted'
    PROVE  e \in Unstarted \/ \E d \in Dispatchers : Claim(d)
<1> DEFINE x == row[e]
<1>a. x \in Row /\ x.failures \in Nat /\ x.attempts \in Nat /\ Budgeted(x)
  BY DEF TypeOK, Row, BudgetInv
<1>b. row'[e].state = "delivering" /\ row'[e].started = 0 /\ row'[e].avail = "later"
  BY DEF Unstarted
<1>c. x.state = "delivering" /\ x.started = 0 /\ x.avail = "later" => e \in Unstarted
  BY DEF Unstarted
<1> HIDE DEF x
<1>1. CASE row'[e] = x
  BY <1>1, <1>b, <1>c
<1>2. CASE row'[e] = Claimed(x, TRUE)
  BY <1>2, <1>a, <1>b DEF Claimed
<1>3. ASSUME NEW a \in Nat, NEW b \in BOOLEAN, NEW t \in {"now", "later"},
             row'[e] = Released(x, a, b, t)
      PROVE  row'[e] = x
  <2>1. row'[e] # x => row'[e].state \in {"pending", "degraded"}
    BY <1>3, <1>a DEF Released, Returned, Row
  <2> QED
    BY <2>1, <1>b
<1>4. ASSUME NEW w \in Workers, row'[e] = Failed(x, worker[w]) PROVE row'[e] = x
  BY <1>4, <1>b DEF Failed
<1>5. ~(x.state = "delivering" /\ row'[e] = Started(x))
  BY <1>a, <1>b, RewrittenRow DEF Budgeted
<1>6. ASSUME NEW g \in Nat
      PROVE  row'[e] \notin {Completed(x), Requeued(x, g), Committed(g), Repaired(x, g), Retried(x)}
  BY <1>a, <1>b, RewrittenRow
<1>7. row'[e] # [x EXCEPT !.avail = "now"]
  BY <1>a, <1>b DEF Row
<1> QED
  BY <1>1, <1>2, <1>3, <1>4, <1>5, <1>6, <1>7
     DEF Rewritten, RowClaimed, RowReleased, RowFailed, RowDelivered, RowRenewed, RowElapsed, x

LEMMA BoundInit == Init => DispatchBounded
<1> SUFFICES ASSUME Init PROVE DispatchBounded
  OBVIOUS
<1>1. Unstarted = {}
  BY DEF Init, Unstarted, NoRow
<1>2. Cardinality(Unstarted) = 0
  BY <1>1, FS_EmptySet
<1> QED
  BY <1>2, OutboxAssumption DEF DispatchBounded, Unstarted

LEMMA BoundNext == TypeOK /\ LeaseInv /\ BudgetInv /\ DispatchBounded /\ [Next]_vars => DispatchBounded'
<1> SUFFICES ASSUME TypeOK, LeaseInv, BudgetInv, DispatchBounded, [Next]_vars
             PROVE  Cardinality(Unstarted') <= InFlight
  BY DEF DispatchBounded, Unstarted
<1>a. Cardinality(Unstarted) <= InFlight /\ InFlight \in Nat
  BY OutboxAssumption DEF DispatchBounded, Unstarted
<1>b. Unstarted' \subseteq Events
  BY DEF Unstarted
<1>1. ASSUME NEW d \in Dispatchers, Claim(d) PROVE Cardinality(Unstarted') <= InFlight
  <2>1. PICK S \in SUBSET {x \in Events : Due(x) /\ ~RowLocked(x)} :
          /\ Cardinality(S) <= Room
          /\ row' = [x \in Events |-> IF x \in S THEN Claimed(row[x], FALSE) ELSE row[x]]
    BY <1>1 DEF Claim
  <2>2. Unstarted' \subseteq Unstarted \union S
    BY <2>1 DEF Unstarted
  <2>3. IsFiniteSet(S) /\ Cardinality(S) \in Nat
    BY <2>1, EventsFinite, FS_Subset, FS_CardinalityType
  <2>4. /\ IsFiniteSet(Unstarted \union S) /\ Cardinality(Unstarted \union S) \in Nat
        /\ Cardinality(Unstarted \union S) <= Cardinality(Unstarted) + Cardinality(S)
    <3>1. IsFiniteSet(Unstarted \cap S) /\ Cardinality(Unstarted \cap S) \in Nat
      BY UnstartedFinite, FS_Subset, FS_CardinalityType
    <3>2. /\ IsFiniteSet(Unstarted \union S)
          /\ Cardinality(Unstarted \union S)
               = Cardinality(Unstarted) + Cardinality(S) - Cardinality(Unstarted \cap S)
      BY <2>3, UnstartedFinite, FS_Union
    <3>3. Cardinality(Unstarted \union S) \in Nat
      BY <3>2, FS_CardinalityType
    <3>4. \A m, n, k, j \in Nat : j = m + n - k => j <= m + n
      OBVIOUS
    <3> QED
      BY <3>1, <3>2, <3>3, <3>4, <2>3, UnstartedFinite
  <2>5. Cardinality(Unstarted') <= Cardinality(Unstarted \union S) /\ Cardinality(Unstarted') \in Nat
    BY <2>2, <2>4, FS_Subset, FS_CardinalityType
  <2> QED
    BY <2>1, <2>3, <2>4, <2>5, <1>a, UnstartedFinite DEF Room
<1>2. CASE ~\E d \in Dispatchers : Claim(d)
  <2>1. Unstarted' \subseteq Unstarted
    BY <1>2, <1>b, RowRewrites, UnstartedStep
  <2>2. Cardinality(Unstarted') <= Cardinality(Unstarted) /\ Cardinality(Unstarted') \in Nat
    BY <2>1, UnstartedFinite, FS_Subset, FS_CardinalityType
  <2> QED
    BY <2>2, <1>a, UnstartedFinite
<1> QED
  BY <1>1, <1>2

(* Deliveries are fenced by their lease, counted against their row's budget
   and dispatched within the bound, for any number of records, revisions,
   workers, dispatchers, hints, faults and retries. *)
THEOREM DeliveriesSafe == Spec => []DeliveriesHold
<1>1. Init => TypeOK /\ LeaseInv /\ BudgetInv /\ DispatchBounded
  BY TypeInit, LeaseInit, BudgetInit, BoundInit
<1>2. TypeOK /\ LeaseInv /\ BudgetInv /\ DispatchBounded /\ [Next]_vars
      => TypeOK' /\ LeaseInv' /\ BudgetInv' /\ DispatchBounded'
  BY TypeNext, LeaseNext, BudgetNext, BoundNext
<1>3. BudgetInv => ParkedAtBudget
  BY DEF BudgetInv, Budgeted, ParkedAtBudget
<1>4. TypeOK /\ LeaseInv /\ BudgetInv /\ DispatchBounded => DeliveriesHold
  BY <1>3 DEF LeaseInv, DeliveriesHold
<1> QED
  BY <1>1, <1>2, <1>4, PTL DEF Spec

----------------------------------------------------------------------------
(* Scope: heads, placements and the completions that hold them *)

LEMMA ScopeInit == Init => ScopeInv
<1> SUFFICES ASSUME Init PROVE ScopeInv
  OBVIOUS
<1>1. HeadsBounded
  BY DEF Init, HeadsBounded, NoHead, NoRow
<1>2. LockedInScope /\ JobInScope
  BY DEF Init, LockedInScope, JobInScope, Idle
<1> QED
  BY <1>1, <1>2 DEF ScopeInv

(* A row only takes the placement in force. *)
LEMMA RowGenerations ==
    ASSUME TypeOK, ScopeInv, [Next]_vars, NEW e \in Events
    PROVE  row'[e].gen = row[e].gen \/ row'[e].gen = space.placement
<1>a. row[e] \in Row /\ row \in [Events -> Row] /\ space.placement \in Nat /\ job.gen \in Nat
  BY DEF TypeOK
<1>b. \A w \in Workers : worker[w] \in Delivery /\ worker[w].ev \in Events
                        /\ worker[w].attempt \in Nat /\ worker[w].placement \in Nat
  BY DEF TypeOK, Delivery
<1>1. ASSUME NEW r \in Records, Write(r) PROVE row'[e].gen \in {row[e].gen, space.placement}
  BY <1>1, <1>a, RewrittenRow DEF Write
<1>2. ASSUME NEW d \in Dispatchers, DispatcherNext(d) PROVE row'[e].gen = row[e].gen
  <2>1. CASE Claim(d)
    <3>1. PICK S \in SUBSET Events :
            row' = [x \in Events |-> IF x \in S THEN Claimed(row[x], FALSE) ELSE row[x]]
      BY <2>1 DEF Claim
    <3> QED
      BY <1>a, <3>1, ClaimedRow
  <2>2. CASE Send(d) \/ SendFails(d) \/ DispatcherStops(d)
    BY <2>2 DEF Send, SendFails, DispatcherStops
  <2>3. CASE Unsend(d)
    <3>1. CASE \E h \in dispatcher[d].batch : h.ev = e
      <4> DEFINE a == (CHOOSE h \in dispatcher[d].batch : h.ev = e).attempt
      <4>1. a \in Nat
        BY <3>1 DEF TypeOK, Hint
      <4>2. row'[e] = Released(row[e], a, FALSE, "now")
        BY <2>3, <3>1 DEF Unsend
      <4> HIDE DEF a
      <4>3. Released(row[e], a, FALSE, "now").gen = row[e].gen
        BY <1>a, <4>1, ReleasedRow DEF Availability
      <4> QED
        BY <4>2, <4>3
    <3>2. CASE ~\E h \in dispatcher[d].batch : h.ev = e
      BY <2>3, <3>2 DEF Unsend
    <3> QED
      BY <3>1, <3>2
  <2> QED
    BY <1>2, <2>1, <2>2, <2>3 DEF DispatcherNext
<1>3. ASSUME NEW w \in Workers, WorkerNext(w)
      PROVE  row'[e].gen \in {row[e].gen, space.placement}
  <2>1. ASSUME NEW h \in hints, StartClosed(w, h) PROVE row'[e].gen = row[e].gen
    <3>1. row[e].attempts \in Nat
      BY <1>a DEF Row
    <3>2. row'[e] = row[e] \/ row'[e] = Released(row[e], row[e].attempts, FALSE, "now")
      BY <2>1, <1>a DEF StartClosed
    <3>3. Released(row[e], row[e].attempts, FALSE, "now").gen = row[e].gen
      BY <1>a, <3>1, ReleasedRow DEF Availability
    <3> QED
      BY <3>2, <3>3
  <2>2. ASSUME NEW h \in hints, Start(w, h) PROVE row'[e].gen = row[e].gen
    <3>1. row'[e] = row[e] \/ row'[e] = Started(row[e])
      BY <2>2, <1>a DEF Start
    <3> QED
      BY <1>a, <3>1, RewrittenRow
  <2>3. ASSUME NEW x \in Events, ClaimOutbox(w, x) PROVE row'[e].gen = row[e].gen
    <3>1. row'[e] = row[e] \/ row'[e] = Claimed(row[e], TRUE)
      BY <2>3, <1>a DEF ClaimOutbox
    <3> QED
      BY <1>a, <3>1, ClaimedRow
  <2>4. CASE Denied(w) \/ LockLease(w) \/ InfrastructureFault(w) \/ ItemFault(w) \/ Crash(w)
    BY <2>4 DEF Denied, LockLease, InfrastructureFault, ItemFault, Crash
  <2>5. CASE Requeue(w)
    <3>1. worker[w].placement = space.placement
      BY <2>5 DEF Requeue, ScopeInv, LockedInScope, InScope
    <3>2. row'[e] = row[e] \/ row'[e] = Requeued(row[e], worker[w].placement)
      BY <2>5, <1>a DEF Requeue
    <3> QED
      BY <1>a, <1>b, <3>1, <3>2, RewrittenRow
  <2>6. CASE Complete(w)
    <3>1. row'[e] = row[e] \/ row'[e] = Completed(row[e])
      BY <2>6, <1>a DEF Complete
    <3> QED
      BY <1>a, <3>1, RewrittenRow
  <2>7. CASE FailLease(w)
    <3>1. row'[e] = row[e] \/ row'[e] = Failed(row[e], worker[w])
      BY <2>7, <1>a DEF FailLease
    <3> QED
      BY <1>a, <1>b, <3>1, FailedRow
  <2>8. CASE ReleaseLease(w)
    <3>1. row'[e] = row[e] \/ row'[e] = Released(row[e], worker[w].attempt, TRUE, "later")
      BY <2>8, <1>a DEF ReleaseLease
    <3>2. Released(row[e], worker[w].attempt, TRUE, "later").gen = row[e].gen
      BY <1>a, <1>b, ReleasedRow DEF Availability
    <3> QED
      BY <3>1, <3>2
  <2> QED
    BY <1>3, <2>1, <2>2, <2>3, <2>4, <2>5, <2>6, <2>7, <2>8 DEF WorkerNext
<1>4. ASSUME NEW h \in hints, Lost(h) \/ LoseHint(h) PROVE row'[e].gen = row[e].gen
  BY <1>4 DEF Lost, LoseHint
<1>5. ASSUME NEW x \in Events, Elapse(x) PROVE row'[e].gen = row[e].gen
  BY <1>5, <1>a DEF Elapse, Row
<1>6. CASE StepPage
  <2>1. row'[e] = row[e] \/ row'[e] = Repaired(row[e], job.gen)
    BY <1>6 DEF StepPage
  <2>2. job.gen = space.placement
    BY <1>6 DEF StepPage, ScopeInv, JobInScope
  <2>3. Repaired(row[e], job.gen).gen = job.gen
    BY <1>a, RewrittenRow
  <2> QED
    BY <2>1, <2>2, <2>3
<1>7. CASE Retry
  <2>1. row'[e] = row[e] \/ row'[e] = Retried(row[e])
    BY <1>7 DEF Retry
  <2> QED
    BY <1>a, <2>1, RewrittenRow
<1>8. CASE \/ StepLock \/ StepAborts \/ Reconcile \/ Cancel \/ FencePlacement \/ ChangePolicy
           \/ \E l \in Lifecycles : ChangeLifecycle(l)
  BY <1>8 DEF StepLock, StepAborts, Reconcile, Cancel, FencePlacement, ChangePolicy,
     ChangeLifecycle
<1>9. CASE UNCHANGED vars
  BY <1>9 DEF vars
<1> QED
  BY <1>1, <1>2, <1>3, <1>4, <1>5, <1>6, <1>7, <1>8, <1>9 DEF Next, OperatorNext

(* What a completion does to the heads: nothing, or the record's head moves
   forward to the latest revision under the placement in force. *)
LEMMA CompleteMoves ==
    ASSUME TypeOK, LeaseInv, ScopeInv, NEW w \in Workers, Complete(w)
    PROVE  LET r == worker[w].ev[1]
               v == worker[w].ev[2]
           IN  /\ r \in Records /\ v \in 1 .. rev[r]
               /\ \/ head' = head
                  \/ /\ head' = [head EXCEPT ![r] = [gen |-> space.placement, rev |-> v]]
                     /\ head[r].rev <= v /\ head[r].gen <= space.placement
                     /\ Behind(head[r], space.placement, v)
               /\ \A q \in Records : \/ head'[q] = head[q]
                                     \/ /\ q = r /\ head'[q].gen = space.placement
                                        /\ head'[q].rev = v /\ head[q].rev <= v
               /\ Open
<1> DEFINE r == worker[w].ev[1]
           v == worker[w].ev[2]
<1>1. r \in Records /\ v \in Nat /\ v >= 1
  BY DEF TypeOK, Delivery, Events, Revisions
<1>2. /\ InScope(worker[w]) /\ v <= worker[w].latest /\ worker[w].latest <= rev[r]
      /\ head[r].gen = space.placement \/ head[r].rev <= worker[w].latest
  BY DEF Complete, ScopeInv, LockedInScope
<1>3. head[r].gen <= space.placement /\ head[r].gen \in Nat /\ head[r].rev \in Nat
      /\ space.placement \in Nat /\ worker[w].latest \in Nat /\ rev[r] \in Nat
  BY <1>1, OutboxAssumption DEF ScopeInv, HeadsBounded, TypeOK, Delivery
<1>4. v \in 1 .. rev[r] /\ Open
  BY <1>1, <1>2, <1>3 DEF InScope
<1>5. ASSUME worker[w].latest = v, Behind(head[r], space.placement, v)
      PROVE  \/ head' = head
             \/ /\ head' = [head EXCEPT ![r] = [gen |-> space.placement, rev |-> v]]
                /\ head[r].rev <= v /\ head[r].gen <= space.placement
                /\ Behind(head[r], space.placement, v)
  <2>1. head[r].rev <= v
    BY <1>1, <1>2, <1>3, <1>5 DEF Behind
  <2>2. head' = head \/ head' = [head EXCEPT ![r] = [gen |-> space.placement, rev |-> v]]
    BY <1>2 DEF Complete, InScope
  <2> QED
    BY <1>3, <1>5, <2>1, <2>2
<1>6. ASSUME ~(worker[w].latest = v /\ Behind(head[r], space.placement, v))
      PROVE  \/ head' = head
             \/ /\ head' = [head EXCEPT ![r] = [gen |-> space.placement, rev |-> v]]
                /\ head[r].rev <= v /\ head[r].gen <= space.placement
                /\ Behind(head[r], space.placement, v)
  <2>1. head' = head
    BY <1>2, <1>6 DEF Complete, InScope
  <2> QED
    BY <2>1
<1> HIDE DEF r, v
<1>7. /\ \/ head' = head
         \/ /\ head' = [head EXCEPT ![r] = [gen |-> space.placement, rev |-> v]]
            /\ head[r].rev <= v /\ head[r].gen <= space.placement
            /\ Behind(head[r], space.placement, v)
      /\ r \in Records /\ v \in 1 .. rev[r] /\ Open
  BY <1>5, <1>6, <1>1, <1>4 DEF r, v
<1>8. \A q \in Records : \/ head'[q] = head[q]
                         \/ /\ q = r /\ head'[q].gen = space.placement
                            /\ head'[q].rev = v /\ head[q].rev <= v
  BY <1>7 DEF TypeOK
<1> QED
  BY <1>7, <1>8 DEF r, v

LEMMA ScopeNext == TypeOK /\ LeaseInv /\ ScopeInv /\ [Next]_vars => ScopeInv'
<1> SUFFICES ASSUME TypeOK, LeaseInv, ScopeInv, [Next]_vars PROVE ScopeInv'
  OBVIOUS
<1>a. /\ space.placement \in Nat /\ space'.placement \in Nat
      /\ space.placement <= space'.placement
  <2>1. space.placement \in Nat /\ space \in [lifecycle : Lifecycles, policy : Nat \ {0},
                                                placement : Nat \ {0}]
    BY DEF TypeOK
  <2>2. CASE FencePlacement
    BY <2>1, <2>2 DEF FencePlacement
  <2>3. ASSUME space'.placement = space.placement 
        PROVE  /\ space.placement \in Nat /\ space'.placement \in Nat
               /\ space.placement <= space'.placement
    BY <2>1, <2>3
  <2>4. CASE ChangePolicy
    BY <2>1, <2>3, <2>4 DEF ChangePolicy
  <2>5. CASE \E l \in Lifecycles : ChangeLifecycle(l)
    BY <2>1, <2>3, <2>5 DEF ChangeLifecycle
  <2> QED
    BY <2>2, <2>3, <2>4, <2>5, ScopeSteps DEF Write, Complete
<1>b. \A r \in Records : rev[r] \in Nat /\ rev'[r] \in Nat /\ rev[r] <= rev'[r]
                        /\ head[r].gen \in Nat /\ head[r].rev \in Nat
  <2>1. TypeOK'
    BY TypeNext
  <2> QED
    BY <2>1, RevisionsGrow, OutboxAssumption DEF TypeOK
<1>1. ASSUME NEW r \in Records
      PROVE  head'[r].gen <= space'.placement /\ head'[r].rev <= rev'[r]
  <2>1. head[r].gen <= space.placement /\ head[r].rev <= rev[r]
    BY DEF ScopeInv, HeadsBounded
  <2>2. CASE head' = head
    BY <1>a, <1>b, <2>1, <2>2
  <2>3. ASSUME NEW w \in Workers, Complete(w)
        PROVE  head'[r].gen <= space'.placement /\ head'[r].rev <= rev'[r]
    <3>1. space' = space /\ rev' = rev
      BY <2>3 DEF Complete
    <3>2. \/ head'[r] = head[r]
          \/ head'[r].gen = space.placement /\ head'[r].rev \in 1 .. rev[r]
      BY <2>3, CompleteMoves
    <3> QED
      BY <1>a, <1>b, <2>1, <3>1, <3>2
  <2> QED
    BY <2>2, <2>3, ScopeSteps DEF Write, FencePlacement, ChangePolicy, ChangeLifecycle
<1>2. ASSUME NEW e \in Events PROVE row'[e].gen <= space'.placement
  <2>1. row[e].gen <= space.placement /\ row[e].gen \in Nat
    BY DEF ScopeInv, HeadsBounded, TypeOK, Row
  <2> QED
    BY <1>a, <2>1, RowGenerations
<1>3. ASSUME NEW w \in Workers, worker'[w].pc = "locked"
      PROVE  (LET d == worker[w] IN
              /\ InScope(d)
              /\ d.ev[2] <= d.latest /\ d.latest <= rev[d.ev[1]]
              /\ head[d.ev[1]].gen = space.placement \/ head[d.ev[1]].rev <= d.latest)'
  <2> DEFINE d == worker[w]
             r == d.ev[1]
  <2>a. d \in Delivery /\ r \in Records /\ d.ev[2] \in Nat /\ d.latest \in Nat /\ d.ev \in Events
    BY DEF TypeOK, Delivery, Events, Revisions
  <2>1. CASE Locks(w)
    <3>1. /\ worker'[w].ev = d.ev /\ worker'[w].policy = d.policy
          /\ worker'[w].placement = d.placement /\ worker'[w].latest = rev[r]
          /\ InScope(d) /\ rev' = rev /\ head' = head /\ space' = space
      BY <2>1 DEF Locks, SameDelivery
    <3>2. InScope(worker[w])'
      BY <3>1 DEF InScope, Open
    <3>3. d.ev[2] <= rev[r]
      BY <2>1, <2>a DEF Locks, HoldsLease, LeaseInv, RowsCommitted
    <3>4. head[r].rev <= rev[r]
      BY <2>a DEF ScopeInv, HeadsBounded
    <3> QED
      BY <1>b, <2>a, <3>1, <3>2, <3>3, <3>4
  <2>2. CASE worker'[w] = d
    <3>1. /\ InScope(d) /\ d.ev[2] <= d.latest /\ d.latest <= rev[r]
          /\ head[r].gen = space.placement \/ head[r].rev <= d.latest
      BY <1>3, <2>2 DEF ScopeInv, LockedInScope
    <3>2. d.latest <= rev'[r]
      BY <1>b, <2>a, <3>1
    <3>3. space' = space
      BY <1>3, <2>2, ScopeSteps
         DEF Write, Complete, FencePlacement, ChangePolicy, ChangeLifecycle, ScopeFree
    <3>4. head'[r].gen = space.placement \/ head'[r].rev <= d.latest
      <4>1. CASE head' = head
        BY <3>1, <4>1
      <4>2. ASSUME NEW v \in Workers, Complete(v)
            PROVE  head'[r].gen = space.placement \/ head'[r].rev <= d.latest
        <5>1. \/ head'[r] = head[r]
              \/ r = worker[v].ev[1] /\ head'[r].gen = space.placement
          BY <2>a, <4>2, CompleteMoves
        <5> QED
          BY <3>1, <5>1
      <4> QED
        BY <4>1, <4>2, ScopeSteps DEF Write, FencePlacement, ChangePolicy, ChangeLifecycle
    <3>5. InScope(worker[w])'
      BY <2>2, <3>1, <3>3 DEF InScope, Open
    <3> QED
      BY <2>2, <3>1, <3>2, <3>3, <3>4, <3>5
  <2>3. Idle.pc = "idle"
    BY DEF Idle
  <2> QED
    BY <1>3, <2>1, <2>2, <2>3, WorkerSteps DEF WorkerStep, Ends, Begins
<1>4. JobInScope'
  <2>a. job \in [running : BOOLEAN, after : Nat, locked : BOOLEAN, gen : Nat]
    BY DEF TypeOK
  <2>1. CASE job' = job
    <3>1. job.locked => space'.placement = space.placement
      BY <2>1, ScopeSteps, <1>a
         DEF Write, Complete, FencePlacement, ChangePolicy, ChangeLifecycle, TypeOK
    <3> QED
      BY <2>1, <3>1 DEF ScopeInv, JobInScope
  <2>2. CASE StepLock
    BY <2>a, <2>2 DEF StepLock, JobInScope
  <2>3. CASE StepPage \/ StepAborts
    BY <2>a, <2>3 DEF StepPage, StepAborts, JobInScope
  <2>4. CASE Reconcile \/ Cancel \/ FencePlacement
    BY <2>a, <2>4 DEF Reconcile, Cancel, FencePlacement, JobInScope, ScopeInv
  <2> QED
    BY <2>1, <2>2, <2>3, <2>4, JobSteps
<1>5. HeadsBounded'
  BY <1>1, <1>2 DEF HeadsBounded
<1>6. LockedInScope'
  BY <1>3 DEF LockedInScope
<1> QED
  BY <1>4, <1>5, <1>6 DEF ScopeInv

LEMMA ScopeInvariant == Spec => [](TypeOK /\ LeaseInv /\ ScopeInv)
<1>1. Init => TypeOK /\ LeaseInv /\ ScopeInv
  BY TypeInit, LeaseInit, ScopeInit
<1>2. TypeOK /\ LeaseInv /\ ScopeInv /\ [Next]_vars => TypeOK' /\ LeaseInv' /\ ScopeInv'
  BY TypeNext, LeaseNext, ScopeNext
<1> QED
  BY <1>1, <1>2, PTL DEF Spec

LEMMA HeadsStep ==
    ASSUME TypeOK, LeaseInv, ScopeInv, [Next]_vars, NEW r \in Records
    PROVE  /\ head[r].gen <= head'[r].gen /\ head[r].rev <= head'[r].rev
           /\ head'[r] # head[r] => Open /\ head'[r].gen = space.placement
<1>a. head[r].gen \in Nat /\ head[r].rev \in Nat /\ head[r].gen <= space.placement
  BY OutboxAssumption DEF TypeOK, ScopeInv, HeadsBounded
<1>1. CASE head' = head
  BY <1>a, <1>1
<1>2. ASSUME NEW w \in Workers, Complete(w)
      PROVE  /\ head[r].gen <= head'[r].gen /\ head[r].rev <= head'[r].rev
             /\ head'[r] # head[r] => Open /\ head'[r].gen = space.placement
  <2>1. /\ Open
        /\ \/ head'[r] = head[r]
           \/ head'[r].gen = space.placement /\ head[r].rev <= head'[r].rev
    BY <1>2, CompleteMoves
  <2> QED
    BY <1>a, <2>1
<1> QED
  BY <1>1, <1>2, ScopeSteps DEF Write, FencePlacement, ChangePolicy, ChangeLifecycle

(* No completion, however late, moves a projected generation or revision
   back. *)
THEOREM HeadsAdvance == Spec => HeadsOnlyAdvance
<1>1. TypeOK /\ LeaseInv /\ ScopeInv /\ [Next]_vars
        => [\A r \in Records : head[r].gen <= head'[r].gen /\ head[r].rev <= head'[r].rev]_vars
  BY HeadsStep
<1> QED
  BY <1>1, ScopeInvariant, PTL DEF Spec, HeadsOnlyAdvance

(* A head moves only while the space is open, to the placement in force. *)
THEOREM ProjectsInScope == Spec => ProjectsOnlyInScope
<1>1. TypeOK /\ LeaseInv /\ ScopeInv /\ [Next]_vars
        => [\A r \in Records : head'[r] # head[r] => Open /\ head'[r].gen = space.placement]_vars
  BY HeadsStep
<1> QED
  BY <1>1, ScopeInvariant, PTL DEF Spec, ProjectsOnlyInScope

(* The outbox implements the abstract heads: each step commits a revision,
   projects one, fences the placement, opens or closes the space, or leaves
   all four alone. *)
THEOREM RefinesHeads == Spec => ImplementsHeads
<1>1. Init => Projection!Init
  <2> SUFFICES ASSUME Init PROVE Projection!Init
    OBVIOUS
  <2>1. space.placement = 1 /\ (Open <=> TRUE)
    BY DEF Init, Open
  <2> QED
    BY <2>1 DEF Init, NoHead, Projection!Init
<1>2. TypeOK /\ LeaseInv /\ ScopeInv /\ [Next]_vars => [Projection!Next]_Projection!vars
  <2> SUFFICES ASSUME TypeOK, LeaseInv, ScopeInv, [Next]_vars
               PROVE  Projection!Next \/ UNCHANGED Projection!vars
    OBVIOUS
  <2>a. space \in [lifecycle : Lifecycles, policy : Nat \ {0}, placement : Nat \ {0}]
    BY DEF TypeOK
  <2>1. CASE UNCHANGED <<rev, head, space>>
    BY <2>1 DEF Projection!vars, Open
  <2>2. ASSUME NEW r \in Records, Write(r) PROVE Projection!Next
    <3>1. Projection!Commit(r)
      BY <2>2 DEF Write, Projection!Commit, Open
    <3> QED
      BY <3>1 DEF Projection!Next
  <2>3. ASSUME NEW w \in Workers, Complete(w)
        PROVE  Projection!Next \/ UNCHANGED Projection!vars
    <3> DEFINE r == worker[w].ev[1]
               v == worker[w].ev[2]
    <3>1. /\ r \in Records /\ v \in 1 .. rev[r] /\ Open
          /\ \/ head' = head
             \/ /\ head' = [head EXCEPT ![r] = [gen |-> space.placement, rev |-> v]]
                /\ head[r].rev <= v /\ head[r].gen <= space.placement
                /\ Behind(head[r], space.placement, v)
      BY <2>3, CompleteMoves
    <3>2. rev' = rev /\ space' = space /\ (Open' <=> Open)
      BY <2>3 DEF Complete, Open
    <3>3. v \in 1 .. MaxRevision
      BY DEF TypeOK, Delivery, Events, Revisions
    <3> HIDE DEF r, v
    <3>4. head[r].gen \in Nat /\ head[r].rev \in Nat /\ space.placement \in Nat
      BY <3>1, OutboxAssumption DEF TypeOK
    <3>5. CASE head' = head
      BY <3>2, <3>5 DEF Projection!vars, Open
    <3>6. CASE /\ head' = [head EXCEPT ![r] = [gen |-> space.placement, rev |-> v]]
               /\ head[r].rev <= v /\ Behind(head[r], space.placement, v)
      <4>1. v >= head[r].rev /\ (head[r].gen < space.placement \/ v > head[r].rev)
        BY <3>1, <3>4, <3>6 DEF Behind
      <4>2. Projection!Project(r, v)
        BY <3>1, <3>2, <3>6, <4>1 DEF Projection!Project
      <4> QED
        BY <3>1, <3>3, <4>2 DEF Projection!Next
    <3> QED
      BY <3>1, <3>5, <3>6
  <2>4. CASE FencePlacement
    <3>1. /\ space'.placement = space.placement + 1 /\ space'.lifecycle = space.lifecycle
          /\ space.placement < MaxPlacement /\ rev' = rev /\ head' = head
      BY <2>4, <2>a DEF FencePlacement
    <3> QED
      BY <3>1 DEF Projection!Next, Projection!Fence, Open
  <2>5. ASSUME space'.placement = space.placement, rev' = rev, head' = head
        PROVE  Projection!Next \/ UNCHANGED Projection!vars
    <3>1. CASE Open' <=> Open
      BY <2>5, <3>1 DEF Projection!vars, Open
    <3>2. CASE Open' <=> ~Open
      BY <2>5, <3>2 DEF Projection!Next, Projection!OpenOrClose, Open
    <3> QED
      BY <3>1, <3>2 DEF Open
  <2>6. CASE ChangePolicy
    BY <2>5, <2>6, <2>a DEF ChangePolicy
  <2>7. CASE \E l \in Lifecycles : ChangeLifecycle(l)
    BY <2>5, <2>7, <2>a DEF ChangeLifecycle
  <2> QED
    BY <2>1, <2>2, <2>3, <2>4, <2>6, <2>7, ScopeSteps
<1> QED
  BY <1>1, <1>2, ScopeInvariant, PTL DEF Spec, ImplementsHeads, Projection!Spec

----------------------------------------------------------------------------
(* Repair: a delivered row is projected, or a reconciliation will reach it *)

(* Only a completion delivers a row. *)
Delivers(e) == \E w \in Workers : Complete(w) /\ worker[w].ev = e

LEMMA DeliveredSteps ==
    ASSUME TypeOK, [Next]_vars, NEW e \in Events, row'[e].state = "delivered", ~Delivers(e)
    PROVE  row[e].state = "delivered" /\ row'[e].gen = row[e].gen
<1>a. row[e] \in Row /\ row \in [Events -> Row] /\ space.placement \in Nat /\ job.gen \in Nat
      /\ row[e].attempts \in Nat
  BY DEF TypeOK, Row
<1>b. \A w \in Workers : worker[w] \in Delivery /\ worker[w].ev \in Events
                        /\ worker[w].attempt \in Nat /\ worker[w].placement \in Nat
  BY DEF TypeOK, Delivery
<1>c. \A a \in Nat, b \in BOOLEAN, t \in Availability :
        Released(row[e], a, b, t) = row[e] \/ Released(row[e], a, b, t).state # "delivered"
  BY <1>a, ReleasedRow
<1>1. ASSUME NEW r \in Records, Write(r) PROVE row'[e] = row[e]
  BY <1>1, <1>a, RewrittenRow DEF Write
<1>2. ASSUME NEW d \in Dispatchers, DispatcherNext(d) PROVE row'[e] = row[e]
  <2>1. CASE Claim(d)
    <3>1. PICK S \in SUBSET Events :
            row' = [x \in Events |-> IF x \in S THEN Claimed(row[x], FALSE) ELSE row[x]]
      BY <2>1 DEF Claim
    <3> QED
      BY <1>a, <3>1, ClaimedRow
  <2>2. CASE Send(d) \/ SendFails(d) \/ DispatcherStops(d)
    BY <2>2 DEF Send, SendFails, DispatcherStops
  <2>3. CASE Unsend(d)
    <3>1. CASE \E h \in dispatcher[d].batch : h.ev = e
      <4> DEFINE a == (CHOOSE h \in dispatcher[d].batch : h.ev = e).attempt
      <4>1. a \in Nat
        BY <3>1 DEF TypeOK, Hint
      <4>2. row'[e] = Released(row[e], a, FALSE, "now")
        BY <2>3, <3>1 DEF Unsend
      <4> HIDE DEF a
      <4> QED
        BY <1>c, <4>1, <4>2 DEF Availability
    <3>2. CASE ~\E h \in dispatcher[d].batch : h.ev = e
      BY <2>3, <3>2 DEF Unsend
    <3> QED
      BY <3>1, <3>2
  <2> QED
    BY <1>2, <2>1, <2>2, <2>3 DEF DispatcherNext
<1>3. ASSUME NEW w \in Workers, WorkerNext(w) PROVE row'[e] = row[e] \/ row'[e] = Started(row[e])
  <2>1. ASSUME NEW h \in hints, StartClosed(w, h) PROVE row'[e] = row[e]
    <3>1. row'[e] = row[e] \/ row'[e] = Released(row[e], row[e].attempts, FALSE, "now")
      BY <2>1, <1>a DEF StartClosed
    <3> QED
      BY <1>a, <1>c, <3>1 DEF Availability
  <2>2. ASSUME NEW h \in hints, Start(w, h) PROVE row'[e] = row[e] \/ row'[e] = Started(row[e])
    BY <2>2, <1>a DEF Start
  <2>3. ASSUME NEW x \in Events, ClaimOutbox(w, x) PROVE row'[e] = row[e]
    <3>1. row'[e] = row[e] \/ row'[e] = Claimed(row[e], TRUE)
      BY <2>3, <1>a DEF ClaimOutbox
    <3> QED
      BY <1>a, <3>1, ClaimedRow
  <2>4. CASE Denied(w) \/ LockLease(w) \/ InfrastructureFault(w) \/ ItemFault(w) \/ Crash(w)
    BY <2>4 DEF Denied, LockLease, InfrastructureFault, ItemFault, Crash
  <2>5. CASE Requeue(w)
    <3>1. row'[e] = row[e] \/ row'[e] = Requeued(row[e], worker[w].placement)
      BY <2>5, <1>a DEF Requeue
    <3> QED
      BY <1>a, <1>b, <3>1, RewrittenRow
  <2>6. CASE Complete(w)
    BY <2>6, <1>a DEF Complete, Delivers
  <2>7. CASE FailLease(w)
    <3>1. row'[e] = row[e] \/ row'[e] = Failed(row[e], worker[w])
      BY <2>7, <1>a DEF FailLease
    <3> QED
      BY <1>a, <1>b, <3>1, FailedRow
  <2>8. CASE ReleaseLease(w)
    <3>1. row'[e] = row[e] \/ row'[e] = Released(row[e], worker[w].attempt, TRUE, "later")
      BY <2>8, <1>a DEF ReleaseLease
    <3> QED
      BY <1>b, <1>c, <3>1 DEF Availability
  <2> QED
    BY <1>3, <2>1, <2>2, <2>3, <2>4, <2>5, <2>6, <2>7, <2>8 DEF WorkerNext
<1>4. ASSUME NEW h \in hints, Lost(h) \/ LoseHint(h) PROVE row'[e] = row[e]
  BY <1>4 DEF Lost, LoseHint
<1>5. ASSUME NEW x \in Events, Elapse(x)
      PROVE  row'[e].state = row[e].state /\ row'[e].gen = row[e].gen
  BY <1>5, <1>a DEF Elapse, Row
<1>6. CASE StepPage
  <2>1. row'[e] = row[e] \/ row'[e] = Repaired(row[e], job.gen)
    BY <1>6 DEF StepPage
  <2>2. Repaired(row[e], job.gen).state = "pending"
    BY <1>a, RewrittenRow
  <2> QED
    BY <2>1, <2>2
<1>7. CASE Retry
  <2>1. row'[e] = row[e] \/ row'[e] = Retried(row[e])
    BY <1>7 DEF Retry
  <2> QED
    BY <1>a, <2>1, RewrittenRow
<1>8. CASE \/ StepLock \/ StepAborts \/ Reconcile \/ Cancel \/ FencePlacement \/ ChangePolicy
           \/ \E l \in Lifecycles : ChangeLifecycle(l)
  BY <1>8 DEF StepLock, StepAborts, Reconcile, Cancel, FencePlacement, ChangePolicy,
     ChangeLifecycle
<1>9. CASE UNCHANGED vars
  BY <1>9 DEF vars
<1>10. Started(row[e]).state = row[e].state /\ Started(row[e]).gen = row[e].gen
  BY <1>a, RewrittenRow
<1> QED
  BY <1>1, <1>2, <1>3, <1>4, <1>5, <1>6, <1>7, <1>8, <1>9, <1>10 DEF Next, OperatorNext

(* Completing a record's latest revision leaves its head current. *)
LEMMA CompleteLatest ==
    ASSUME TypeOK, LeaseInv, ScopeInv, NEW w \in Workers, NEW r \in Records,
           Complete(w), worker[w].ev = <<r, rev[r]>>
    PROVE  head'[r] = [gen |-> space.placement, rev |-> rev[r]]
<1> DEFINE d == worker[w]
<1>1. /\ head \in [Records -> [gen : Nat, rev : 0 .. MaxRevision]]
      /\ rev[r] \in Nat /\ d.latest \in Nat /\ space.placement \in Nat
      /\ head[r].gen \in Nat /\ head[r].rev \in Nat
  BY OutboxAssumption DEF TypeOK, Delivery
<1>2. d.latest = rev[r] /\ d.placement = space.placement
  <2>1. d.ev[1] = r /\ d.ev[2] = rev[r] /\ d.pc = "locked"
    BY DEF Complete
  <2>2. InScope(d) /\ d.ev[2] <= d.latest /\ d.latest <= rev[d.ev[1]]
    BY <2>1 DEF ScopeInv, LockedInScope
  <2> QED
    BY <1>1, <2>1, <2>2 DEF InScope
<1>3. d.gen = d.placement
  BY <1>2 DEF Complete
<1>4. head[r].gen <= space.placement /\ head[r].rev <= rev[r]
  BY DEF ScopeInv, HeadsBounded
<1>5. CASE Behind(head[r], d.placement, rev[r])
  <2>1. head' = [head EXCEPT ![r] = [gen |-> d.placement, rev |-> rev[r]]]
    BY <1>2, <1>3, <1>5 DEF Complete
  <2> QED
    BY <1>1, <1>2, <2>1
<1>6. CASE ~Behind(head[r], d.placement, rev[r])
  <2>1. head' = head
    BY <1>6 DEF Complete
  <2>2. head[r].gen = space.placement /\ head[r].rev = rev[r]
    BY <1>1, <1>2, <1>4, <1>6 DEF Behind
  <2> QED
    BY <1>1, <2>1, <2>2
<1> QED
  BY <1>5, <1>6

LEMMA RepairInit == Init => CurrentMeansProjected /\ RepairCovered
<1> SUFFICES ASSUME Init PROVE CurrentMeansProjected /\ RepairCovered
  OBVIOUS
<1>1. \A r \in Records : ~(rev[r] > 0)
  BY DEF Init
<1> QED
  BY <1>1 DEF CurrentMeansProjected, ReportedCurrent, RepairCovered

LEMMA RepairNext ==
    ASSUME TypeOK, LeaseInv, ScopeInv, CurrentMeansProjected, RepairCovered, [Next]_vars
    PROVE  CurrentMeansProjected' /\ RepairCovered'
<1> DEFINE Current(r) == head[r] = [gen |-> space.placement, rev |-> rev[r]]
<1>a. /\ \A r \in Records : /\ head[r] \in [gen : Nat, rev : Nat] /\ head'[r] \in [gen : Nat, rev : Nat]
                            /\ rev[r] \in Nat /\ rev'[r] \in Nat /\ r \in Nat /\ r > 0
      /\ space.placement \in Nat /\ space'.placement \in Nat /\ job.after \in Nat
  <2>1. TypeOK'
    BY TypeNext
  <2>2. MaxRevision \in Nat /\ \A r \in Records : r \in Nat /\ r > 0
    BY OutboxAssumption DEF Records
  <2>3. \A r \in Records : head[r] \in [gen : Nat, rev : Nat] /\ rev[r] \in Nat
    BY <2>2 DEF TypeOK
  <2>4. \A r \in Records : head'[r] \in [gen : Nat, rev : Nat] /\ rev'[r] \in Nat
    BY <2>1, <2>2 DEF TypeOK
  <2>5. space.placement \in Nat /\ job.after \in Nat
    BY DEF TypeOK
  <2>6. space'.placement \in Nat
    BY <2>1 DEF TypeOK
  <2> QED
    BY <2>2, <2>3, <2>4, <2>5, <2>6
<1>b. ScopeInv'
  BY ScopeNext
<1>c. \A r \in Records :
        /\ head[r].gen <= head'[r].gen /\ head[r].rev <= head'[r].rev
        /\ head'[r].gen <= space'.placement /\ head'[r].rev <= rev'[r]
        /\ head[r].gen <= space.placement /\ head[r].rev <= rev[r]
  BY <1>b, HeadsStep DEF ScopeInv, HeadsBounded
<1>d. \/ space'.placement = space.placement
      \/ FencePlacement
  BY ScopeSteps DEF Write, Complete, ChangePolicy, ChangeLifecycle, TypeOK
<1>1. ASSUME NEW r \in Records, rev'[r] > 0, row'[<<r, rev'[r]>>].state = "delivered"
      PROVE  \/ Current(r)'
             \/ /\ rev'[r] = rev[r] /\ row[<<r, rev[r]>>].state = "delivered"
                /\ row'[<<r, rev[r]>>].gen = row[<<r, rev[r]>>].gen
  <2> DEFINE e == <<r, rev'[r]>>
  <2>1. e \in Events
    BY <1>1, TypeNext DEF TypeOK, Events, Revisions
  <2>2. CASE Delivers(e)
    <3>1. PICK w \in Workers : Complete(w) /\ worker[w].ev = e
      BY <2>2 DEF Delivers
    <3>2. rev' = rev /\ space' = space
      BY <3>1 DEF Complete
    <3>3. head'[r] = [gen |-> space.placement, rev |-> rev[r]]
      BY <3>1, <3>2, CompleteLatest
    <3> QED
      BY <3>2, <3>3
  <2>3. CASE ~Delivers(e)
    <3>1. row[e].state = "delivered" /\ row'[e].gen = row[e].gen
      BY <1>1, <2>1, <2>3, DeliveredSteps
    <3>2. rev'[r] <= rev[r]
      BY <2>1, <3>1 DEF LeaseInv, RowsCommitted
    <3>3. rev'[r] = rev[r]
      BY <1>a, <3>2, RevisionsGrow
    <3> QED
      BY <3>1, <3>3
  <2> QED
    BY <2>2, <2>3
<1>2. CurrentMeansProjected'
  <2> SUFFICES ASSUME NEW r \in Records, rev'[r] > 0, row'[<<r, rev'[r]>>].state = "delivered",
                      row'[<<r, rev'[r]>>].gen = space'.placement
               PROVE  Current(r)'
    BY DEF CurrentMeansProjected, ReportedCurrent
  <2> SUFFICES ASSUME rev'[r] = rev[r], row[<<r, rev[r]>>].state = "delivered",
                      row'[<<r, rev[r]>>].gen = row[<<r, rev[r]>>].gen
               PROVE  Current(r)'
    BY <1>1
  <2>1. <<r, rev[r]>> \in Events
    BY <1>a DEF TypeOK, Events, Revisions
  <2>2. row[<<r, rev[r]>>].gen <= space.placement
    BY <2>1 DEF ScopeInv, HeadsBounded
  <2>3. space.placement <= space'.placement
    BY <1>a, <1>d DEF FencePlacement, TypeOK
  <2>4. row[<<r, rev[r]>>].gen = space.placement /\ space'.placement = space.placement
    BY <1>a, <2>2, <2>3
  <2>5. head[r] = [gen |-> space.placement, rev |-> rev[r]]
    BY <2>4 DEF CurrentMeansProjected, ReportedCurrent
  <2>6. head'[r].gen = space'.placement /\ head'[r].rev = rev'[r]
    BY <1>a, <1>c, <2>4, <2>5
  <2> QED
    BY <1>a, <2>6
<1>3. RepairCovered'
  <2> SUFFICES ASSUME NEW r \in Records, rev'[r] > 0, row'[<<r, rev'[r]>>].state = "delivered",
                      ~Current(r)'
               PROVE  (job'.running /\ job'.after < r) \/ r \in uncovered'
    BY DEF RepairCovered
  <2>1. rev'[r] = rev[r] /\ row[<<r, rev[r]>>].state = "delivered"
    BY <1>1
  <2>2. CASE Reconcile \/ FencePlacement
    BY <1>a, <2>2 DEF Reconcile, FencePlacement, TypeOK
  <2>3. CASE ~FencePlacement
    <3>1. ~Current(r)
      <4> SUFFICES ASSUME Current(r) PROVE FALSE
        OBVIOUS
      <4>1. head'[r].gen = space'.placement /\ head'[r].rev = rev'[r]
        BY <1>a, <1>c, <1>d, <2>1, <2>3
      <4> QED
        BY <1>a, <4>1
    <3>2. (job.running /\ job.after < r) \/ r \in uncovered
      BY <2>1, <3>1 DEF RepairCovered
    <3>3. CASE UNCHANGED <<job, uncovered>>
      BY <3>2, <3>3
    <3>4. CASE StepLock \/ StepAborts
      BY <3>2, <3>4 DEF StepLock, StepAborts, TypeOK
    <3>5. CASE Cancel
      BY <3>2, <3>5 DEF Cancel
    <3>6. CASE StepPage
      <4>1. PICK page \in SUBSET Unscanned, last \in Records \union {job.after} :
              /\ NextPage(page)
              /\ IF page = {} THEN last = job.after ELSE last \in page /\ \A q \in page : q <= last
              /\ row' = [e \in Events |->
                           IF e[1] \in page /\ e[2] = rev[e[1]] /\ StaleUnder(e[1], job.gen)
                           THEN Repaired(row[e], job.gen)
                           ELSE row[e]]
              /\ job' = [job EXCEPT !.locked = FALSE, !.after = last,
                                    !.running = Cardinality(page) = PageSize]
        BY <3>6 DEF StepPage
      <4>2. /\ head' = head /\ space' = space /\ uncovered' = uncovered
            /\ job.gen = space.placement /\ job.gen \in Nat
        BY <3>6 DEF StepPage, ScopeInv, JobInScope, TypeOK
      <4>3. r \notin page
        <5> SUFFICES ASSUME r \in page PROVE FALSE
          OBVIOUS
        <5>1. StaleUnder(r, job.gen)
          <6>1. head[r].gen # job.gen \/ head[r].rev < rev[r]
            BY <1>a, <1>c, <3>1, <4>2
          <6> QED
            BY <2>1, <6>1 DEF StaleUnder
        <5>2. <<r, rev[r]>> \in Events /\ row[<<r, rev[r]>>] \in Row
          BY <1>a, <2>1 DEF TypeOK, Events, Revisions
        <5>3. row'[<<r, rev[r]>>] = Repaired(row[<<r, rev[r]>>], job.gen)
          BY <4>1, <5>1, <5>2
        <5>4. row'[<<r, rev[r]>>].state = "pending"
          BY <4>2, <5>2, <5>3, RewrittenRow
        <5> QED
          BY <2>1, <5>4
      <4>4. CASE r \in uncovered
        BY <4>2, <4>4
      <4>5. CASE job.running /\ job.after < r
        <5>1. r \in Unscanned \ page
          BY <1>a, <2>1, <4>3, <4>5 DEF Unscanned
        <5>2. Cardinality(page) = PageSize /\ \A q \in page : q < r
          BY <4>1, <5>1 DEF NextPage
        <5>3. last < r
          BY <4>1, <4>5, <5>2
        <5>4. job'.running /\ job'.after = last
          BY <4>1, <5>2 DEF TypeOK
        <5> QED
          BY <5>3, <5>4
      <4> QED
        BY <3>2, <4>4, <4>5
    <3> QED
      BY <2>2, <2>3, <3>3, <3>4, <3>5, <3>6, JobSteps
  <2> QED
    BY <2>2, <2>3
<1> QED
  BY <1>2, <1>3

(* A record reported current is projected at its latest revision under the
   placement in force, and a delivered record whose projection is not will be
   reached by a running reconciliation or was given up by a cancelled one:
   for every number of records, page size and placement change. *)
THEOREM RepairSafe == Spec => [](CurrentMeansProjected /\ RepairCovered)
<1> DEFINE Inv == TypeOK /\ LeaseInv /\ ScopeInv /\ CurrentMeansProjected /\ RepairCovered
<1>1. Init => Inv
  BY TypeInit, LeaseInit, ScopeInit, RepairInit
<1>2. Inv /\ [Next]_vars => Inv'
  BY TypeNext, LeaseNext, ScopeNext, RepairNext
<1>3. Inv => CurrentMeansProjected /\ RepairCovered
  OBVIOUS
<1> QED
  BY <1>1, <1>2, <1>3, PTL DEF Spec
=============================================================================
