------------------------- MODULE ProjectionRebuilds -------------------------
(****************************************************************************)
(* The projection generations of one collection and the rebuilds that fill  *)
(* and verify them (packages/postgres/src/generations.ts and migration      *)
(* 048).  A rebuild walks the collection's Refs in key order under a lease, *)
(* projecting each into its generation (`backfill`), then walks them again  *)
(* (`verify`); an operator activates, rolls back, retires and reverifies    *)
(* generations meanwhile, and the projection worker delivers every change   *)
(* of a Ref to the generations it finds.  A step of a process is one        *)
(* transaction; any process may stop between two, a lease may run out, and  *)
(* a COMMIT may land without its answer.  What is abstracted: a Ref's       *)
(* content is its revision, a generation's chunks of a Ref are present or   *)
(* not, and time is whether a lease still lasts, so delays and the attempt  *)
(* counts that pace them are left out.                                      *)
(****************************************************************************)
EXTENDS Naturals, FiniteSets, FiniteSetsExt

CONSTANTS NRefs,      \* the Refs of the collection, in key order
          NGens,      \* how many rebuilds may start
          Vector,     \* the generations whose policy enables vectors
          Steppers,   \* processes that call `step`
          Page,       \* Refs one page query reads
          MaxRev,     \* bounds the changes of one Ref
          MaxFaults,  \* bounds lost answers, expiries, failures, crashes and closures
          MaxChecks,  \* bounds the verifications of one generation
          NoStepper

RebuildsAssumption ==
  /\ {NRefs, NGens, Page, MaxRev} \subseteq Nat \ {0} /\ MaxFaults \in Nat /\ MaxChecks \in Nat
  /\ Vector \subseteq 1..NGens /\ NoStepper \notin Steppers

Refs == 1..NRefs
Gens == 1..NGens

VARIABLES auth,    \* a Ref's authoritative revision (0: not created) and whether it is deleted
          due,     \* Refs with a change whose delivery has not completed
          state,   \* the state of each generation
          pruned,  \* retired generations marked empty
          held,    \* what each generation holds of each Ref: projection_refs and whether its chunks are there
          saved,   \* each generation's embedding checkpoints, as Ref and revision
          job,     \* the rebuild of each generation
          stepper, \* what each step holds in memory
          worker,  \* what the projection worker holds in memory
          open,    \* the space and the collection admit projection
          embeds,  \* the steppers' and the worker's embedders resolve in an allowed region
          faults

vars == <<auth, due, state, pruned, held, saved, job, stepper, worker, open, embeds, faults>>
world == <<auth, due, worker>>

GenStates == {"none", "building", "verifying", "active", "standby", "retired"}
Phases == {"backfill", "verify", "verified", "failed", "abandoned"}
NoTarget == [rev |-> 0, gone |-> FALSE]
NoJob == [phase |-> "backfill", cursor |-> 0, backfilled |-> 0, verified |-> 0, mismatched |-> 0,
          checks |-> 0, lease |-> NoStepper, live |-> FALSE]
Idle == [pc |-> "idle", gen |-> 1, phase |-> "backfill", from |-> 0, cursor |-> 0, done |-> 0,
         missed |-> 0, page |-> {}, target |-> NoTarget]

Init ==
  /\ auth = [r \in Refs |-> NoTarget] /\ due = {}
  /\ state = [g \in Gens |-> "none"] /\ pruned = {}
  /\ held = [g \in Gens |-> [r \in Refs |-> [rev |-> 0, gone |-> FALSE, full |-> FALSE]]]
  /\ saved = [g \in Gens |-> {}]
  /\ job = [g \in Gens |-> NoJob]
  /\ stepper = [s \in Steppers |-> Idle]
  /\ worker = [pc |-> "idle", ref |-> 1, target |-> NoTarget, gens |-> {}]
  /\ open = TRUE /\ embeds = TRUE /\ faults = 0

Fault == faults < MaxFaults /\ faults' = faults + 1
Within(states) == {g \in Gens : state[g] \in states}
Live == Within({"building", "verifying", "active", "standby"})

(* The generation holds exactly the target: deleted, or live at its revision with every chunk. *)
HoldsIn(h, t) == IF t.gone THEN h.gone ELSE ~h.gone /\ h.rev = t.rev /\ h.full
Holds(g, r) == HoldsIn(held[g][r], auth[r])

(***************************************************************************)
(* Projecting one Ref into one generation.                                 *)
(***************************************************************************)
\* Checkpoints of the Ref that survive a position the generation holds.
Kept(g, r, rev) == {k \in saved[g] : k[1] # r \/ k[2] > rev}
Embeddable(g, r, t) == g \notin Vector \/ <<r, t.rev>> \in saved[g]
Plannable(g, r, t) == ~held[g][r].gone /\ held[g][r].rev <= t.rev /\ ~HoldsIn(held[g][r], t)
PlannedRow(h, t) == IF h.rev = 0 THEN [h EXCEPT !.rev = t.rev] ELSE h

(* A Ref only moves forward: a generation that deleted it or is past the target is left alone. *)
AppliedRow(g, r, t) ==
  LET h == held[g][r] IN
  CASE h.gone -> h
    [] ~h.gone /\ t.gone -> [rev |-> Max({h.rev, t.rev}), gone |-> TRUE, full |-> FALSE]
    [] ~h.gone /\ ~t.gone /\ (h.rev > t.rev \/ HoldsIn(h, t)) -> h
    [] OTHER -> IF Embeddable(g, r, t) THEN [rev |-> t.rev, gone |-> FALSE, full |-> TRUE] ELSE PlannedRow(h, t)

Blocked(g, r, t) == ~t.gone /\ ~held[g][r].gone /\ held[g][r].rev <= t.rev
                    /\ ~HoldsIn(held[g][r], t) /\ ~Embeddable(g, r, t)
AppliedSaved(g, r, t) ==
  IF held[g][r].gone \/ Blocked(g, r, t) THEN saved[g]
  ELSE IF t.gone THEN Kept(g, r, MaxRev) ELSE Kept(g, r, Max({held[g][r].rev, t.rev}))

Project(gs, r, t) ==
  /\ held' = [g \in Gens |-> IF g \in gs THEN [held[g] EXCEPT ![r] = AppliedRow(g, r, t)] ELSE held[g]]
  /\ saved' = [g \in Gens |-> IF g \in gs THEN AppliedSaved(g, r, t) ELSE saved[g]]

(* Outside any transaction: the embeddings of the generations it may embed for. *)
Prepare(gs, r, t) ==
  LET able == {g \in gs \cap Vector : g \in Live /\ Plannable(g, r, t)} IN
  /\ held' = [g \in Gens |-> IF g \in able THEN [held[g] EXCEPT ![r] = PlannedRow(@, t)] ELSE held[g]]
  /\ saved' = [g \in Gens |-> IF g \in able THEN saved[g] \cup {<<r, t.rev>>} ELSE saved[g]]

(***************************************************************************)
(* Authority and the worker that delivers its changes.                     *)
(***************************************************************************)
Change(r) ==
  /\ open /\ ~auth[r].gone /\ auth[r].rev < MaxRev
  /\ \E gone \in IF auth[r].rev = 0 THEN {FALSE} ELSE BOOLEAN :
       auth' = [auth EXCEPT ![r] = [rev |-> @.rev + 1, gone |-> gone]]
  /\ due' = due \cup {r}
  /\ UNCHANGED <<state, pruned, held, saved, job, stepper, worker, open, embeds, faults>>

Take(r) ==
  /\ open /\ worker.pc = "idle" /\ r \in due
  /\ worker' = [pc |-> "taken", ref |-> r, target |-> auth[r], gens |-> {}]
  /\ IF embeds /\ ~auth[r].gone THEN Prepare(Gens, r, auth[r]) ELSE UNCHANGED <<held, saved>>
  /\ UNCHANGED <<auth, due, state, pruned, job, stepper, open, embeds, faults>>

Delivered == Live

LoadGenerations ==
  /\ worker.pc = "taken"
  /\ worker' = IF open THEN [worker EXCEPT !.pc = "apply", !.gens = Delivered] ELSE [worker EXCEPT !.pc = "idle"]
  /\ UNCHANGED <<auth, due, state, pruned, held, saved, job, stepper, open, embeds, faults>>

\* ...locks each against retirement, and ends by checking that authority still holds the target.
Locked == worker.gens \cap Live
AuthorityHolds(r, t) == auth[r] = t

Deliver ==
  LET r == worker.ref t == worker.target IN
  /\ worker.pc = "apply"
  /\ worker' = [worker EXCEPT !.pc = "idle", !.gens = {}, !.target = NoTarget]
  /\ IF open /\ AuthorityHolds(r, t)
     THEN /\ Project(Locked, r, t)
          /\ due' = IF \E g \in Locked : Blocked(g, r, t) THEN due ELSE due \ {r}
     ELSE UNCHANGED <<held, saved, due>>
  /\ UNCHANGED <<auth, state, pruned, job, stepper, open, embeds, faults>>

(***************************************************************************)
(* The operator's operations, each one transaction behind the scope fence. *)
(***************************************************************************)
Move(g, to) == [state EXCEPT ![g] = to]
Control == open /\ UNCHANGED <<auth, due, worker, stepper, embeds, open, faults>>

\* The next number; the storage refuses a second generation being built or verified.
Start(g) ==
  /\ Control
  /\ state[g] = "none" /\ \A h \in 1..(g - 1) : state[h] # "none"
  /\ Within({"building", "verifying"}) = {}
  /\ g \in Vector => embeds
  /\ state' = Move(g, "building")
  /\ UNCHANGED <<pruned, held, saved, job>>

\* Only a generation whose verification ended without a mismatch.
Activatable(g) == state[g] = "verifying" /\ job[g].phase = "verified"

Activate(g) ==
  /\ Control /\ Activatable(g)
  /\ state' = [h \in Gens |-> IF h = g THEN "active"
                              ELSE IF state[h] = "active" THEN "standby"
                              ELSE IF state[h] = "standby" THEN "retired" ELSE state[h]]
  /\ UNCHANGED <<pruned, held, saved, job>>

(* Wrong: rolls back even with nothing to roll back to. *)
StandbyAny == Within({"standby", "active"})
Standby == Within({"standby"})

Rollback ==
  /\ Control /\ Standby # {}
  /\ state' = [h \in Gens |-> IF state[h] = "active" THEN "retired"
                              ELSE IF h \in Standby THEN "active" ELSE state[h]]
  /\ UNCHANGED <<pruned, held, saved, job>>

Retire(g) ==
  /\ Control /\ state[g] \in {"building", "verifying", "standby"}
  /\ state' = Move(g, "retired")
  /\ job' = IF job[g].phase \in {"backfill", "verify"} THEN [job EXCEPT ![g].phase = "abandoned"] ELSE job
  /\ UNCHANGED <<pruned, held, saved>>

Reverify(g) ==
  /\ Control /\ state[g] = "verifying" /\ job[g].phase \in {"verified", "failed"} /\ job[g].checks < MaxChecks
  /\ job' = [job EXCEPT ![g] = [@ EXCEPT !.phase = "verify", !.cursor = 0, !.verified = 0, !.mismatched = 0,
                                         !.lease = NoStepper, !.live = FALSE, !.checks = @ + 1]]
  /\ UNCHANGED <<state, pruned, held, saved>>

Cleared(h) == [h EXCEPT !.full = FALSE]

\* A batch of a retired generation's rows; a transaction that finds none left marks it pruned.
Prune(g) ==
  LET left == {r \in Refs : held[g][r].full \/ \E k \in saved[g] : k[1] = r} IN
  /\ Control /\ state[g] = "retired" /\ g \notin pruned
  /\ IF left = {} THEN pruned' = pruned \cup {g} /\ UNCHANGED <<held, saved>>
     ELSE \E r \in left : /\ held' = [held EXCEPT ![g][r] = Cleared(@)]
                          /\ saved' = [saved EXCEPT ![g] = Kept(g, r, MaxRev)]
                          /\ UNCHANGED pruned
  /\ UNCHANGED <<state, job>>

(***************************************************************************)
(* A step: it leases the rebuild and advances it Ref by Ref.               *)
(***************************************************************************)
PhaseState(phase) == IF phase = "backfill" THEN "building" ELSE "verifying"
Embeds(g) == g \notin Vector \/ embeds
Steps == UNCHANGED <<auth, due, pruned, worker, open, embeds>>
Is(s, pc) == stepper[s].pc = pc
Goto(s, pc) == stepper' = [stepper EXCEPT ![s].pc = pc]
Leave(s) == stepper' = [stepper EXCEPT ![s] = Idle]

Eligible(g) == /\ open /\ job[g].phase \in {"backfill", "verify"} /\ ~job[g].live
               /\ state[g] = PhaseState(job[g].phase) /\ Embeds(g)

Claim(s, g) ==
  /\ Steps /\ Is(s, "idle") /\ Eligible(g)
  /\ job' = [job EXCEPT ![g] = [@ EXCEPT !.lease = s, !.live = TRUE]]
  /\ stepper' = [stepper EXCEPT ![s] = [Idle EXCEPT !.pc = "load", !.gen = g, !.phase = job[g].phase,
                                                    !.from = job[g].cursor, !.cursor = job[g].cursor]]
  /\ UNCHANGED <<state, held, saved, faults>>

\* The generation as it is now, then the next Refs after the progress's cursor.
After(c) == {r \in Refs : auth[r].rev > 0 /\ r > c}
FirstPage(c) == {r \in After(c) : Cardinality({q \in After(c) : q < r}) < Page}

LoadPage(s) ==
  /\ Steps /\ Is(s, "load")
  /\ LET x == stepper[s] refs == FirstPage(x.cursor) IN
       stepper' = [stepper EXCEPT ![s] =
         IF state[x.gen] = "retired" THEN Idle
         ELSE [x EXCEPT !.page = refs, !.pc = IF ~Embeds(x.gen) THEN "settle"
                                               ELSE IF refs = {} THEN "finish" ELSE "read"]]
  /\ UNCHANGED <<state, held, saved, job, faults>>

Passed(x, r) == [x EXCEPT !.cursor = r, !.done = @ + 1, !.page = @ \ {r}, !.target = NoTarget,
                          !.pc = IF x.page = {r} THEN "save" ELSE "read"]
Reset(x) == [x EXCEPT !.from = x.cursor, !.done = 0, !.missed = 0]

ReadRef(s) ==
  /\ Steps /\ Is(s, "read")
  /\ LET x == stepper[s] r == Min(x.page) IN
       stepper' = [stepper EXCEPT ![s] =
         IF ~open THEN [x EXCEPT !.pc = "settle"]
         ELSE IF Holds(x.gen, r) THEN Passed(x, r)
         ELSE [x EXCEPT !.pc = IF auth[r].gone THEN "apply" ELSE "prepare", !.target = auth[r]]]
  /\ UNCHANGED <<state, held, saved, job, faults>>

PrepareRef(s) ==
  /\ Steps /\ Is(s, "prepare")
  /\ LET x == stepper[s] r == Min(x.page) IN
       IF ~Embeds(x.gen) THEN Goto(s, "settle") /\ UNCHANGED <<held, saved>>
       ELSE IF open THEN Prepare({x.gen}, r, x.target) /\ Goto(s, "apply")
       ELSE Goto(s, "apply") /\ UNCHANGED <<held, saved>>
  /\ UNCHANGED <<state, job, faults>>

FailedRef(x, r) ==
  IF x.phase = "backfill" THEN [x EXCEPT !.pc = "settle"]
  ELSE [x EXCEPT !.missed = @ + 1, !.cursor = r, !.page = {}, !.target = NoTarget, !.pc = "save"]

FailRef(s) ==
  /\ Steps /\ (Is(s, "prepare") \/ Is(s, "apply")) /\ Fault
  /\ \E outage \in BOOLEAN :
       stepper' = [stepper EXCEPT ![s] = IF outage THEN [@ EXCEPT !.pc = "settle"]
                                         ELSE FailedRef(stepper[s], Min(stepper[s].page))]
  /\ UNCHANGED <<state, held, saved, job>>

\* The lease, which must still last to project a Ref, and the job's place, which progress is written over once.
Leases(s) == LET x == stepper[s] IN job[x.gen].lease = s /\ job[x.gen].phase = x.phase
Writes(s) == Leases(s) /\ job[stepper[s].gen].cursor = stepper[s].from

Written(s, x) ==
  LET j == job[x.gen] back == x.phase = "backfill" IN
  [j EXCEPT !.cursor = x.cursor, !.backfilled = IF back THEN @ + x.done ELSE @,
            !.verified = IF back THEN @ ELSE @ + x.done, !.mismatched = @ + x.missed]

InPhase(x) == state[x.gen] = PhaseState(x.phase)

ApplyRef(s) ==
  LET x == stepper[s] r == Min(x.page) IN
  /\ Steps /\ Is(s, "apply")
  /\ \/ /\ ~open \/ ~AuthorityHolds(r, x.target) \/ Blocked(x.gen, r, x.target)
        /\ Goto(s, "settle") /\ UNCHANGED <<held, saved, job, faults>>
     \/ /\ open /\ (~InPhase(x) \/ ~Leases(s) \/ ~job[x.gen].live \/ ~Writes(s))
        /\ Leave(s) /\ UNCHANGED <<held, saved, job, faults>>
     \/ /\ open /\ InPhase(x) /\ job[x.gen].live /\ Writes(s)
        /\ AuthorityHolds(r, x.target) /\ ~Blocked(x.gen, r, x.target)
        /\ Project({x.gen}, r, x.target)
        /\ job' = [job EXCEPT ![x.gen] = Written(s, [x EXCEPT !.cursor = r, !.done = @ + 1])]
        /\ \/ faults' = faults /\ stepper' = [stepper EXCEPT ![s] = Reset(Passed(x, r))]
           \/ Fault /\ Goto(s, "settle")   \* it landed, and the step does not know
  /\ UNCHANGED state

Save(s) ==
  LET x == stepper[s] IN
  /\ Steps /\ Is(s, "save")
  /\ IF Writes(s)
     THEN /\ job' = [job EXCEPT ![x.gen] = Written(s, x)]
          /\ \/ faults' = faults /\ stepper' = [stepper EXCEPT ![s] = [Reset(x) EXCEPT !.pc = "load"]]
             \/ Fault /\ Goto(s, "settle")
     ELSE Leave(s) /\ UNCHANGED <<job, faults>>
  /\ UNCHANGED <<state, held, saved>>

(* Progress is written unless the job is past it, and the job is released under its lease. *)
Settle(s) ==
  LET x == stepper[s] IN
  /\ Steps /\ Is(s, "settle")
  /\ job' = IF ~Leases(s) THEN job
            ELSE [job EXCEPT ![x.gen] = [IF Writes(s) THEN Written(s, x) ELSE job[x.gen]
                                           EXCEPT !.lease = NoStepper, !.live = FALSE]]
  /\ Leave(s) /\ UNCHANGED <<state, held, saved, faults>>

\* The phase's end: a backfill moves its generation and goes on to verify; a verification is judged.
Judged(j) == IF j.mismatched = 0 THEN "verified" ELSE "failed"
Ended(j) ==
  IF j.phase = "backfill" THEN [j EXCEPT !.phase = "verify", !.cursor = 0]
  ELSE [j EXCEPT !.phase = Judged(j), !.lease = NoStepper, !.live = FALSE]

FinishPhase(s) ==
  LET x == stepper[s] IN
  /\ Steps /\ Is(s, "finish")
  /\ IF open /\ InPhase(x) /\ Writes(s) /\ job[x.gen].live
     THEN /\ job' = [job EXCEPT ![x.gen] = Ended(Written(s, x))]
          /\ state' = IF x.phase = "backfill" THEN Move(x.gen, "verifying") ELSE state
          /\ \/ /\ faults' = faults
                /\ IF x.phase = "verify" THEN Leave(s)
                   ELSE stepper' = [stepper EXCEPT ![s] = [Idle EXCEPT !.pc = "load", !.gen = x.gen, !.phase = "verify"]]
             \/ Fault /\ Goto(s, "settle")
     ELSE Leave(s) /\ UNCHANGED <<state, job, faults>>
  /\ UNCHANGED <<held, saved>>

\* The step's budget ends between two transactions.
Stop(s) ==
  /\ Steps /\ (Is(s, "load") \/ Is(s, "read")) /\ Fault
  /\ Goto(s, "settle") /\ UNCHANGED <<state, held, saved, job>>

(***************************************************************************)
(* Faults and the policy.                                                  *)
(***************************************************************************)
Crash(s) ==
  /\ Steps /\ ~Is(s, "idle") /\ Fault
  /\ Leave(s) /\ UNCHANGED <<state, held, saved, job>>
Expire(g) ==
  /\ Steps /\ job[g].live /\ Fault
  /\ job' = [job EXCEPT ![g].live = FALSE] /\ UNCHANGED <<state, held, saved, stepper>>
WorkerStops ==
  /\ worker.pc # "idle" /\ Fault
  /\ worker' = [worker EXCEPT !.pc = "idle", !.gens = {}, !.target = NoTarget]
  /\ UNCHANGED <<auth, due, state, pruned, held, saved, job, stepper, open, embeds>>
Environment ==
  /\ \/ Fault /\ open /\ open' = FALSE /\ UNCHANGED embeds
     \/ ~open /\ open' = TRUE /\ UNCHANGED <<embeds, faults>>
     \/ Fault /\ Vector # {} /\ embeds /\ embeds' = FALSE /\ UNCHANGED open
     \/ ~embeds /\ embeds' = TRUE /\ UNCHANGED <<open, faults>>
  /\ UNCHANGED <<auth, due, state, pruned, held, saved, job, stepper, worker>>

Advance(s) == \/ \E g \in Gens : Claim(s, g)
              \/ LoadPage(s) \/ ReadRef(s) \/ PrepareRef(s) \/ ApplyRef(s) \/ Save(s) \/ Settle(s) \/ FinishPhase(s)
Delivery == (\E r \in Refs : Take(r)) \/ LoadGenerations \/ Deliver

Next ==
  \/ \E r \in Refs : Change(r)
  \/ Delivery
  \/ \E g \in Gens : Start(g) \/ Activate(g) \/ Retire(g) \/ Reverify(g) \/ Prune(g) \/ Expire(g)
  \/ Rollback
  \/ \E s \in Steppers : Advance(s) \/ FailRef(s) \/ Stop(s) \/ Crash(s)
  \/ WorkerStops \/ Environment

Spec == Init /\ [][Next]_vars

(* Steps are called again and again, the worker runs, what a failure used up its time for ends:
   a lease runs out, a suspended space reopens and an embedder is configured again. *)
Returns(g) == job[g].live /\ (\A s \in Steppers : stepper[s].pc = "idle" \/ stepper[s].gen # g)
              /\ job' = [job EXCEPT ![g].live = FALSE]
              /\ UNCHANGED <<auth, due, state, pruned, held, saved, stepper, worker, open, embeds, faults>>

-----------------------------------------------------------------------------
(* Every variable keeps its type. *)
TypeOK ==
  /\ auth \in [Refs -> [rev : 0..MaxRev, gone : BOOLEAN]] /\ due \subseteq Refs
  /\ state \in [Gens -> GenStates] /\ pruned \subseteq Gens
  /\ held \in [Gens -> [Refs -> [rev : 0..MaxRev, gone : BOOLEAN, full : BOOLEAN]]]
  /\ saved \in [Gens -> SUBSET (Refs \X (1..MaxRev))]
  /\ \A g \in Gens : job[g].phase \in Phases /\ {job[g].cursor, job[g].backfilled, job[g].verified, job[g].mismatched} \subseteq 0..NRefs
                     /\ job[g].lease \in Steppers \cup {NoStepper} /\ job[g].live \in BOOLEAN
  /\ \A s \in Steppers : stepper[s].pc \in {"idle", "load", "read", "prepare", "apply", "save", "settle", "finish"}
  /\ worker.pc \in {"idle", "taken", "apply"} /\ worker.gens \subseteq Gens
  /\ open \in BOOLEAN /\ embeds \in BOOLEAN /\ faults \in 0..MaxFaults

(* What search reads, what a rollback would restore and what an activation would bring in hold
   authority exactly, but for the Refs whose last change is not delivered yet. *)
ServedIsComplete ==
  \A g \in Gens : (state[g] \in {"active", "standby"} \/ (state[g] = "verifying" /\ job[g].phase = "verified")) =>
    \A r \in Refs : auth[r].rev > 0 /\ r \notin due => Holds(g, r)

(* A generation marked pruned has no chunk and no checkpoint, and none comes back. *)
PrunedStaysEmpty == \A g \in pruned : saved[g] = {} /\ \A r \in Refs : ~held[g][r].full

(* A phase counts each Ref once: no more than lie at or before its cursor, whatever answer was lost. *)
CountedOnce ==
  \A g \in Gens : LET j == job[g] IN
    /\ j.phase = "backfill" => j.backfilled <= j.cursor
    /\ j.phase = "verify" => j.verified + j.mismatched <= j.cursor

(* A checkpoint is of a revision its generation does not hold yet: an apply of the Ref removes it. *)
NoStrayCheckpoint ==
  \A g \in Live : \A k \in saved[g] :
    LET h == held[g][k[1]] IN ~h.gone /\ (h.full => k[2] > h.rev)

(* What a generation holds of a Ref only moves forward, and a deletion is final. *)
OnlyForward == \A g \in Gens, r \in Refs :
  /\ held'[g][r].rev >= held[g][r].rev
  /\ held[g][r].gone => held'[g][r].gone

(* Search never loses its generation: once one is active, one stays active. *)
SearchNeverLost == Within({"active"}) # {} => \E g \in Gens : state'[g] = "active"

(* A rebuild ends: verified, failed or abandoned. *)
RebuildsEnd == \A g \in Gens : state[g] \in {"building", "verifying"} => job[g].phase \in {"verified", "failed", "abandoned"}
=============================================================================
