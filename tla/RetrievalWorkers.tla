-------------------------- MODULE RetrievalWorkers --------------------------
(****************************************************************************)
(* Projecting one Ref into a collection's generations                       *)
(* (packages/postgres/src/retrieval.ts and migration 045).  Every change    *)
(* of the Ref enqueues one unit of work; a worker leases a unit, reads the  *)
(* Ref, embeds its chunks outside SQL, saving each batch as checkpoints,    *)
(* and applies the Ref to every generation in one fenced transaction.  A    *)
(* step is one transaction or one embedding call.  Policies narrow, the Ref *)
(* changes, generations retire, leases run out, answers are lost and        *)
(* processes stop in between.  The Ref is evidence delivered by the         *)
(* retrieval outbox, or, with Records, a record delivered by the record     *)
(* outbox through RecordRetrievalProjector.  What is abstracted: a chunk's  *)
(* text is a number, the first chunk's the same in every revision; a batch  *)
(* is one chunk; time is whether a lease lasts, and delays are left out.    *)
(****************************************************************************)
EXTENDS Naturals, FiniteSets, FiniteSetsExt

CONSTANTS Workers, NoWorker,
          NGens,     \* the collection's generations
          Vector,    \* those with vectors, embedded by a model every region has
          NChunks,   \* chunks of the Ref's content
          NRegions,  \* regions, in the policies' order
          MaxRev,    \* bounds the changes of the Ref
          MaxFaults, \* bounds failures, expiries, crashes, closures and narrower policies
          Records    \* the Ref is a record

WorkersAssumption ==
  /\ {NGens, NChunks, NRegions, MaxRev} \subseteq Nat \ {0} /\ MaxFaults \in Nat
  /\ Vector \subseteq 1..NGens /\ Records \in BOOLEAN /\ NoWorker \notin Workers

Gens == 1..NGens
Chunks == 1..NChunks
Text(c, rev) == IF c = 1 THEN 0 ELSE rev

VARIABLES auth,    \* the Ref's revision and whether it is deleted
          work,    \* the unit of work of each change
          live,    \* generations that are not retired
          allowed, \* regions the collection's current policy allows
          held,    \* each generation's projected Ref and its chunks' embeddings
          saved,   \* each generation's checkpoints
          worker, open, faults

vars == <<auth, work, live, allowed, held, saved, worker, open, faults>>

NoWork == [st |-> "none", lease |-> NoWorker, lasts |-> FALSE]
Idle == [pc |-> "idle", job |-> 1, target |-> [rev |-> 0, gone |-> FALSE], todo |-> {}, regions |-> {},
         missing |-> {}, batch |-> {}, failed |-> FALSE]
\* An embedding of the text `of`, kept for a chunk under the digest of the text it stands for.
Embedding(c, of, text, region) == [chunk |-> c, of |-> of, text |-> text, region |-> region]
Embeddings(g) == held[g].vectors \cup {k.embedding : k \in saved[g]}

Init ==
  /\ auth = [rev |-> 0, gone |-> FALSE]
  /\ work = [j \in 1..MaxRev |-> NoWork]
  /\ live = Gens /\ allowed = 1..NRegions
  /\ held = [g \in Gens |-> [rev |-> 0, gone |-> FALSE, full |-> FALSE, vectors |-> {}]]
  /\ saved = [g \in Gens |-> {}]
  /\ worker = [w \in Workers |-> Idle] /\ open = TRUE /\ faults = 0

Fault == faults < MaxFaults /\ faults' = faults + 1
Quiet == UNCHANGED <<auth, live, allowed, open>>
Is(w, pc) == worker[w].pc = pc
Set(w, x) == worker' = [worker EXCEPT ![w] = x]
Goto(w, pc) == Set(w, [worker[w] EXCEPT !.pc = pc])

(* The generation holds exactly the target. *)
Holds(h, t) == IF t.gone THEN h.gone ELSE ~h.gone /\ h.rev = t.rev /\ h.full

(* A change commits with its unit of work. *)
Change ==
  /\ open /\ ~auth.gone /\ auth.rev < MaxRev
  /\ \E gone \in IF auth.rev = 0 THEN {FALSE} ELSE BOOLEAN : auth' = [rev |-> auth.rev + 1, gone |-> gone]
  /\ work' = [work EXCEPT ![auth.rev + 1].st = "pending"]
  /\ UNCHANGED <<live, allowed, held, saved, worker, open, faults>>

(***************************************************************************)
(* A unit of work: leased, then started under a lease of its own.          *)
(***************************************************************************)
Due(j) == work[j].st = "pending" /\ ~work[j].lasts

Claim(w, j) ==
  /\ Quiet /\ Is(w, "idle") /\ open /\ Due(j)
  /\ work' = [work EXCEPT ![j] = [@ EXCEPT !.lease = w, !.lasts = TRUE]]
  /\ Set(w, [Idle EXCEPT !.pc = "start", !.job = j])
  /\ UNCHANGED <<held, saved, faults>>

Leases(w) == LET k == work[worker[w].job] IN k.st = "pending" /\ k.lease = w

Start(w) ==
  /\ Quiet /\ Is(w, "start")
  /\ LET lasts == Leases(w) /\ work[worker[w].job].lasts IN
       Set(w, IF ~lasts THEN Idle
              ELSE [worker[w] EXCEPT !.target = auth,
                      !.pc = IF ~open THEN "release" ELSE IF auth.gone THEN "apply" ELSE "load"])
  /\ UNCHANGED <<work, held, saved, faults>>

(***************************************************************************)
(* Preparation: each vector generation in turn, in a region both policies  *)
(* allow when it is loaded.                                                *)
(***************************************************************************)
Load(w) ==
  /\ Quiet /\ Is(w, "load")
  /\ Set(w, [worker[w] EXCEPT !.pc = "plan", !.todo = live \cap Vector, !.regions = allowed])
  /\ UNCHANGED <<work, held, saved, faults>>

Gen(x) == Min(x.todo)
NextGen(x, failed) == [x EXCEPT !.pc = "plan", !.todo = @ \ {Gen(x)}, !.batch = {}, !.missing = {},
                                !.failed = @ \/ failed]

(* Nothing is saved for a generation that is retired, deleted the Ref, is past the target or holds it. *)
MaySave(g, t) == open /\ g \in live /\ held[g].rev > 0
                 /\ ~held[g].gone /\ held[g].rev <= t.rev /\ ~Holds(held[g], t)

At(g, rev) == {k \in saved[g] : k.rev = rev}
(* An embedding of the same text already in the generation. *)
Known(g, c, t, regions) ==
  {Embedding(c, e.of, Text(c, t.rev), e.region) :
     e \in {e \in Embeddings(g) : e.text = Text(c, t.rev) /\ e.region \in regions}}

Plan(w) ==
  LET x == worker[w] g == Gen(x) t == x.target
      row == IF held[g].rev = 0 THEN [held[g] EXCEPT !.rev = t.rev] ELSE held[g]
      useful == ~row.gone /\ row.rev <= t.rev /\ ~Holds(row, t)
      kept == {k \in saved[g] : k.embedding.region \in x.regions}
      needed == {c \in Chunks : ~\E k \in kept : k.rev = t.rev /\ k.embedding.chunk = c}
      reusable == {c \in needed : Known(g, c, t, x.regions) # {}}
  IN
  /\ Quiet /\ Is(w, "plan")
  /\ \/ /\ x.todo = {}
        /\ Goto(w, IF x.failed /\ Records THEN "fallback" ELSE "apply") /\ UNCHANGED <<held, saved>>
     \/ /\ x.todo # {} /\ (x.regions = {} \/ ~open \/ g \notin live \/ ~useful)
        /\ Set(w, NextGen(x, x.regions = {}))
        /\ held' = IF open /\ g \in live /\ x.regions # {} THEN [held EXCEPT ![g] = row] ELSE held
        /\ UNCHANGED saved
     \/ /\ x.todo # {} /\ x.regions # {} /\ open /\ g \in live /\ useful
        /\ held' = [held EXCEPT ![g] = row] /\ saved' = [saved EXCEPT ![g] = kept]
        /\ Set(w, [x EXCEPT !.missing = needed \ reusable,
                            !.batch = {CHOOSE e \in Known(g, c, t, x.regions) : TRUE : c \in reusable},
                            !.pc = IF reusable # {} THEN "save" ELSE IF needed # {} THEN "embed" ELSE "plan",
                            !.todo = IF needed = {} THEN @ \ {g} ELSE @])
  /\ UNCHANGED <<work, faults>>

Region(x) == Min(x.regions)

\* Right before a call: the space is open, the generation live, the region allowed now, the Ref unchanged.
Embed(w) ==
  LET x == worker[w] IN
  /\ Quiet /\ Is(w, "embed")
  /\ Set(w, IF open /\ Gen(x) \in live /\ Region(x) \in allowed /\ auth = x.target
            THEN [x EXCEPT !.pc = "called"] ELSE NextGen(x, TRUE))
  /\ UNCHANGED <<work, held, saved, faults>>

Answer(w) ==
  LET x == worker[w] c == Min(x.missing) IN
  /\ Quiet /\ Is(w, "called")
  /\ \/ /\ faults' = faults
        /\ Set(w, [x EXCEPT !.pc = "save", !.missing = @ \ {c}, !.batch = LET t == Text(c, x.target.rev) IN {Embedding(c, t, t, Region(x))}])
     \/ Fault /\ Set(w, NextGen(x, TRUE))   \* an outage, or the budget
  /\ UNCHANGED <<work, held, saved>>

RegionsNow(x) == allowed

Save(w) ==
  LET x == worker[w] g == Gen(x) IN
  /\ Quiet /\ Is(w, "save")
  /\ \/ ~MaySave(g, x.target) /\ Set(w, NextGen(x, FALSE)) /\ UNCHANGED saved
     \/ /\ MaySave(g, x.target) /\ ~(\A e \in x.batch : e.region \in RegionsNow(x))
        /\ Set(w, NextGen(x, TRUE)) /\ UNCHANGED saved
     \/ /\ MaySave(g, x.target) /\ \A e \in x.batch : e.region \in RegionsNow(x)
        /\ saved' = [saved EXCEPT ![g] = @ \cup {[rev |-> x.target.rev, embedding |-> e] :
             e \in {e \in x.batch : ~\E k \in At(g, x.target.rev) : k.embedding.chunk = e.chunk}}]
        /\ Set(w, IF x.missing = {} THEN NextGen(x, FALSE) ELSE [x EXCEPT !.pc = "embed", !.batch = {}])
  /\ UNCHANGED <<work, held, faults>>

(***************************************************************************)
(* Applying a target to every live generation.                             *)
(***************************************************************************)
\* Checkpoints of exactly this text, from a region both policies allow.
Ready(g, t) == {k.embedding : k \in {k \in At(g, t.rev) : /\ k.embedding.region \in allowed
                                                          /\ k.embedding.text = Text(k.embedding.chunk, t.rev)}}
Blocked(g, t) == /\ g \in Vector /\ ~t.gone /\ ~held[g].gone /\ held[g].rev <= t.rev /\ ~Holds(held[g], t)
                 /\ {e.chunk : e \in Ready(g, t)} # Chunks

Applied(g, t) ==
  LET h == held[g] IN
  IF h.gone \/ (~t.gone /\ (h.rev > t.rev \/ Holds(h, t))) THEN h
  ELSE IF t.gone THEN [rev |-> Max({h.rev, t.rev}), gone |-> TRUE, full |-> FALSE, vectors |-> {}]
  ELSE IF Blocked(g, t) THEN (IF h.rev = 0 THEN [h EXCEPT !.rev = t.rev] ELSE h)
  ELSE [rev |-> t.rev, gone |-> FALSE, full |-> TRUE, vectors |-> IF g \in Vector THEN Ready(g, t) ELSE {}]

Left(g, t) == IF held[g].gone \/ Blocked(g, t) THEN saved[g]
              ELSE IF t.gone THEN {} ELSE {k \in saved[g] : k.rev > Max({held[g].rev, t.rev})}

ApplyTarget(t) ==
  /\ held' = [g \in Gens |-> IF g \in live THEN Applied(g, t) ELSE held[g]]
  /\ saved' = [g \in Gens |-> IF g \in live THEN Left(g, t) ELSE saved[g]]
SomeBlocked(t) == \E g \in live : Blocked(g, t)

AuthorityHolds(t) == t = auth

Released(j) == [work[j] EXCEPT !.lease = NoWorker, !.lasts = FALSE]
(* Wrong: work is done once the generations that could be applied have been. *)
DoneApplied(j, t) == [Released(j) EXCEPT !.st = "delivered"]
(* Delivered once no generation is missing embeddings, otherwise due again. *)
Done(j, t) == IF SomeBlocked(t) THEN Released(j) ELSE [Released(j) EXCEPT !.st = "delivered"]

\* A record's completion applies all its generations or none; an item of evidence applies those it can.
Apply(w) ==
  LET x == worker[w] j == x.job t == x.target IN
  /\ Quiet /\ Is(w, "apply")
  /\ IF ~(Leases(w) /\ work[j].lasts) THEN Set(w, Idle) /\ UNCHANGED <<work, held, saved, faults>>
     ELSE \/ /\ Set(w, Idle)
             /\ IF open /\ AuthorityHolds(t) /\ ~(Records /\ SomeBlocked(t))
                THEN ApplyTarget(t) /\ work' = [work EXCEPT ![j] = Done(j, t)]
                ELSE work' = [work EXCEPT ![j] = Released(j)] /\ UNCHANGED <<held, saved>>
             /\ faults' \in {faults} \cup (IF faults < MaxFaults THEN {faults + 1} ELSE {})  \* answered or not
          \/ Fault /\ Set(w, Idle) /\ UNCHANGED <<work, held, saved>>       \* it did not land; the lease runs out

(* A record whose preparation failed: the generations that do not need it, in a transaction of its own. *)
Fallback(w) ==
  LET x == worker[w] t == x.target IN
  /\ Quiet /\ Is(w, "fallback")
  /\ IF open /\ AuthorityHolds(t) THEN ApplyTarget(t) ELSE UNCHANGED <<held, saved>>
  /\ Goto(w, IF ~open \/ ~SomeBlocked(t) THEN "apply" ELSE "release")
  /\ UNCHANGED <<work, faults>>

Release(w) ==
  /\ Quiet /\ Is(w, "release")
  /\ work' = IF Leases(w) THEN [work EXCEPT ![worker[w].job] = Released(worker[w].job)] ELSE work
  /\ Set(w, Idle) /\ UNCHANGED <<held, saved, faults>>

(***************************************************************************)
(* Everything else that moves.                                             *)
(***************************************************************************)
Crash(w) == /\ Quiet /\ ~Is(w, "idle") /\ Fault
            /\ Set(w, Idle) /\ UNCHANGED <<work, held, saved>>
Expires(j) == work[j].lasts /\ work' = [work EXCEPT ![j].lasts = FALSE]
Expire(j) == Quiet /\ Expires(j) /\ Fault /\ UNCHANGED <<held, saved, worker>>
Abandoned(j) == /\ \A w \in Workers : worker[w].pc = "idle" \/ worker[w].job # j
                /\ Quiet /\ Expires(j) /\ UNCHANGED <<held, saved, worker, faults>>
Policy == /\ Fault /\ \E r \in allowed : allowed' = allowed \ {r}
          /\ allowed' # {} /\ UNCHANGED <<auth, work, live, held, saved, worker, open>>
Retire(g) == /\ g \in live /\ live # {g} /\ Fault /\ live' = live \ {g}
             /\ UNCHANGED <<auth, work, allowed, held, saved, worker, open>>
Close == open /\ Fault /\ open' = FALSE /\ UNCHANGED <<auth, work, live, allowed, held, saved, worker>>
Reopen == ~open /\ open' = TRUE /\ UNCHANGED <<auth, work, live, allowed, held, saved, worker, faults>>

Prepare(w) == Load(w) \/ Plan(w) \/ Embed(w) \/ Answer(w) \/ Save(w)
Process(w) == (\E j \in 1..MaxRev : Claim(w, j)) \/ Start(w) \/ Prepare(w) \/ Apply(w) \/ Fallback(w) \/ Release(w)

Next ==
  \/ Change \/ Policy \/ Close \/ Reopen
  \/ \E g \in Gens : Retire(g)
  \/ \E j \in 1..MaxRev : Expire(j) \/ Abandoned(j)
  \/ \E w \in Workers : Process(w) \/ Crash(w)

Spec == Init /\ [][Next]_vars

-----------------------------------------------------------------------------
(* Every variable keeps its type, and a lease that lasts is someone's. *)
TypeOK ==
  /\ auth.rev \in 0..MaxRev /\ live \subseteq Gens /\ allowed \subseteq 1..NRegions
  /\ \A j \in 1..MaxRev : work[j].st \in {"none", "pending", "delivered"} /\ work[j].lease \in Workers \cup {NoWorker}
  /\ \A j \in 1..MaxRev : work[j].lasts => work[j].st = "pending" /\ work[j].lease # NoWorker
  /\ \A w \in Workers : worker[w].todo \subseteq Gens /\ worker[w].missing \subseteq Chunks

(* Once the work of the Ref's last change is delivered, every generation that is not retired holds it. *)
DeliveredIsHeld ==
  auth.rev > 0 /\ work[Max({1, auth.rev})].st = "delivered" => \A g \in live : Holds(held[g], auth)

(* Every embedding a generation serves is of exactly that revision's text. *)
EmbeddingsAreOfTheText ==
  \A g \in Gens :
    /\ held[g].full => \A e \in held[g].vectors : e.of = Text(e.chunk, held[g].rev)
    /\ held[g].full /\ g \in Vector => {e.chunk : e \in held[g].vectors} = Chunks

(* A checkpoint is of a revision that an apply of the Ref is still to come for; none is of a deleted Ref. *)
NoStrayCheckpoint ==
  \A g \in live : \A k \in saved[g] : ~held[g].gone /\ (held[g].full => k.rev > held[g].rev)

(* An embedding is stored only while the policies allow the region it was computed in. *)
StoredWhereAllowed ==
  \A g \in Gens : \A k \in saved'[g] : k \notin saved[g] => k.embedding.region \in allowed

(* What a generation holds of the Ref only moves forward, and its deletion is final. *)
OnlyForward ==
  \A g \in Gens : held'[g].rev >= held[g].rev /\ (held[g].gone => held'[g].gone)
                     /\ (held[g].full /\ ~held'[g].full => held'[g].gone)

(* Every change's work is delivered in the end. *)
AllDelivered == \A j \in 1..MaxRev : work[j].st # "pending"
=============================================================================
