---------------------------- MODULE RetrievalTurns ----------------------------
(****************************************************************************)
(* Whose turn it is in the retrieval outbox (packages/postgres/src/         *)
(* retrieval.ts and migration 046): space and collection pairs with pending *)
(* work form a ring, a claim walks it from the pair after a cell-wide       *)
(* cursor and leases a few items of each pair, and a step that runs out of  *)
(* time gives back what it never started, and the cursor with it.  A claim  *)
(* and a release are one transaction each; RetrievalWorkers models what     *)
(* happens to an item.  Items of one pair are alike and only counted.       *)
(****************************************************************************)
EXTENDS Naturals, Sequences, FiniteSets, FiniteSetsExt, SequencesExt

CONSTANTS Workers,
          NPairs,    \* pairs, in ring order; 0 is a cursor that was never moved
          PerPair, Limit, Walk,  \* a claim's bounds: items of a pair, items, pairs walked
          MaxWalked, \* pairs a step walks without finding work
          MaxItems,  \* bounds a pair's backlog
          MaxFaults  \* bounds steps cut short, crashes and closures

TurnsAssumption ==
  {NPairs, PerPair, Limit, Walk, MaxWalked, MaxItems} \subseteq Nat \ {0} /\ MaxFaults \in Nat

Pairs == 1..NPairs

VARIABLES due, later,  \* each pair's items that are due, and that are pending but not due
          open,        \* pairs whose space and collection admit projection
          cursor, worker,
          passed,      \* claims that served others while a pair had due work
          faults

vars == <<due, later, open, cursor, worker, passed, faults>>

NoClaim == [pc |-> "idle", jobs |-> <<>>, last |-> 0, before |-> 0, stored |-> 0, walked |-> 0,
            over |-> {}]  \* pairs this claim passed over

Init ==
  /\ due \in [Pairs -> 0..1] /\ later = [p \in Pairs |-> 0] /\ open = Pairs
  /\ cursor = 0 /\ worker = [w \in Workers |-> NoClaim] /\ passed = [p \in Pairs |-> 0] /\ faults = 0

Fault == faults < MaxFaults /\ faults' = faults + 1
Set(w, x) == worker' = [worker EXCEPT ![w] = x]

Held(p) == Cardinality({t \in Workers \X (1..Limit) : t[2] \in DOMAIN worker[t[1]].jobs /\ worker[t[1]].jobs[t[2]] = p})
Backlog(p) == due[p] + later[p] + Held(p)
Due(p) == due[p] > 0 /\ p \in open

Enqueue(p) == /\ Backlog(p) < MaxItems /\ due' = [due EXCEPT ![p] = @ + 1]
              /\ UNCHANGED <<later, open, cursor, worker, passed, faults>>
Returns(p) == /\ later[p] > 0 /\ later' = [later EXCEPT ![p] = @ - 1] /\ due' = [due EXCEPT ![p] = @ + 1]
              /\ UNCHANGED <<open, cursor, worker, passed, faults>>
Close(p) == p \in open /\ Fault /\ open' = open \ {p} /\ UNCHANGED <<due, later, cursor, worker, passed>>

Begin(w) == /\ worker[w].pc = "idle" /\ Set(w, [NoClaim EXCEPT !.pc = "claim"])
            /\ UNCHANGED <<due, later, open, cursor, passed, faults>>

-----------------------------------------------------------------------------
(* Pairs with pending work, from the one after the cursor around to it, as many as a claim walks. *)
Ring == LET pending(p) == Backlog(p) > 0
            all == SelectSeq([i \in 1..NPairs |-> ((cursor + i - 1) % NPairs) + 1], pending)
        IN SubSeq(all, 1, Min({Walk, Len(all)}))

Wrapped(ring) == Len(ring) < Walk

Share(p) == IF p \in open THEN [i \in 1..Min({PerPair, due[p]}) |-> p] ELSE <<>>
Claimed(ring) == LET all == FlattenSeq([i \in DOMAIN ring |-> Share(ring[i])]) IN SubSeq(all, 1, Min({Limit, Len(all)}))

(* Wrong: the cursor moves past every pair walked, served or not. *)
LastWalked(ring, jobs) == IF ring # <<>> THEN ring[Len(ring)] ELSE 0
(* The last pair served, or past the pairs walked when none was and more are ahead; 0 stores nothing. *)
LastTurn(ring, jobs) == IF jobs # <<>> THEN jobs[Len(jobs)] ELSE IF Wrapped(ring) THEN 0 ELSE ring[Len(ring)]

Claim(w) == \E ring \in {Ring} : \E jobs \in {Claimed(ring)} :
  LET x == worker[w]
      last == LastTurn(ring, jobs)
      taken == [p \in Pairs |-> Cardinality({i \in DOMAIN jobs : jobs[i] = p})]
      over == {p \in Pairs : Due(p) /\ taken[p] = 0}
  IN
  /\ x.pc = "claim" /\ cursor' = IF last = 0 THEN cursor ELSE last
  /\ due' = [p \in Pairs |-> due[p] - taken[p]]
  /\ passed' = [p \in Pairs |-> IF p \notin over THEN 0 ELSE IF jobs = <<>> THEN passed[p] ELSE Min({NPairs, passed[p] + 1})]
  /\ worker' = [v \in Workers |->
       IF v # w THEN worker[v]
       ELSE IF jobs # <<>> THEN [NoClaim EXCEPT !.pc = "work", !.jobs = jobs, !.before = cursor, !.stored = last, !.over = over]
       ELSE IF Wrapped(ring) \/ x.walked + Len(ring) >= MaxWalked THEN NoClaim
       ELSE [x EXCEPT !.walked = @ + Len(ring)]]
  /\ UNCHANGED <<later, open, faults>>

\* An item started is delivered, or due again later.
Process(w) ==
  LET x == worker[w] p == Head(x.jobs) IN
  /\ x.pc = "work" /\ x.jobs # <<>>
  /\ Set(w, IF Len(x.jobs) = 1 THEN [NoClaim EXCEPT !.pc = "claim"] ELSE [x EXCEPT !.jobs = Tail(@), !.last = p])
  /\ \/ later' = [later EXCEPT ![p] = @ + 1] \/ UNCHANGED later
  /\ UNCHANGED <<due, open, cursor, passed, faults>>

(* Back to the last pair whose item started, if the cursor is still where this claim left it. *)
Restored(x) == IF cursor = x.stored THEN (IF x.last # 0 THEN x.last ELSE x.before) ELSE cursor

\* Out of time: what never started is due again, or, when that fails, once its lease has run out.
Stop(w) ==
  LET x == worker[w] returned == [p \in Pairs |-> Cardinality({i \in DOMAIN x.jobs : x.jobs[i] = p})] IN
  /\ x.pc = "work" /\ Fault /\ Set(w, NoClaim)
  /\ \/ /\ due' = [p \in Pairs |-> due[p] + returned[p]] /\ cursor' = Restored(x)
        /\ passed' = [p \in Pairs |-> IF p \in x.over /\ x.last = 0 /\ passed[p] > 0 THEN passed[p] - 1 ELSE passed[p]]
        /\ UNCHANGED later
     \/ later' = [p \in Pairs |-> later[p] + returned[p]] /\ UNCHANGED <<due, cursor, passed>>
  /\ UNCHANGED open

Rest(w) == worker[w].pc = "claim" /\ Fault /\ Set(w, NoClaim) /\ UNCHANGED <<due, later, open, cursor, passed>>

Next ==
  \/ \E p \in Pairs : Enqueue(p) \/ Returns(p) \/ Close(p)
  \/ \E w \in Workers : Begin(w) \/ Claim(w) \/ Process(w) \/ Stop(w) \/ Rest(w)

Spec == Init /\ [][Next]_vars

-----------------------------------------------------------------------------
(* Every variable keeps its type, and no pair is owed more than it has. *)
TypeOK ==
  /\ cursor \in 0..NPairs /\ open \subseteq Pairs
  /\ \A p \in Pairs : due[p] \in 0..MaxItems /\ later[p] \in 0..MaxItems /\ Backlog(p) <= MaxItems
  /\ \A w \in Workers : Len(worker[w].jobs) <= Limit /\ (worker[w].pc = "work" <=> worker[w].jobs # <<>>)

(* A due pair is served within as many claims as there are pairs ahead of it, however long their backlogs. *)
ServedInTurn == \A p \in Pairs : Due(p) => passed[p] < NPairs

(* A step that found nothing in the whole ring leaves no due work behind. *)
IdleMeansNothingDue ==
  \A w \in Workers : worker[w].pc = "claim" /\ worker'[w] = NoClaim /\ faults' = faults =>
       (\A p \in Pairs : ~Due(p)) \/ worker[w].walked + Len(Ring) >= MaxWalked

(* Every due pair is leased in the end, behind pairs whose pending work is not due or whose space is closed. *)
DueUnserved(p) == Due(p) /\ Held(p) = 0
=============================================================================
