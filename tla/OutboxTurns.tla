----------------------------- MODULE OutboxTurns -----------------------------
(******************************************************************************)
(* Whose turn it is in the projection outbox (packages/postgres/src/outbox.ts *)
(* claim and packages/workers/src/index.ts dispatch): a claim walks the live  *)
(* space and collection pairs from a cell-wide cursor, shares its limit out   *)
(* by turns of the spaces, and lets the collections of a space take turns     *)
(* from the one after its last; a tick repeats claims until a run of empty    *)
(* ones has covered every pair.  A claim is one transaction under the         *)
(* cursor's lock.  ProjectionOutbox models what happens to a row; here the    *)
(* rows of a pair are alike and only counted.                                 *)
(******************************************************************************)
EXTENDS Naturals, Sequences, FiniteSets, FiniteSetsExt, SequencesExt

CONSTANTS SpaceOf,   \* the space of each pair, in the order of pairs
          Scan, Limit, PerSpace, InFlight,  \* a claim's bounds
          Patience,  \* claims that may serve others before a due pair
          Dispatchers,
          MaxItems,  \* bounds a pair's rows
          MaxFaults  \* bounds ticks cut short and lifecycle changes

OutboxTurnsAssumption ==
  /\ SpaceOf \in Seq(Nat \ {0}) /\ \A p, q \in DOMAIN SpaceOf : p <= q => SpaceOf[p] <= SpaceOf[q]
  /\ {Scan, Limit, PerSpace, InFlight, Patience, MaxItems} \subseteq Nat \ {0} /\ MaxFaults \in Nat

Pairs == DOMAIN SpaceOf
Owners == {SpaceOf[p] : p \in Pairs}

VARIABLES due, leased, later,  \* rows of a pair: due, in an unstarted lease, live but not due (started, backing off, parked)
          open,      \* spaces that are active or read only
          cursor,    \* outbox_dispatch_checkpoint: a pair, or 0
          rotation,  \* outbox_space_rotation: the pair of a space's last claimed turn, or 0
          tick,      \* a dispatcher's run of claims
          passed, faults

vars == <<due, leased, later, open, cursor, rotation, tick, passed, faults>>

NoTick == [pc |-> "idle", starts |-> 0,
           missing |-> {}]  \* pairs due since the run of empty claims began, and not walked by it; none once another's claim moves the cursor

Init ==
  /\ due \in [Pairs -> 0..1] /\ leased = [p \in Pairs |-> 0] /\ later = [p \in Pairs |-> 0]
  /\ open = Owners /\ cursor = 0 /\ rotation = [s \in Owners |-> 0]
  /\ tick = [d \in Dispatchers |-> NoTick] /\ passed = [p \in Pairs |-> 0] /\ faults = 0

Fault == faults < MaxFaults /\ faults' = faults + 1
Live(p) == due[p] + leased[p] + later[p]
Due(p) == due[p] > 0 /\ SpaceOf[p] \in open
DuePairs == {p \in Pairs : Due(p)}
Unstarted == SumFunction(leased)

Enqueue(p) == /\ Live(p) < MaxItems /\ due' = [due EXCEPT ![p] = @ + 1]
              /\ UNCHANGED <<leased, later, open, cursor, rotation, tick, passed, faults>>
\* A worker starts a lease; the row is delivered, or live and not due.
Start(p) == /\ leased[p] > 0 /\ leased' = [leased EXCEPT ![p] = @ - 1]
            /\ later' = [later EXCEPT ![p] = @ + 1] \/ UNCHANGED later
            /\ UNCHANGED <<due, open, cursor, rotation, tick, passed, faults>>
\* A hint is lost or its send failed: the lease expires or is released.
Lost(p) == /\ leased[p] > 0 /\ Fault /\ leased' = [leased EXCEPT ![p] = @ - 1] /\ due' = [due EXCEPT ![p] = @ + 1]
           /\ UNCHANGED <<later, open, cursor, rotation, tick, passed>>
Returns(p) == /\ later[p] > 0 /\ Fault /\ later' = [later EXCEPT ![p] = @ - 1] /\ due' = [due EXCEPT ![p] = @ + 1]
              /\ UNCHANGED <<leased, open, cursor, rotation, tick, passed>>
Suspend(s) == s \in open /\ Fault /\ open' = open \ {s} /\ UNCHANGED <<due, leased, later, cursor, rotation, tick, passed>>

-----------------------------------------------------------------------------
(* scanPairs: the live pairs after one bound and up to another, as many as count. *)
ScanPairs(from, through, count) ==
  LET live(p) == p > from /\ p <= through /\ Live(p) > 0
      all == SelectSeq([p \in Pairs |-> p], live)
  IN SubSeq(all, 1, Min({count, Len(all)}))
(* The walk: after the cursor to the end, then from the start through the cursor. *)
Walk == LET ahead == ScanPairs(cursor, Len(SpaceOf), Scan) IN
        ahead \o (IF cursor # 0 THEN ScanPairs(0, cursor, Scan - Len(ahead)) ELSE <<>>)
Wrapped == cursor = 0 \/ Len(ScanPairs(cursor, Len(SpaceOf), Scan)) < Scan
Whole(walk) == Len(walk) < Scan
ScanOf(walk) == IF Whole(walk) THEN "whole" ELSE IF Wrapped THEN "wrapped" ELSE "partial"

(* A collection at or before its space's last turn waits for those after it. *)
Rotated(p) == p <= rotation[SpaceOf[p]]
(* A space's share: each pair's first row, then each one's second, in rotated order. *)
TurnsOf(s, walk) ==
  LET nth(r) == LET fresh(p) == SpaceOf[p] = s /\ due[p] >= r /\ ~Rotated(p)
                    served(p) == SpaceOf[p] = s /\ due[p] >= r /\ Rotated(p)
                    all == SelectSeq([p \in Pairs |-> p], LAMBDA p : p \in Range(walk))
                IN SelectSeq(all, fresh) \o SelectSeq(all, served)
      all == FlattenSeq([r \in 1..PerSpace |-> nth(r)])
  IN IF s \in open THEN SubSeq(all, 1, Min({PerSpace, Len(all)})) ELSE <<>>
(* First every space's first turn in the order of the walk, then every one's second. *)
Picked(walk, limit) ==
  LET share == [s \in Owners |-> TurnsOf(s, walk)]
      at(t) == LET turn(p) == Len(share[SpaceOf[p]]) >= t /\ share[SpaceOf[p]][t] = p IN SelectSeq(walk, turn)
      all == FlattenSeq([t \in 1..PerSpace |-> at(t)])
  IN SubSeq(all, 1, Min({limit, Len(all)}))

(* Wrong: the cursor stays when nothing walked was due. *)
NextServed(walk, picked, limit) ==
  IF picked = <<>> THEN cursor ELSE IF Len(picked) >= limit THEN picked[Len(picked)] ELSE IF Whole(walk) THEN 0 ELSE walk[Len(walk)]
(* Where the next claim starts: after the last pair served when the limit cut the claim short. *)
NextPair(walk, picked, limit) ==
  IF Len(picked) >= limit THEN walk[Max({i \in DOMAIN walk : walk[i] \in Range(picked)})]
  ELSE IF Whole(walk) THEN 0 ELSE walk[Len(walk)]

(* A run of empty claims ends the tick: one whole walk, or the start passed twice. *)
Done(scan, starts) == scan = "whole" \/ (scan = "wrapped" /\ starts = 1)

Begin(d) == /\ tick[d].pc = "idle" /\ tick' = [tick EXCEPT ![d] = [pc |-> "claim", starts |-> 0, missing |-> DuePairs]]
            /\ UNCHANGED <<due, leased, later, open, cursor, rotation, passed, faults>>
(* Too many leases are unstarted, or another dispatcher may hold the cursor. *)
Held(d) == Unstarted >= InFlight \/ \E e \in Dispatchers \ {d} : tick[e].pc = "claim"
Full(d) == /\ tick[d].pc = "claim" /\ Held(d)
           /\ tick' = [tick EXCEPT ![d] = NoTick]
           /\ UNCHANGED <<due, leased, later, open, cursor, rotation, passed, faults>>
Rest(d) == /\ tick[d].pc = "claim" /\ Fault /\ tick' = [tick EXCEPT ![d] = NoTick]
           /\ UNCHANGED <<due, leased, later, open, cursor, rotation, passed>>

After(t, walk, picked) ==
  LET scan == ScanOf(walk) full == Unstarted + Len(picked) >= InFlight IN
  IF picked # <<>> THEN IF full THEN NoTick
    ELSE [t EXCEPT !.starts = 0, !.missing = {p \in DuePairs : Cardinality({i \in DOMAIN picked : picked[i] = p}) < due[p]}]
  ELSE IF Done(scan, t.starts) THEN NoTick
  ELSE [t EXCEPT !.starts = @ + (IF scan = "wrapped" THEN 1 ELSE 0), !.missing = @ \ Range(walk)]

Claim(d) ==
  /\ tick[d].pc = "claim" /\ Unstarted < InFlight
  /\ \E walk \in {Walk} : \E limit \in {Min({Limit, InFlight - Unstarted})} : \E picked \in {Picked(walk, limit)} :
       LET n == [p \in Pairs |-> Cardinality({i \in DOMAIN picked : picked[i] = p})] IN
       /\ due' = [p \in Pairs |-> due[p] - n[p]] /\ leased' = [p \in Pairs |-> leased[p] + n[p]]
       /\ cursor' = NextPair(walk, picked, limit)
       /\ rotation' = [s \in Owners |-> LET turns == {i \in DOMAIN picked : SpaceOf[picked[i]] = s}
                                        IN IF turns = {} THEN rotation[s] ELSE picked[Max(turns)]]
       /\ passed' = [p \in Pairs |-> IF n[p] > 0 \/ ~Due(p) THEN 0
                                     ELSE IF picked = <<>> THEN passed[p] ELSE Min({Patience, passed[p] + 1})]
       /\ tick' = [e \in Dispatchers |-> IF e = d THEN After(tick[d], walk, picked)
                                       ELSE [tick[e] EXCEPT !.missing = {}]]
  /\ UNCHANGED <<later, open, faults>>

Next ==
  \/ \E p \in Pairs : Enqueue(p) \/ Start(p) \/ Lost(p) \/ Returns(p)
  \/ \E s \in Owners : Suspend(s)
  \/ \E d \in Dispatchers : Begin(d) \/ Full(d) \/ Rest(d) \/ Claim(d)

Spec == Init /\ [][Next]_vars
(* Ticks are scheduled and claim; hints are consumed. *)
FairSpec == Spec /\ (\A d \in Dispatchers : WF_vars(Begin(d)) /\ WF_vars(Claim(d) \/ Full(d)))
                 /\ \A p \in Pairs : WF_vars(Start(p))

-----------------------------------------------------------------------------
(* Every variable keeps its type; unstarted leases stay within their bound. *)
TypeOK ==
  /\ cursor \in Pairs \union {0} /\ open \subseteq Owners /\ Unstarted <= InFlight
  /\ \A s \in Owners : rotation[s] = 0 \/ SpaceOf[rotation[s]] = s
  /\ \A p \in Pairs : {due[p], leased[p], later[p]} \subseteq 0..MaxItems /\ Live(p) <= MaxItems
  /\ \A d \in Dispatchers : tick[d].pc \in {"idle", "claim"} /\ tick[d].starts \in 0..1

(* A due pair waits for a bounded number of claims that serve others, in its space and in the cell. *)
ServedInTurn == \A p \in Pairs : Due(p) => passed[p] < Patience

(* A tick that ends because its claims found nothing has walked every pair that was due all along,   *)
(* unless another dispatcher's claim moved the cursor within the run of empty claims it ended.      *)
IdleMeansCovered ==
  \A d \in Dispatchers : tick[d].pc = "claim" /\ tick'[d] = NoTick /\ faults' = faults /\ ~Held(d) /\ leased' = leased
       => \A p \in tick[d].missing \ Range(Walk) : ~Due(p)

(* Every due pair is leased in the end, behind pairs that are live but not due, parked or suspended. *)
DueUnleased(p) == Due(p) /\ leased[p] = 0

DueIsLeased == \A p \in Pairs : Due(p) ~> ~DueUnleased(p)
=============================================================================
