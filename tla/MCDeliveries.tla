---------------------------- MODULE MCDeliveries -----------------------------
(***************************************************************************)
(* The delivery and retrieval parts under the fairness of their schedules, *)
(* one at a time: a behaviour runs the part it starts with, whose          *)
(* variables are in the slots s1, s2, ... in the order its module declares *)
(* them. The parts share no row, so their states add up.                   *)
(***************************************************************************)
EXTENDS Naturals, FiniteSets, Sequences, TLC

CONSTANTS Parts, \* the parts a run takes
          None

VARIABLES part, \* the part that runs
          s1, s2, s3, s4, s5, s6, s7, s8, s9, s10, s11, s12

all == <<part, s1, s2, s3, s4, s5, s6, s7, s8, s9, s10, s11, s12>>

(* One record revised under one fault: while an operator is called, or while its
   placement changes. *)
Outboxes == {"outbox", "moved"}
Projecting(q) == INSTANCE ProjectionOutbox WITH
    NumRecords <- 1, MaxRevision <- 2, MaxFailures <- 1, InFlight <- 1,
    MaxPlacement <- IF q = "moved" THEN 2 ELSE 1, MaxOps <- IF q = "moved" THEN 0 ELSE 1,
    ClaimLimit <- 2, PageSize <- 1, MaxFaults <- 1, Workers <- {"w1"}, Dispatchers <- {"d1"},
    rev <- s1, row <- s2, head <- s3, space <- s4, job <- s5, hints <- s6,
    dispatcher <- s7, worker <- s8, faults <- s9, ops <- s10, uncovered <- s11

(* A source's evidence under three faults. *)
Writing == INSTANCE RetrievalWorkers WITH
    Workers <- {"w1"}, NoWorker <- None, NGens <- 2, Vector <- {2}, NChunks <- 2,
    NRegions <- 2, MaxRev <- 2, MaxFaults <- 3, Records <- FALSE,
    auth <- s1, work <- s2, live <- s3, allowed <- s4, held <- s5, saved <- s6,
    worker <- s7, open <- s8, faults <- s9

(* A rebuild of two Refs that change. *)
Rebuilding == INSTANCE ProjectionRebuilds WITH
    NRefs <- 2, NGens <- 1, Vector <- {1}, Steppers <- {"s1"}, Page <- 1, MaxRev <- 1,
    MaxFaults <- 1, MaxChecks <- 0, NoStepper <- None,
    auth <- s1, due <- s2, state <- s3, pruned <- s4, held <- s5, saved <- s6, job <- s7,
    stepper <- s8, worker <- s9, open <- s10, embeds <- s11, faults <- s12

(* Claims that walk one of three pairs. *)
Turning == INSTANCE RetrievalTurns WITH
    Workers <- {"w1"}, NPairs <- 3, PerPair <- 1, Limit <- 1, Walk <- 1, MaxWalked <- 8,
    MaxItems <- 2, MaxFaults <- 1,
    due <- s1, later <- s2, open <- s3, cursor <- s4, worker <- s5, passed <- s6,
    faults <- s7

(* Ticks that walk one of three pairs. *)
Ticking == INSTANCE OutboxTurns WITH
    SpaceOf <- <<1, 1, 2>>, Scan <- 1, Limit <- 1, PerSpace <- 1, InFlight <- 1,
    Patience <- 9, Dispatchers <- {"d1"}, MaxItems <- 1, MaxFaults <- 2,
    due <- s1, leased <- s2, later <- s3, open <- s4, cursor <- s5, rotation <- s6,
    tick <- s7, passed <- s8, faults <- s9

(* What a step of a part with so many variables leaves alone: the slots it leaves empty. *)
After7 == <<part, s8, s9, s10, s11, s12>>
After9 == <<part, s10, s11, s12>>
After11 == <<part, s12>>
After12 == <<part>>

Off(slot) == slot = "empty"
Empty7 == Off(s8) /\ Off(s9) /\ Off(s10) /\ Off(s11) /\ Off(s12)
Empty9 == Off(s10) /\ Off(s11) /\ Off(s12)
Empty11 == Off(s12)
Empty12 == TRUE

Start(p, init, empty) == part = p /\ init /\ empty
Step(p, step, rest) == part = p /\ step /\ UNCHANGED rest

Init ==
  /\ part \in Parts
  /\ \/ \E q \in Outboxes : Start(q, Projecting(q)!Init, Empty11)
     \/ Start("workers", Writing!Init, Empty9)
     \/ Start("rebuilds", Rebuilding!Init, Empty12)
     \/ Start("turns", Turning!Init, Empty7)
     \/ Start("ticks", Ticking!Init, Empty9)

Next ==
  \/ \E q \in Outboxes : Step(q, Projecting(q)!Next, After11)
  \/ Step("workers", Writing!Next, After9)
  \/ Step("rebuilds", Rebuilding!Next \/ \E g \in Rebuilding!Gens : Rebuilding!Returns(g), After12)
  \/ Step("turns", Turning!Next, After7)
  \/ Step("ticks", Ticking!Next, After9)

Spec == Init /\ [][Next]_all
-----------------------------------------------------------------------------
(* The parts' constants are as their modules assume. *)
ASSUME SuiteAssumption ==
  /\ Writing!WorkersAssumption /\ Rebuilding!RebuildsAssumption
  /\ Turning!TurnsAssumption /\ Ticking!OutboxTurnsAssumption

Worked(q) ==
  \/ Projecting(q)!Denied("w1") \/ Projecting(q)!LockLease("w1") \/ Projecting(q)!Requeue("w1")
  \/ Projecting(q)!Complete("w1") \/ Projecting(q)!FailLease("w1")
  \/ Projecting(q)!ReleaseLease("w1")
Taken(q) ==
  \E h \in s6 : Projecting(q)!StartClosed("w1", h) \/ Projecting(q)!Start("w1", h)
Idled(q, i) == Projecting(q)!Elapse(i) /\ ~Projecting(q)!Attended(i)

(* Ticks claim, send and release; a worker that took a hint goes on, and takes hints;
   rows that nobody attends to come due; reconciliation is stepped. *)
ProjectingFairness ==
  /\ WF_all(\E q \in Outboxes : Step(q, Projecting(q)!Claim("d1"), After11))
  /\ WF_all(\E q \in Outboxes : Step(q, Projecting(q)!Send("d1"), After11))
  /\ WF_all(\E q \in Outboxes : Step(q, Projecting(q)!Unsend("d1"), After11))
  /\ WF_all(\E q \in Outboxes : Step(q, Worked(q), After11))
  /\ WF_all(\E q \in Outboxes : Step(q, Taken(q), After11))
  /\ WF_all(\E q \in Outboxes : Step(q, \E h \in s6 : Projecting(q)!Lost(h), After11))
  /\ WF_all(\E q \in Outboxes : Step(q, Idled(q, <<1, 1>>), After11))
  /\ WF_all(\E q \in Outboxes : Step(q, Idled(q, <<1, 2>>), After11))
  /\ WF_all(\E q \in Outboxes : Step(q, Projecting(q)!StepLock, After11))
  /\ WF_all(\E q \in Outboxes : Step(q, Projecting(q)!StepPage, After11))

(* A suspended space reopens; a lease that was left runs out, or its worker goes on. *)
WorkersFairness ==
  /\ WF_all(Step("workers", Writing!Reopen, After9))
  /\ WF_all(Step("workers", (\E j \in 1..2 : Writing!Abandoned(j)) \/ Writing!Process("w1"), After9))

(* Steps are called again; what a failure used up its time for ends: a lease runs out, a
   space reopens, an embedder is configured again. *)
RebuildsFairness ==
  /\ WF_all(Step("rebuilds", Rebuilding!Environment /\ (s10' \/ s11') /\ UNCHANGED s12, After12))
  /\ WF_all(Step("rebuilds", \E g \in Rebuilding!Gens : Rebuilding!Returns(g), After12))
  /\ WF_all(Step("rebuilds", Rebuilding!Advance("s1"), After12))

(* The worker is called again and goes on. *)
TurnsFairness ==
  /\ WF_all(Step("turns", Turning!Begin("w1") \/ Turning!Claim("w1") \/ Turning!Process("w1"), After7))

(* Ticks are scheduled and claim; hints are consumed. *)
TicksFairness ==
  /\ WF_all(Step("ticks", Ticking!Begin("d1"), After9))
  /\ WF_all(Step("ticks", Ticking!Claim("d1") \/ Ticking!Full("d1"), After9))
  /\ WF_all(Step("ticks", Ticking!Start(1), After9))
  /\ WF_all(Step("ticks", Ticking!Start(2), After9))
  /\ WF_all(Step("ticks", Ticking!Start(3), After9))

FairSpec ==
  Spec /\ ProjectingFairness /\ WorkersFairness /\ RebuildsFairness
       /\ TurnsFairness /\ TicksFairness

-----------------------------------------------------------------------------
(* Once changes, faults and operators stop: every record is current, parked or *)
(* given up by a cancelled reconciliation, the work of every change delivered, *)
(* and every rebuild verified, failed or abandoned.                            *)
AllSettles ==
  <>[](/\ \A q \in Outboxes : part = q => Projecting(q)!Converged
       /\ part = "workers" => Writing!AllDelivered
       /\ part = "rebuilds" => Rebuilding!RebuildsEnd)

(* Every due pair is served again and again, behind pairs that are live but    *)
(* not due, parked or suspended, in the ring and in the outbox.                *)
TurnsCome ==
  \A p \in 1..3 : []<>(/\ part = "turns" => ~Turning!DueUnserved(p)
                       /\ part = "ticks" => ~Ticking!DueUnleased(p))
===============================================================================
