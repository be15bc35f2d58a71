----------------------------- MODULE MCRetrieval -----------------------------
(***************************************************************************)
(* The delivery and retrieval parts, one at a time: a behaviour runs the   *)
(* part it starts with, whose variables are in the slots s1, s2, ... in    *)
(* the order its module declares them; the locks of dispatch               *)
(* (DispatchLocks, which this module extends) have their own variables.    *)
(* The parts share no row, so their states add up.                         *)
(***************************************************************************)
EXTENDS DispatchLocks, Sequences, TLC

CONSTANTS Parts, \* the parts a run takes
          None, p1, p2, p3

VARIABLES part, \* the part that runs
          s1, s2, s3, s4, s5, s6, s7, s8, s9, s10, s11, s12

slots == <<s1, s2, s3, s4, s5, s6, s7, s8, s9, s10, s11, s12>>
all == <<part, vars, slots>>

(* Two workers write a source's evidence to a lexical and a vector generation. *)
Writing == INSTANCE RetrievalWorkers WITH
    Workers <- {p1, p2}, NoWorker <- None, NGens <- 2, Vector <- {2}, NChunks <- 2,
    NRegions <- 2, MaxRev <- 2, MaxFaults <- 1, Records <- FALSE,
    auth <- s1, work <- s2, live <- s3, allowed <- s4, held <- s5, saved <- s6,
    worker <- s7, open <- s8, faults <- s9

(* The same for a record that changes twice. *)
Recording == INSTANCE RetrievalWorkers WITH
    Workers <- {"w1"}, NoWorker <- None, NGens <- 2, Vector <- {2}, NChunks <- 2,
    NRegions <- 2, MaxRev <- 2, MaxFaults <- 2, Records <- TRUE,
    auth <- s1, work <- s2, live <- s3, allowed <- s4, held <- s5, saved <- s6,
    worker <- s7, open <- s8, faults <- s9

(* Generations start, activate, roll back, retire and are pruned while a Ref changes. *)
Serving == INSTANCE ProjectionRebuilds WITH
    NRefs <- 1, NGens <- 2, Vector <- {}, Steppers <- {"s1"}, Page <- 1, MaxRev <- 2,
    MaxFaults <- 0, MaxChecks <- 0, NoStepper <- None,
    auth <- s1, due <- s2, state <- s3, pruned <- s4, held <- s5, saved <- s6, job <- s7,
    stepper <- s8, worker <- s9, open <- s10, embeds <- s11, faults <- s12

(* Two steppers of one rebuild, a lease that expires. *)
Leasing == INSTANCE ProjectionRebuilds WITH
    NRefs <- 2, NGens <- 1, Vector <- {}, Steppers <- {p1, p2}, Page <- 1, MaxRev <- 1,
    MaxFaults <- 1, MaxChecks <- 0, NoStepper <- None,
    auth <- s1, due <- s2, state <- s3, pruned <- s4, held <- s5, saved <- s6, job <- s7,
    stepper <- s8, worker <- s9, open <- s10, embeds <- s11, faults <- s12

(* A generation with vectors and one without. *)
Embedded == INSTANCE ProjectionRebuilds WITH
    NRefs <- 1, NGens <- 2, Vector <- {1}, Steppers <- {"s1"}, Page <- 1, MaxRev <- 1,
    MaxFaults <- 1, MaxChecks <- 0, NoStepper <- None,
    auth <- s1, due <- s2, state <- s3, pruned <- s4, held <- s5, saved <- s6, job <- s7,
    stepper <- s8, worker <- s9, open <- s10, embeds <- s11, faults <- s12

(* A backfill that fails, and is verified again. *)
Refilling == INSTANCE ProjectionRebuilds WITH
    NRefs <- 1, NGens <- 1, Vector <- {}, Steppers <- {"s1"}, Page <- 2, MaxRev <- 2,
    MaxFaults <- 2, MaxChecks <- 1, NoStepper <- None,
    auth <- s1, due <- s2, state <- s3, pruned <- s4, held <- s5, saved <- s6, job <- s7,
    stepper <- s8, worker <- s9, open <- s10, embeds <- s11, faults <- s12

(* Claims of two items that walk three pairs. *)
Turning == INSTANCE RetrievalTurns WITH
    Workers <- {"w1"}, NPairs <- 3, PerPair <- 1, Limit <- 2, Walk <- 3, MaxWalked <- 8,
    MaxItems <- 2, MaxFaults <- 2,
    due <- s1, later <- s2, open <- s3, cursor <- s4, worker <- s5, passed <- s6,
    faults <- s7

(* Claims that walk every pair, three of them in one space. *)
Ticking == INSTANCE OutboxTurns WITH
    SpaceOf <- <<1, 1, 1, 2>>, Scan <- 5, Limit <- 2, PerSpace <- 1, InFlight <- 3,
    Patience <- 7, Dispatchers <- {"d1"}, MaxItems <- 1, MaxFaults <- 1,
    due <- s1, leased <- s2, later <- s3, open <- s4, cursor <- s5, rotation <- s6,
    tick <- s7, passed <- s8, faults <- s9

(* Two dispatchers whose claims walk two of three pairs. *)
Windowed == INSTANCE OutboxTurns WITH
    SpaceOf <- <<1, 1, 2>>, Scan <- 2, Limit <- 2, PerSpace <- 2, InFlight <- 2,
    Patience <- 1, Dispatchers <- {p1, p2}, MaxItems <- 1, MaxFaults <- 1,
    due <- s1, leased <- s2, later <- s3, open <- s4, cursor <- s5, rotation <- s6,
    tick <- s7, passed <- s8, faults <- s9

(* A search without vectors of a record and a claim that cites it, with two changes
   meanwhile. *)
Searching == INSTANCE Search WITH
    CollOf <- <<1, 2>>, Cites <- <<{}, {1}>>, Canonical <- {1}, Lexical <- {1, 2},
    Vector <- {}, Exact <- {}, Bound <- 2, Limit <- 2, KeyEnds <- 1, SourceEnds <- 1,
    MaxTime <- 0, MaxRev <- 2, MaxChanges <- 2,
    owner <- s1, clock <- s2, auth <- s3, rev <- s4, chunk <- s5, call <- s6, since <- s7,
    late <- s8, changes <- s9

(* One with vectors, whose grants to read sources end. *)
Expiring == INSTANCE Search WITH
    CollOf <- <<1, 2>>, Cites <- <<{}, {1}>>, Canonical <- {1}, Lexical <- {1, 2},
    Vector <- {1, 2}, Exact <- {2}, Bound <- 2, Limit <- 2, KeyEnds <- 2, SourceEnds <- 1,
    MaxTime <- 1, MaxRev <- 2, MaxChanges <- 1,
    owner <- s1, clock <- s2, auth <- s3, rev <- s4, chunk <- s5, call <- s6, since <- s7,
    late <- s8, changes <- s9

(* Every text of up to seven code points, chunked, cited and quoted. *)
Quoting == INSTANCE Passages WITH
    MaxLength <- 7, Size <- 4, Overlap <- 1, Budgets <- {5, 9, 13, 30}, Frame <- 2,
    Element <- 1, MinExcerpt <- 2, MaxCited <- 3, MaxHits <- 2,
    length <- s1, blank <- s2, pc <- s3, start <- s4, chunks <- s5, hit <- s6,
    cited <- s7, ranges <- s8, excerpts <- s9, used <- s10, limit <- s11, truncated <- s12

(* Reconciliation of two records, cancelled and started anew as placements change. *)
Repairing == INSTANCE ProjectionOutbox WITH
    NumRecords <- 2, MaxRevision <- 1, MaxPlacement <- 2, MaxFailures <- 1, InFlight <- 2,
    ClaimLimit <- 2, PageSize <- 1, MaxFaults <- 0, MaxOps <- 2, Workers <- {"w1"},
    Dispatchers <- {"d1"},
    rev <- s1, row <- s2, head <- s3, space <- s4, job <- s5, hints <- s6,
    dispatcher <- s7, worker <- s8, faults <- s9, ops <- s10, uncovered <- s11

(* What a step of a part with so many variables leaves alone: the slots it leaves empty. *)
After7 == <<part, vars, s8, s9, s10, s11, s12>>
After9 == <<part, vars, s10, s11, s12>>
After11 == <<part, vars, s12>>
After12 == <<part, vars>>

Off(slot) == slot = "empty"
Empty7 == Off(s8) /\ Off(s9) /\ Off(s10) /\ Off(s11) /\ Off(s12)
Empty9 == Off(s10) /\ Off(s11) /\ Off(s12)
Empty11 == Off(s12)
Empty12 == TRUE

(* The locks of dispatch run as the part "locks"; beside any other part they rest. *)
Resting == life = [s \in Spaces |-> "active"] /\ row = [s \in Spaces |-> "none"] /\ rotation = [s \in Spaces |-> FALSE]
Own == Init /\ Off(s1) /\ Off(s2) /\ Off(s3) /\ Off(s4) /\ Off(s5) /\ Off(s6) /\ Off(s7) /\ Off(s8) /\ Off(s9) /\ Off(s10) /\ Off(s11) /\ Off(s12)

Start(p, init, empty) == part = p /\ init /\ empty /\ Init /\ Resting
Run(p, step, rest) == part = p /\ step /\ UNCHANGED rest

SuiteInit ==
  /\ part \in Parts
  /\ \/ Start("evidence", Writing!Init, Empty9)
     \/ Start("records", Recording!Init, Empty9)
     \/ Start("served", Serving!Init, Empty12)
     \/ Start("leases", Leasing!Init, Empty12)
     \/ Start("vectors", Embedded!Init, Empty12)
     \/ Start("refills", Refilling!Init, Empty12)
     \/ Start("turns", Turning!Init, Empty7)
     \/ Start("ticks", Ticking!Init, Empty9)
     \/ Start("windows", Windowed!Init, Empty9)
     \/ Start("search", Searching!Init, Empty9)
     \/ Start("expiry", Expiring!Init, Empty9)
     \/ Start("passages", Quoting!Init, Empty12)
     \/ Start("repair", Repairing!Init, Empty11)
     \/ part = "locks" /\ Own

SuiteNext ==
  \/ Run("evidence", Writing!Next, After9)
  \/ Run("records", Recording!Next, After9)
  \/ Run("served", Serving!Next, After12)
  \/ Run("leases", Leasing!Next, After12)
  \/ Run("vectors", Embedded!Next, After12)
  \/ Run("refills", Refilling!Next, After12)
  \/ Run("turns", Turning!Next, After7)
  \/ Run("ticks", Ticking!Next, After9)
  \/ Run("windows", Windowed!Next, After9)
  \/ Run("search", Searching!Next, After9)
  \/ Run("expiry", Expiring!Next, After9)
  \/ Run("passages", Quoting!Next, After12)
  \/ Run("repair", Repairing!Next, After11)
  \/ Run("locks", Next, <<part, slots>>)

SuiteSpec == SuiteInit /\ [][SuiteNext]_all
(* Workers, steppers, claims and dispatchers are interchangeable. *)
Symmetric == Permutations({p1, p2})

-----------------------------------------------------------------------------
(* The parts' constants are as their modules assume. *)
ASSUME SuiteAssumption ==
  /\ Writing!WorkersAssumption /\ Recording!WorkersAssumption
  /\ Serving!RebuildsAssumption /\ Leasing!RebuildsAssumption
  /\ Embedded!RebuildsAssumption /\ Refilling!RebuildsAssumption
  /\ Turning!TurnsAssumption /\ Ticking!OutboxTurnsAssumption /\ Windowed!OutboxTurnsAssumption
  /\ Searching!SearchAssumption /\ Expiring!SearchAssumption
  /\ Quoting!PassagesAssumption

(* Delivered work is held by every generation it was owed to, embeddings are   *)
(* of the text they are kept for, and no checkpoint outlives its use; what     *)
(* search serves, or may be switched to, holds authority exactly, what was     *)
(* pruned stays empty, and a phase counts no Ref twice.                        *)
ProjectionsHold ==
  /\ part = "evidence" => /\ Writing!TypeOK /\ Writing!DeliveredIsHeld
                          /\ Writing!EmbeddingsAreOfTheText /\ Writing!NoStrayCheckpoint
  /\ part = "records" => /\ Recording!TypeOK /\ Recording!DeliveredIsHeld
                         /\ Recording!EmbeddingsAreOfTheText /\ Recording!NoStrayCheckpoint
  /\ part = "served" => Serving!TypeOK /\ Serving!ServedIsComplete /\ Serving!PrunedStaysEmpty
  /\ part = "leases" => Leasing!TypeOK /\ Leasing!CountedOnce /\ Leasing!ServedIsComplete
  /\ part = "vectors" => /\ Embedded!TypeOK /\ Embedded!NoStrayCheckpoint
                         /\ Embedded!PrunedStaysEmpty
  /\ part = "refills" => Refilling!TypeOK /\ Refilling!ServedIsComplete /\ Refilling!CountedOnce

(* What a search returns is held, as it is, when it commits, by an access that *)
(* still stands; a search that says it is exhausted left nothing out; no text  *)
(* is lost between its chunks; and a bundle is within its budget and quotes    *)
(* what a hit cites once.                                                      *)
SearchesHold ==
  /\ part = "search" => /\ Searching!TypeOK /\ Searching!HeldAtCommit
                        /\ Searching!HitsAreFresh /\ Searching!ExhaustedIsAll
  /\ part = "expiry" => /\ Expiring!TypeOK /\ Expiring!HeldAtCommit
                        /\ Expiring!HitsAreFresh /\ Expiring!ExhaustedIsAll
  /\ part = "passages" =>
       /\ Quoting!TypeOK /\ Quoting!ChunksCover /\ Quoting!ChunksAdvance /\ Quoting!RangesApart
       /\ Quoting!RangesExact /\ Quoting!BundleHolds /\ Quoting!LongestFits

(* A due pair is passed over a bounded number of times, in the ring of         *)
(* retrieval work and in the outbox whose claims walk all of it, and a         *)
(* reconciliation that ended reached every record the ones before it missed.   *)
TurnsHold ==
  /\ part = "turns" => Turning!TypeOK /\ Turning!ServedInTurn
  /\ part = "ticks" => Ticking!TypeOK /\ Ticking!ServedInTurn
  /\ part = "windows" => Windowed!TypeOK
  /\ part = "repair" => Repairing!RepairCovered

(* Held contents only move forward; vectors are stored, and queries embedded,  *)
(* where policy allows; search keeps a generation; and a claim that ends a run *)
(* with nothing found has walked every pair that was due all along.            *)
StepsHold ==
  [][/\ part = "evidence" => Writing!StoredWhereAllowed /\ Writing!OnlyForward
     /\ part = "records" => Recording!OnlyForward
     /\ part = "served" => Serving!SearchNeverLost /\ Serving!OnlyForward
     /\ part = "vectors" => Embedded!OnlyForward
     /\ part = "turns" => Turning!IdleMeansNothingDue
     /\ part = "windows" => Windowed!IdleMeansCovered
     /\ part = "search" => Searching!SentOnlyWhile
     /\ part = "expiry" => Expiring!SentOnlyWhile]_all
===============================================================================
