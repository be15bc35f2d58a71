----------------------------- MODULE MCRequests ------------------------------
(***************************************************************************)
(* Parts that answer requests, under the fairness of their callers, one at *)
(* a time: a behaviour runs the part it starts with, whose variables are   *)
(* in the slots s1, s2, ... in the order its module declares them. The     *)
(* parts share no row, so their states add up.                             *)
(***************************************************************************)
EXTENDS Naturals, FiniteSets, Sequences, TLC

CONSTANTS Parts, \* the parts a run takes
          None

VARIABLES part, \* the part that runs
          s1, s2, s3, s4, s5, s6, s7, s8, s9, s10, s11

all == <<part, s1, s2, s3, s4, s5, s6, s7, s8, s9, s10, s11>>

Linked(l, sides, policy) == [op |-> "create", on |-> l, sides |-> sides, policy |-> policy]
On(op, on) == [op |-> op, on |-> on, sides |-> {}, policy |-> "detach"]
LinkRequests == {Linked(11, {1, 2}, "detach"), Linked(12, {1, 2}, "detach"),
                 Linked(11, {1, 2}, "restrict"), On("unlink", 11), On("delete", 1),
                 On("delete", 2), On("revise", 1)}

(* Two callers of one operation key, each three times, under two faults. *)
Ingesting == INSTANCE BatchIngestion WITH
    Ordinals <- {"o1"}, Manifests <- {"m1"}, Callers <- {"c1", "c2"}, None <- None,
    MaxCalls <- 3, MaxFaults <- 2,
    batch <- s1, item <- s2, receipt <- s3, effects <- s4, holder <- s5, caller <- s6,
    calls <- s7, faults <- s8

(* Backfill of three records while a writer goes on. *)
Filling == INSTANCE IndexedQueries WITH
    Writers <- {"w1"}, NRecords <- 3, MaxValue <- 3, Batch <- 2, PageBytes <- 2,
    MaxVersion <- 2, MaxWrites <- 1, MaxFaults <- 2, Queries <- {},
    version <- s1, decl <- s2, records <- s3, index <- s4, writer <- s5, fill <- s6,
    reader <- s7, created <- s8, writes <- s9, faults <- s10

(* Two links of the same endpoints, and all that locks what they lock. *)
Linking == INSTANCE Links WITH
    Calls <- {"c1", "c2", "c3"}, Endpoints <- {1, 2}, Claim <- 1, Source <- 2,
    LinkIds <- {11, 12}, Requests <- LinkRequests, PageSize <- 1, MaxLapses <- 0,
    deleted <- s1, cites <- s2, link <- s3, events <- s4, held <- s5, locks <- s6,
    call <- s7

(* A callback that makes three joined calls, nested or not. *)
Joined == INSTANCE CellAdmission WITH
    Requests <- {"r1"}, AssertionOf <- [r \in {"r1"} |-> "a"],
    AssertEnds <- [a \in {"a"} |-> 1], KeyEnds <- 1, Calls <- {1, 2, 3}, MaxTime <- 1,
    MaxVersion <- 2,
    db <- s1, version <- s2, life <- s3, provider <- s4, nonces <- s5, gone <- s6,
    added <- s7, req <- s8, calls <- s9, entered <- s10, committed <- s11

(* An owner who creates an ID of its choice twice, or one the service chose, and lists. *)
Reserving == INSTANCE SpaceProvisioning WITH
    Creators <- {"c1", "c2"}, Listers <- {"l1"},
    OwnerOf <- [a \in {"c1", "c2", "l1"} |-> "alice"],
    Settings <- {[callers |-> {"c1", "c2"}, selected |-> TRUE, shared |-> FALSE,
                  breaks |-> FALSE, clock |-> 2, faults |-> 2],
                 [callers |-> {"c1"}, selected |-> FALSE, shared |-> FALSE,
                  breaks |-> FALSE, clock |-> 3, faults |-> 3]},
    Lease <- 1, Nobody <- None,
    dir <- s1, cell <- s2, lock <- s3, cellTx <- s4, st <- s5, lister <- s6, broken <- s7,
    live <- s8, now <- s9, faults <- s10, setting <- s11

(* An issuance and a reconciler, under three faults. *)
Issuing == INSTANCE AgentKeys WITH
    Issuers <- {"i1"}, Cleaners <- {"r1"}, None <- None, MaxFaults <- 3,
    directory <- s1, cell <- s2, journal <- s3, credential <- s4, provider <- s5,
    call <- s6, faults <- s7

(* What a step of a part with so many variables leaves alone: the slots it leaves empty. *)
After7 == <<part, s8, s9, s10, s11>>
After8 == <<part, s9, s10, s11>>
After10 == <<part, s11>>
After11 == <<part>>

Off(slot) == slot = "empty"
Empty7 == Off(s8) /\ Off(s9) /\ Off(s10) /\ Off(s11)
Empty8 == Off(s9) /\ Off(s10) /\ Off(s11)
Empty10 == Off(s11)
Empty11 == TRUE

Start(p, init, empty) == part = p /\ init /\ empty
Step(p, step, rest) == part = p /\ step /\ UNCHANGED rest

Init ==
  /\ part \in Parts
  /\ \/ Start("batch", Ingesting!Init, Empty8)
     \/ Start("backfill", Filling!Init, Empty10)
     \/ Start("links", Linking!Init, Empty7)
     \/ Start("calls", Joined!Init, Empty11)
     \/ Start("spaces", Reserving!Init, Empty11)
     \/ Start("keys", Issuing!Init, Empty7)

Next ==
  \/ Step("batch", Ingesting!Next, After8)
  \/ Step("backfill", Filling!Next, After10)
  \/ Step("links", Linking!Next, After7)
  \/ Step("calls", Joined!Next, After11)
  \/ Step("spaces", Reserving!Next, After11)
  \/ Step("keys", Issuing!Next, After7)

Spec == Init /\ [][Next]_all
-----------------------------------------------------------------------------
(* The parts' constants are as their modules assume. *)
ASSUME SuiteAssumption ==
  /\ Ingesting!BatchAssumption /\ Filling!QueriesAssumption /\ Linking!LinksAssumption
  /\ Joined!AdmissionAssumption /\ Reserving!ProvisioningAssumption
  /\ Issuing!KeysAssumption

(* Each part's calls go on; a caller whose batch threw calls again; a backfill's scan ends in *)
(* a commit or a failure; clocks advance and leases run out.                                 *)
Goes ==
  /\ WF_all(Step("batch", s6["c1"].pc = "threw" /\ Ingesting!Begin("c1"), After8))
  /\ WF_all(Step("batch", s6["c2"].pc = "threw" /\ Ingesting!Begin("c2"), After8))
  /\ WF_all(Step("backfill", Filling!BeginBatch, After10)) /\ WF_all(Step("backfill", Filling!FailBatch, After10))
  /\ WF_all(Step("backfill", Filling!Commit("w1") \/ Filling!Rollback("w1"), After10))
  /\ WF_all(Step("links", \E c \in {"c1", "c2", "c3"} : Linking!Steps(c), After7))
  /\ WF_all(Step("calls", Joined!CallStep("r1"), After11))
  /\ WF_all(Step("spaces", Reserving!Tick, After11))
  /\ WF_all(Step("keys", ~Issuing!At("i1", "idle") /\ (Issuing!IssuerNext("i1") \/ Issuing!Shared("i1")), After7))
  /\ WF_all(Step("keys", ~Issuing!At("r1", "idle") /\ (Issuing!CleanerNext("r1") \/ Issuing!Shared("r1")), After7))
  /\ WF_all(Step("keys", Issuing!ExpireLease, After7))

(* What another's lock, lease or version may hold back again and again is not held back for *)
(* ever: each line is one process of each part that has it.                                 *)
GetsThrough ==
  /\ SF_all(\/ Step("batch", Ingesting!CallNext("c1"), After8)
            \/ Step("backfill", Filling!FinishBatch, After10)
            \/ Step("spaces", Reserving!CreateStep("c1") /\ ~Reserving!At("c1", "idle"), After11)
            \/ Step("keys", Issuing!Claim("r1", "own"), After7))
  /\ SF_all(\/ Step("batch", Ingesting!CallNext("c2"), After8)
            \/ Step("spaces", Reserving!CreateStep("c2") /\ ~Reserving!At("c2", "idle"), After11))
  /\ SF_all(Step("spaces", Reserving!ListStep("l1"), After11))

FairSpec == Spec /\ Goes /\ GetsThrough

-----------------------------------------------------------------------------
(* Requests end: every call on links is answered, every joined call settles or *)
(* its callback ends, an active batch has every item failed or succeeded, and a*)
(* declared field is ready unless a record's value cannot be indexed.  And what*)
(* a crash or a lost answer leaves behind is settled: a reservation is         *)
(* published or retired, a key of a failed issuance revoked.                   *)
RequestsEnd ==
  <>[](/\ part = "links" => Linking!AllAnswered
       /\ part = "calls" => Joined!CallsSettle
       /\ part = "batch" => Ingesting!Settles
       /\ part = "backfill" => Filling!BackfillEnds
       /\ part = "spaces" => Reserving!ReservationsSettle
       /\ part = "keys" => Issuing!RejectedKeysRevoked)
===============================================================================
