------------------------------ MODULE MCSpaces -------------------------------
(***************************************************************************)
(* The control plane's parts and the bytes it keeps and erases, one at a   *)
(* time: a behaviour runs the part it starts with, whose variables are in  *)
(* the slots s1, s2, ... in the order its module declares them; uploads    *)
(* (SourceUploads, which this module extends) have their own variables.    *)
(* The parts share no row, so their states add up.                         *)
(***************************************************************************)
EXTENDS SourceUploads, TLC

CONSTANTS
    Parts,      \* the parts a run takes
    p1, p2, p3,
    (* the issuances of one space's keys, and the reconcilers or deletions that clean up *)
    KeyIssuers, KeyCleaners, KeyFaults,
    (* the calls that create one ID, the listings, and how the service may be deployed *)
    Creators, Listers, OwnerOf, Settings, Lease,
    (* the requests a cell admits, their assertions, and the calls they join *)
    Requests, AssertionOf, AssertEnds, KeyEnds, Joined, AdmitTime, AdmitVersions,
    (* the removals of a deleted source's bytes, and what may go wrong *)
    Attempts, Committed, Removals, Failing, Bad, Landing, SourcePage, SourceFinds, SourceStops,
    (* the erasure of a space *)
    Owners, Ticks, SpaceKeys, SpacePage, MaxAsked, SpaceFinds

VARIABLES part, \* the part that runs
          s1, s2, s3, s4, s5, s6, s7, s8, s9, s10, s11

slots == <<s1, s2, s3, s4, s5, s6, s7, s8, s9, s10, s11>>
all == <<part, vars, slots>>

Issuing == INSTANCE AgentKeys WITH
    Issuers <- KeyIssuers, Cleaners <- KeyCleaners, None <- None, MaxFaults <- KeyFaults,
    directory <- s1, cell <- s2, journal <- s3, credential <- s4, provider <- s5,
    call <- s6, faults <- s7

Creating == INSTANCE SpaceProvisioning WITH
    Nobody <- None,
    dir <- s1, cell <- s2, lock <- s3, cellTx <- s4, st <- s5, lister <- s6, broken <- s7,
    live <- s8, now <- s9, faults <- s10, setting <- s11

Admitting == INSTANCE CellAdmission WITH
    Calls <- Joined, MaxTime <- AdmitTime, MaxVersion <- AdmitVersions,
    db <- s1, version <- s2, life <- s3, provider <- s4, nonces <- s5, gone <- s6,
    added <- s7, req <- s8, calls <- s9, entered <- s10, committed <- s11

Removing == INSTANCE OriginalErasure WITH
    Writes <- Landing, PageSize <- SourcePage, MaxFinds <- SourceFinds,
    MaxStops <- SourceStops, None <- None,
    deleted <- s1, settled <- s2, cleaned <- s3, erasure <- s4, store <- s5,
    writing <- s6, unseen <- s7, removal <- s8, sweep <- s9, stops <- s10

Purging == INSTANCE SpaceErasure WITH
    Keys <- SpaceKeys, PageSize <- SpacePage, MaxFinds <- SpaceFinds, None <- None,
    lifecycle <- s1, rows <- s2, audits <- s3, published <- s4, request <- s5,
    store <- s6, writing <- s7, unseen <- s8, owner <- s9, tick <- s10, sweep <- s11

(* What a step of a part with so many variables leaves alone: the slots it leaves empty. *)
After7 == <<part, vars, s8, s9, s10, s11>>
After10 == <<part, vars, s11>>
After11 == <<part, vars>>

Off(slot) == slot = "empty"
Empty7 == Off(s8) /\ Off(s9) /\ Off(s10) /\ Off(s11)
Empty10 == Off(s11)
Empty11 == TRUE

(* Ingestions of text run as the part "texts"; beside any other part they rest. *)
Own == Init /\ Off(s1) /\ Off(s2) /\ Off(s3) /\ Off(s4) /\ Off(s5) /\ Off(s6) /\ Off(s7) /\ Off(s8) /\ Off(s9) /\ Off(s10) /\ Off(s11)

Start(p, init, empty) == part = p /\ init /\ empty /\ Init
Run(p, step, rest) == part = p /\ step /\ UNCHANGED rest

SuiteInit ==
  /\ part \in Parts
  /\ \/ Start("keys", Issuing!Init, Empty7)
     \/ Start("creation", Creating!Init, Empty11)
     \/ Start("admission", Admitting!Init, Empty11)
     \/ Start("removals", Removing!Init, Empty10)
     \/ Start("space", Purging!Init, Empty11)
     \/ part = "texts" /\ Own

SuiteNext ==
  \/ Run("keys", Issuing!Next, After7)
  \/ Run("creation", Creating!Next, After11)
  \/ Run("admission", Admitting!Next, After11)
  \/ Run("removals", Removing!Next, After10)
  \/ Run("space", Purging!Next, After11)
  \/ Run("texts", Next, <<part, slots>>)

SuiteSpec == SuiteInit /\ [][SuiteNext]_all

(* The calls' names are interchangeable where a part's calls ask the same. *)
Symmetric == Permutations({p1, p2})

-----------------------------------------------------------------------------
(* The values of the run's constants *)

(* Alice creates an ID and lists; bob creates it too. *)
OneIsBob == [a \in {p1, p2, p3, "l1"} |-> IF a = p3 THEN "bob" ELSE "alice"]

(* Two owners, or one who asks twice, the cell in a database of its own or in the  *)
(* control's, whose links may break; an ID the service chose; and links that break *)
(* although the databases are two.                                                 *)
Deployments ==
  LET made(callers, selected, shared, breaks, clock, faults) ==
        [callers |-> callers, selected |-> selected, shared |-> shared,
         breaks |-> breaks, clock |-> clock, faults |-> faults]
  IN  {made({p1, p3}, TRUE, FALSE, FALSE, 2, 2), made({p1, p2}, TRUE, FALSE, FALSE, 2, 1),
       made({p1, p2}, TRUE, TRUE, TRUE, 2, 2), made({p1}, FALSE, FALSE, FALSE, 3, 3),
       made({p1, p2}, TRUE, FALSE, TRUE, 2, 1)}

(* The admitted requests present one assertion. *)
Alike == [r \in Requests |-> "a"]
EndsAt == [a \in {"a"} |-> 1]

(* A write of the original lands late. *)
LateOriginal == {<<"original", "a0">>}

-----------------------------------------------------------------------------
(* The parts' constants are as their modules assume. *)
ASSUME SuiteAssumption ==
  /\ Issuing!KeysAssumption /\ Creating!ProvisioningAssumption /\ Admitting!AdmissionAssumption
  /\ Removing!ErasureAssumption /\ Purging!SpaceErasureAssumption

(* No issuance leaves a provider key behind that no journal row can find, none *)
(* answered is taken back while the space is open, none denied is granted, and *)
(* a deletion is published only once every key is revoked.                     *)
KeysHold ==
  part = "keys" => /\ Issuing!TypeOK /\ Issuing!AnsweredKeysStand /\ Issuing!NoOrphans
                   /\ Issuing!GrantsFollowKeys /\ Issuing!ActiveMeansPublished /\ Issuing!DeletedMeansRevoked

(* A published ID has its owner's row in the cell, whoever created, retried or *)
(* listed it and whatever answer was lost; what a call answered holds; and no  *)
(* creator commits a row behind a listing that retired its ID, unless it lost  *)
(* the lock of its reservation alone.                                          *)
CreatedIsServed ==
  part = "creation" => /\ Creating!TypeOK /\ Creating!ServedMeansCell /\ Creating!AnswersHold
                       /\ Creating!LockLasts => Creating!RetiredMeansNoCell

(* An assertion enters the cell once, though its nonce may be pruned once it   *)
(* has expired, and until then its nonce stays.                                *)
AssertionsSpentOnce == part = "admission" => Admitting!AssertionsSpentOnce

(* What commits was allowed at that moment by the policy and key of its cell,  *)
(* whole and in time, and an answer tells what committed.                      *)
AdmissionsHold == part = "admission" => Admitting!AdmissionsHold

(* A committed source keeps its bytes, is the only one of its identity, and is *)
(* what every answer names; bytes read erased, of a source or of a space, are  *)
(* gone from the store but for what landed late and no sweep has found; and a  *)
(* deletion has one audit row.                                                 *)
BytesTold ==
  /\ part = "texts" => SourcesHold
  /\ part = "removals" => Removing!TypeOK /\ Removing!ErasedMeansGone
  /\ part = "space" => Purging!TypeOK /\ Purging!ErasedMeansGone /\ Purging!OneDeletionAudit

(* Ledgers and deletions only move forward, and an ID is retired only once its *)
(* claim has ended and nobody works on its cell.                               *)
OnlyForward ==
  [][/\ part = "texts" => LedgerForward
     /\ part = "removals" => Removing!ProgressForward
     /\ part = "space" => Purging!DeletedStays
     /\ part = "creation" => Creating!RetiredWhenAbandoned]_all
===============================================================================
