------------------------------ MODULE MCRecords ------------------------------
(***************************************************************************)
(* The record authority's parts, one at a time: a behaviour runs the part  *)
(* it starts with, whose variables are in the slots s1, s2, ... in the     *)
(* order its module declares them; the mutations of one collection         *)
(* (RecordMutations, which this module extends) have their own variables.  *)
(* The parts share no row, so their states add up.                         *)
(***************************************************************************)
EXTENDS RecordMutations, Sequences, TLC

CONSTANTS
    Parts,           \* the parts a run takes
    None, p1, p2,
    BatchItems, BatchManifests, BatchCallers, BatchCalls, BatchFaults,
    Callers,         \* calls that link, revise and list
    LinkEnds, LinkClaim, LinkSource, LinkRows, LinkAsks, ListAsks, LinkPage, LinkLapses,
    IndexWriters, IndexRecords, IndexMax, IndexBatch, IndexBytes, IndexVersions, IndexWrites,
    IndexQueries,
    ClaimKeys, ClaimCreator, ClaimAsks, SourceAsks, ClaimTexts, ClaimBase

VARIABLES part, \* the part that runs
          s1, s2, s3, s4, s5, s6, s7, s8, s9, s10

slots == <<s1, s2, s3, s4, s5, s6, s7, s8, s9, s10>>
all == <<part, vars, slots>>

Create(i, d, v) ==
    [op |-> "create", id |-> i, digest |-> d, record |-> 0, expected |-> 0, value |-> v]
Replace(i, r, e, v) ==
    [op |-> "replace", id |-> i, digest |-> 1, record |-> r, expected |-> e, value |-> v]
Delete(i, r, e) ==
    [op |-> "delete", id |-> i, digest |-> 1, record |-> r, expected |-> e, value |-> None]
RetryRequests == {Create(1, 1, "x"), Create(1, 2, "y"), Delete(2, 1, 1)}
ValueRequests == {Create(1, 1, "x"), Create(2, 1, "y"), Replace(3, 1, 1, "y"),
                  Replace(4, 2, 1, "x"), Delete(5, 1, 1)}
RecordRequests == RetryRequests \union ValueRequests

(* Some requests sent twice: one at a time through faults, expiries and changes
   of policy, or side by side where replaces take each other's unique value. *)
Twice(asked, n, others) ==
    [slots |-> n, attempt |-> [q \in Requests |-> IF q \in asked THEN 2 ELSE 0],
     fault |-> others, expiry |-> others, op |-> others]
RecordBudgets == {Twice(RetryRequests, 1, 1), Twice(ValueRequests, 2, 0)}

Asked(sort, filter, limit) == [sort |-> sort, filter |-> filter, limit |-> limit]
AllQueries == {Asked("asc", 0, 1), Asked("desc", 0, 2), Asked("asc", 2, 1), Asked("none", 0, 1),
               Asked("none", 1, 1)}

Linked(l, sides, policy) == [op |-> "create", on |-> l, sides |-> sides, policy |-> policy]
On(op, on) == [op |-> op, on |-> on, sides |-> {}, policy |-> "detach"]
LinkRequests == {Linked(11, {1, 2}, "detach"), Linked(12, {1, 2}, "detach"),
                 Linked(11, {1, 2}, "restrict"), On("unlink", 11), On("delete", 1),
                 On("delete", 2), On("revise", 1)}
ListRequests == {Linked(11, {1, 3}, "detach"), Linked(12, {2, 3}, "detach"),
                 Linked(13, {2, 3}, "detach"), On("list", 3)}

Ask(op, by, base, text, cites, status) ==
    [op |-> op, by |-> by, base |-> base, text |-> text, cites |-> cites, status |-> status]
New(op, by, base, text, cites) == Ask(op, by, base, text, cites, "unreviewed")
ClaimRequests ==
    {New("create", "k1", 0, "t1", {}), New("create", "k1", 0, "t1", {0}),
     New("revise", "k1", 1, "t2", {0}), New("revise", "k2", 1, "t2", {0}),
     Ask("review", "k2", 1, "t1", {}, "accepted"), Ask("review", "k1", 2, "t1", {}, "accepted"),
     New("deleteClaim", "k2", 1, "t1", {}), New("deleteSource", "k2", 0, "t1", {})}
SourceRequests ==
    {New("extract", "k1", 0, "t1", {}), New("extract", "k2", 0, "t1", {}),
     New("correct", "k1", 1, "t2", {}), New("correct", "k2", 1, "t2", {}),
     New("create", "k1", 0, "t1", {1}), New("deleteSource", "k2", 0, "t1", {})}

(* Two callers of one operation key, with the same manifest or another. *)
Ingesting == INSTANCE BatchIngestion WITH
    Ordinals <- BatchItems, Manifests <- BatchManifests, Callers <- BatchCallers,
    None <- None, MaxCalls <- BatchCalls, MaxFaults <- BatchFaults,
    batch <- s1, item <- s2, receipt <- s3, effects <- s4, holder <- s5, caller <- s6,
    calls <- s7, faults <- s8

(* Backfill while two writers insert, update and delete; traversals by pages,
   while records move in the order. *)
Querying == INSTANCE IndexedQueries WITH
    Writers <- IndexWriters, NRecords <- IndexRecords, MaxValue <- IndexMax,
    Batch <- IndexBatch, PageBytes <- IndexBytes, MaxVersion <- IndexVersions,
    MaxWrites <- IndexWrites, MaxFaults <- 0, Queries <- IndexQueries,
    version <- s1, decl <- s2, records <- s3, index <- s4, writer <- s5, fill <- s6,
    reader <- s7, created <- s8, writes <- s9, faults <- s10

(* Two links of the same endpoints, their deletions, and all they touch; links
   of a record, listed while they come and grants go. *)
Linking == INSTANCE Links WITH
    Calls <- Callers, Endpoints <- LinkEnds, Claim <- LinkClaim, Source <- LinkSource,
    LinkIds <- LinkRows, Requests <- LinkAsks \union ListAsks, PageSize <- LinkPage,
    MaxLapses <- LinkLapses,
    deleted <- s1, cites <- s2, link <- s3, events <- s4, held <- s5, locks <- s6,
    call <- s7

(* A claim without and with evidence, revised and reviewed by either key;
   versions of a source, and claims that cite them. *)
Claiming == INSTANCE Claims WITH
    Calls <- Callers, Keys <- ClaimKeys, Creator <- ClaimCreator,
    Requests <- ClaimAsks \union SourceAsks, Texts <- ClaimTexts, MaxBase <- ClaimBase,
    deleted <- s1, versions <- s2, revisions <- s3, reads <- s4, locks <- s5, call <- s6

(* What a step of a part with so many variables leaves alone: the slots it leaves empty. *)
After6 == <<part, vars, s7, s8, s9, s10>>
After7 == <<part, vars, s8, s9, s10>>
After8 == <<part, vars, s9, s10>>
After10 == <<part, vars>>

Off(slot) == slot = "empty"
Empty6 == Off(s7) /\ Off(s8) /\ Off(s9) /\ Off(s10)
Empty7 == Off(s8) /\ Off(s9) /\ Off(s10)
Empty8 == Off(s9) /\ Off(s10)
Empty10 == TRUE

(* Mutations run as the part "mutations"; beside any other part they rest. *)
Rest == Init /\ budget = CHOOSE b \in Budgets : TRUE
Own == Init /\ Off(s1) /\ Off(s2) /\ Off(s3) /\ Off(s4) /\ Off(s5) /\ Off(s6) /\ Off(s7) /\ Off(s8) /\ Off(s9) /\ Off(s10)

Start(p, init, empty) == part = p /\ init /\ empty /\ Rest
Run(p, step, rest) == part = p /\ step /\ UNCHANGED rest

(* Traversals start where no value is too long, so that the field can be ready. *)
Indexable == \A r \in 1..IndexRecords : s3[r].val < IndexMax

SuiteInit ==
  /\ part \in Parts
  /\ \/ Start("batch", Ingesting!Init, Empty8)
     \/ Start("backfill", Querying!Init, Empty10) /\ s9 = IndexWrites
     \/ Start("pages", Querying!Init, Empty10) /\ s9 = 1 /\ Indexable
     \/ Start("links", Linking!Init, Empty7)
     \/ Start("lists", Linking!Init, Empty7)
     \/ Start("claims", Claiming!Init, Empty6)
     \/ Start("sources", Claiming!Init, Empty6)
     \/ part = "mutations" /\ Own

SuiteNext ==
  \/ Run("batch", Ingesting!Next, After8)
  \/ Run("backfill", Querying!NextOf({}), After10)
  \/ Run("pages", Querying!NextOf(IndexQueries), After10)
  \/ Run("links", Linking!NextOf(LinkAsks), After7)
  \/ Run("lists", Linking!NextOf(ListAsks), After7)
  \/ Run("claims", Claiming!NextOf(ClaimAsks), After6)
  \/ Run("sources", Claiming!NextOf(SourceAsks), After6)
  \/ Run("mutations", Next, <<part, slots>>)

SuiteSpec == SuiteInit /\ [][SuiteNext]_all
(* Names are interchangeable where a part's transactions, writers, items or    *)
(* calls ask the same.                                                         *)
Symmetric == Permutations(Callers) \cup Permutations({p1, p2})

-----------------------------------------------------------------------------
(* The parts' constants are as their modules assume. *)
ASSUME SuiteAssumption ==
  /\ Ingesting!BatchAssumption
  /\ Querying!QueriesAssumption
  /\ Linking!LinksAssumption /\ Claiming!ClaimsAssumption

(* A batch's items tell the effects that committed, and an answer that the     *)
(* batch is settled is true.                                                   *)
BatchesHold ==
  part = "batch" => /\ Ingesting!TypeOK /\ Ingesting!ItemsTellEffects
                    /\ Ingesting!AnsweredMeansSettled

(* An index that is ready holds every live record's value and no other, what a *)
(* backfill has passed is projected, a unique value has one holder, and a      *)
(* traversal that ends has given every record that stayed in it, and none      *)
(* twice at one revision.                                                      *)
IndexHolds ==
  /\ part = "backfill" => Querying!TypeOK /\ Querying!ReadyIsExact /\ Querying!NothingLeftBehind
  /\ part = "pages" => /\ Querying!TypeOK /\ Querying!ReadyIsExact
                       /\ Querying!TraversalIsComplete /\ Querying!TraversalRepeatsNothing

(* No live link has a deleted end, each change is told once and once only, a   *)
(* listing gives every link it may, and calls never wait in a circle.          *)
LinksHold ==
  /\ part = "links" => /\ Linking!TypeOK /\ Linking!NoDanglingLink
                       /\ Linking!EventsTellChanges /\ Linking!ChangedOnce /\ Linking!NoWaitCycle
  /\ part = "lists" => Linking!TypeOK /\ Linking!ListedAll

(* An answer is an entry of the history it names, a review keeps the content   *)
(* it reviews, a source is parsed once, and what is cited exists.              *)
ClaimsHold ==
  /\ part = "claims" => Claiming!TypeOK /\ Claiming!AnswersAreEntries /\ Claiming!ReviewsKeepContent
  /\ part = "sources" => /\ Claiming!TypeOK /\ Claiming!AnswersAreEntries
                         /\ Claiming!ParsedAtMostOnce /\ Claiming!CitedExist

(* What a step may never do: act for a cancelled batch, link or revise without *)
(* the grants at commit, delete what is restricted, extend what is deleted.    *)
StepsHold ==
  [][/\ part = "batch" => Ingesting!CancelStopsEffects
     /\ part = "links" => Linking!GrantsHeldAtCommit /\ Linking!RestrictHolds
     /\ part = "claims" => Claiming!DeletionsEndHistories /\ Claiming!RevisionsAuthorized
     /\ part = "sources" => Claiming!DeletionsEndHistories]_all
===============================================================================
