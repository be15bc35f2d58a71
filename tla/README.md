# Stateplane: a TLA+ model of its authority and its projections

Stateplane keeps typed records for agents.  PostgreSQL is the one authority;
everything else (search projections, the control directory, provider keys,
blobs) is a copy or a side effect that must survive crashes, retries and lost
acknowledgements.  This directory models the parts of that machinery whose
correctness depends on the order in which several actors act, checks them with
TLC on small instances and proves the central results with TLAPS.  The
reference is the source; paths are relative to the repository, `postgres/` is
short for `packages/postgres/src/`.

`PROJECT.json` lists the components with what each model leaves out, the lines
every definition stands for, the hazards of the code line by line with the
properties that cover each, the runs, and the theorems.

## Inventory

| Component (source) | State it keeps | What is hard | What makes it correct | Modules |
|---|---|---|---|---|
| Projection outbox and delivery (`postgres/outbox.ts`, `outbox-sql.ts`, `index.ts`, `packages/workers/src/index.ts`) | `projection_outbox`, `projection_heads`, checkpoint, rotation, `projection_reconciliations` | at-least-once hints, overlapping ticks, lease expiry, late completions, fences, fairness among spaces | leases fence late workers; heads never move back; nothing stale is forgotten; every due row has its turn | `ProjectionOutbox`, `ProjectionHeads`, `OutboxTurns`, `DispatchLocks` |
| Record authority (`postgres/index.ts`) | `records`, `record_unique_keys`, `idempotency_receipts` | retries after an unknown COMMIT, races on one key, receipts that expire | one effect per idempotency key; no lost update | `RecordMutations`, `RecordLedger` |
| Change event feed (`postgres/index.ts`, migration 037) | `record_events`, `record_event_pending`, `record_event_feed` | slow writers commit after faster ones were published | a cursor never skips an event | `EventFeed` |
| Batch ingestion (`postgres/index.ts`, migrations 030, 032) | `batch_operations`, `batch_items` | a failure recorded apart from its item, cancellation, racing callers | each item takes effect once and tells so | `BatchIngestion` |
| Collections, index backfill, exact queries (`postgres/collections.ts`, `schema.ts`, `cursor.ts`, `index.ts`) | versions, index rows, backfill cursor | writers beside the backfill and beside a traversal | a ready index is exact; a traversal is complete | `IndexedQueries` |
| Owned spaces (`postgres/spaces.ts`) | the cell's `spaces` row, the control plane's `space_directory` row | two databases, no common transaction | the directory ends equal to the cell | `SpaceDirectory` |
| Space provisioning (`postgres/spaces.ts`) | reservation, cell row | a creator that died, a listing that recovers | a published ID is served; a reservation ends | `SpaceProvisioning` |
| Agent keys (`postgres/spaces.ts`) | credentials, grants, the issuance journal, provider keys | three parties, leases, lost acknowledgements | no orphan key; no grant without its key | `AgentKeys` |
| Space erasure (`postgres/spaces.ts`, `sources.ts`) | deletion progress, the store's keys | late writes beside a purge | what is reported erased is gone | `SpaceErasure` |
| Cell admission (`postgres/cell-policy.ts`) | one-use nonces | pruning by a clock, nested calls | an assertion is admitted at most once, under the policy in force | `CellAdmission` |
| Sources, uploads, original bytes (`postgres/sources.ts`) | grants, attempts, sources, deletion units, the store's keys | bytes are written and deleted outside any transaction | a committed source keeps its bytes; deleted bytes go | `SourceUploads`, `OriginalErasure` |
| Claims; links and deletion (`postgres/claims.ts`, `links.ts`, `sources.ts`) | histories, links | lock order, grants that end, deletion beside insertion | no dangling link, no lost revision | `Claims`, `Links` |
| Retrieval projections (`postgres/retrieval.ts`, migrations 045, 046) | work, leases, checkpoints, chunks | policies narrow under a worker | delivered work is held where it was owed | `RetrievalWorkers`, `RetrievalTurns` |
| Projection generations (`postgres/generations.ts`, migration 048) | generations, rebuild progress | cutover beside changes | what is served is complete | `ProjectionRebuilds` |
| Search and context bundles (`postgres/search.ts`, `packages/retrieval/src`) | none | authority changes between plan and answer; budget arithmetic | what is returned is readable and fresh; a bundle keeps its budget | `Search`, `Passages` |
| Fault classification, ports, HTTP, MCP, CLI, authentication, blob port, contracts, UI, deployment | none of their own | | | not modelled, see the end |

How they interact.  A record mutation commits the record, its index rows, its
receipt, its event and its outbox row in one transaction.  The dispatcher leases
outbox rows and sends hints to the cell's queue; a worker turns a hint into a
completion, which writes the projection and the head, and for retrieval the
chunks of every live generation.  Space operations write the cell's `spaces`
row, which every transaction share-locks, and then publish to the control
directory.  A placement fence makes every head stale and schedules a
reconciliation, which returns rows to the outbox.  Uploads and erasure act on a
blob store that shares no transaction with anything.

## How the models are written

One module per component; one action per transaction, or per statement where
another transaction can commit between two statements and be seen by the later
one.  An error is one outcome unless a caller acts differently on its kind.
What a COMMIT does when its answer is lost is always two outcomes.  A record, a
text or a vector is a number or a model value; a clock is `Tick` or "due,
future, never".  Operators under a comment "Wrong:" are bugs the code does not
have: each property is shown to fail under one of them, and no specification
uses them.

### The delivery modules

`ProjectionHeads` is what a reader of projections may rely on: a record has at
most one head, it names a committed revision, it only advances, and it only
moves while the space is open, to the placement generation in force.
`ProjectionOutbox` implements it.  Its state: `rev` (`records.revision`), `row`
(`projection_outbox`), `head` (`projection_heads`), `space` (the cell's row),
`job` (a running reconciliation), `hints` (the queue), `dispatcher`, `worker`.

| Action | Code |
|---|---|
| `Write` | a committed mutation with its outbox row (`appendFacts`) |
| `Claim`, `Send`, `SendFails`, `Unsend`, `DispatcherStops` | `PostgresOutbox.claim`, `dispatch` in the workers package, `release` |
| `Start`, `StartClosed`, `Lost`, `ClaimOutbox` | `PostgresOutbox.process` up to the handler; the collection-scoped `claimOutbox` |
| `LockLease`, `Requeue`, `Complete`, `Denied` | `completeProjection`: the lease is locked and the latest revision read, then the head is written |
| `ItemFault`, `FailLease`, `InfrastructureFault`, `ReleaseLease`, `Crash` | the error paths of `process` |
| `Elapse` | `available_at` passes |
| `Retry`, `Reconcile`, `StepLock`, `StepPage`, `StepAborts`, `Cancel` | the operator's calls and the cron's reconciliation step |
| `FencePlacement`, `ChangeLifecycle`, `ChangePolicy` | the cell transactions of `spaces.ts` |

Which due rows a claim takes is any subset the limits allow; `OutboxTurns` is
the walk itself, with the cell-wide cursor, the shares of spaces, the rotation
inside a space and the run of empty claims that ends a tick.  `DispatchLocks`
is the same claim seen by its row locks, beside completions and the purge of a
space: who waits for whom.  `RetrievalTurns` is the ring of retrieval work
(claim, and the release of what a claim had no time for, which gives the cursor
back).  `RetrievalWorkers` is one Ref projected into generations that start and
retire; `ProjectionRebuilds` is a collection's generations, their leased
rebuilds and the operator's calls.

### The authority modules

`RecordLedger` is what a client may rely on: a request takes effect in one step,
against the records and the lifecycle of that step, or is answered by a receipt
in force.  `RecordMutations` implements it (`ImplementsLedger`): its tables are the
ledger's, `COMMIT` is `Apply` or `Replay`, and everything before it stutters.  In it,
`session` is a transaction with its place in `mutateOnce`;
what it has written is private until its COMMIT lands, and a statement that meets
another's uncommitted key waits (`RowFree`, `ValueFree`, `IdentityFree`).
`AckTimeout` is a COMMIT without an answer; `Deadlock` is the database breaking a
cycle.  `EventFeed`: writers are open while others commit; `Read` is the whole of
`events` under its advisory lock.  `BatchIngestion`: a failure's record is two
actions (`FailSnapshot`, `FailUpdate`), as its `UPDATE` waits for the item's row
and looks at that row again but not at the batch's.  `IndexedQueries`: the
declaration of a field, its backfill, the index rows of every write and traversal
by keyset, one page per statement.  `Links` and `Claims`: transactions that lock
one object at a time and meet the grants once more at COMMIT.

### The space modules

`SpaceDirectory`: `call` is a request with the copies of the two rows it took on
its way; a lost answer is a disjunct of `Commit` and `Publish`, `Crash` leaves the
lease behind, `ExpireLease` ends it under a reconciler that is merely slow.  The
purge is one transaction here and opened up in `SpaceErasure`; keys are opened up
in `AgentKeys`, creation in `SpaceProvisioning`, whose variable `setting` is the
deployment a behaviour is in (who calls, whether the cell's pool is the control's,
whether a control connection may be lost alone): chosen at the start, never changed.  `CellAdmission` is the cell's
side of an assertion: the nonce, the joined calls of a callback, the policy's
locks, the fence and COMMIT.  `SourceUploads` and `OriginalErasure` have the
store: a put or delete whose answer was given up may land at any later time.

### The search modules

`Search` is one search from its plan to its answer, statement by statement,
beside revocations, deletions, cutovers and pruning.  Scores are left out: which
candidates come first is any choice, so what is shown does not rest on ranking.
`Passages` is `chunkText`, `rangesOf` and `assembleBundle` as state machines over
every text of a length and a placement of whitespace.

## The suites

Components that share no row are checked side by side: a behaviour of a suite
picks one part at its start, and runs that part's specification on the slots
`s1, s2, ...` in the order its module declares its variables.  States add up
rather than multiply.  A suite extends one component, whose variables are its
own and which rests (its initial state, no step) while another part runs, so
that the properties proved of that component are the ones the suite's run
checks, by name.

| Run | Parts (module: instance) |
|---|---|
| `outbox_safe` | `ProjectionOutbox`: 1 record, 2 revisions, 2 workers, placement 2, 1 fault, 1 operator call |
| `feed_reads` | `EventFeed`: 2 records of 2 revisions, 2 clients, publish 2, page 1, 1 fault |
| `directory` | `SpaceDirectory`: 2 callers with 1 request, 2 faults |
| `spaces_safe` | keys (`AgentKeys`: 2 issuers, 1 cleaner, 1 fault); creation (`SpaceProvisioning` in the five deployments of `Deployments`: another owner's creator, the owner's own retry, the cell in the control's database, an ID of the service's choice, links that break); texts (`SourceUploads`: 2 ingestions of one text); removals (`OriginalErasure`); space (`SpaceErasure`); admission (`CellAdmission`: 2 requests that present one assertion, 3 calls) |
| `records_safe` | mutations (`RecordMutations`, against `RecordLedger`: retries of one key through a fault, an expiry and a fence, or two sessions that take each other's unique value); batch (`BatchIngestion`: 2 callers, 2 items, 1 call each, 1 fault); backfill, pages (`IndexedQueries`: 3 records; 2 writers beside a backfill, or 1 write beside a traversal by any of 5 queries); links, lists (`Links`: 3 calls); claims, sources (`Claims`: 3 calls, 2 keys) |
| `retrieval_safe` | evidence, records (`RetrievalWorkers`); served, leases, vectors, refills (`ProjectionRebuilds`); turns (`RetrievalTurns`); ticks, windows (`OutboxTurns`); search, expiry (`Search`); passages (`Passages`: texts of up to 7 code points, chunks of 4 that overlap by 1, budgets 5, 9, 13, 30); repair (`ProjectionOutbox`: 2 records); locks (`DispatchLocks`: 2 claims, 1 completion, 2 spaces) |
| `deliveries_settle` | outbox, moved, workers, rebuilds, turns, ticks, with fairness |
| `requests_settle` | batch, backfill, links, calls, spaces (two deployments), keys, with fairness |
| `bytes_settle` | upload (`SourceUploads`: 1 grant, 2 calls, 1 tick, 1 late operation), healthy, removal, space, with fairness |
| `ticks_starve`, `locks_resumed`, `provision_links` | the three disagreements below |

What the properties say is at their definitions.  The safety runs hold between
100,000 and 2,000,000 distinct states each.

The bounds are the smallest at which the interesting cases happen.  Two workers,
sessions, clients or callers are enough for every race of two parties over one
row; where three matter (a chain of waits, two links and the deletion of their
end) there are three.  Two revisions let a late completion meet a later one; a
second placement lets a fence land between start and commit.  Publishing 2 and
paging 1 keep the code's relation (101 and 100).  A failure budget of 1 has the
boundary at the first failure.  One or two faults hit every statement, one at a
time or one after the recovery of another.  The models' own limits are named
`Max...` in their CONSTANTS and appear in guards only.

Some consequences worth knowing.  A listing whose page a hidden link takes a
place in would need three links and four calls and is out of `lists`' bounds.
`outbox_safe` has one record; what a reconciliation does between two is the part
`repair`.  In `deliveries_settle` the outbox is run once with operator calls and
once with placement changes, not with both.  The copy of an original whose
staging key the store always rejects is reached by the sweep alone
(`HealthyKeysGo` says the others are not held back by it).  A value too long to be
indexed stops its field's backfill, so `BackfillEnds` excludes it.  A nonce can be
consumed twice, as pruning may remove it; the second is refused by the check
against the database's clock, which is what `AssertionsSpentOnce` rests on.

## Fairness

Fairness is asked of schedules the repository has and of nothing else; writers,
operators, faults and new requests get none.

- Dispatch, reconciliation and retrieval steps are run by a cron for ever
  (`deployment/workers`); the queue redelivers until a hint is consumed; a worker
  that took a hint ends, as `process` has a deadline; leases and `available_at`
  pass with time.  All weak.
- A caller whose call threw calls again (`BatchIngestion`, `SpaceDirectory`):
  `publicationForRetry` and the operation key are written for that.
- Row and advisory locks are granted in turn: strong fairness of a process that
  another's lock may hold back again and again, one formula per process.
- The store answers, late writes land or never will, sweeps and ticks come to
  every key, and a delete that is not always rejected succeeds once: strong, as a
  failed attempt is followed by another.

A line that names several parts merges one process of each; parts exclude each
other, so it says the same as one line per part.  The liveness properties have the
form `<>[](...)`: changes, faults and operator calls are bounded, so it is once
they have stopped that things settle.  `TurnsCome` is `[]<>` of "not due and
unserved", the same as: whoever is due is served.

## What is proved

For every value of the constants, from the assumption each module names.

`ProjectionOutboxProofs`, from `OutboxAssumption`.  The invariant is built in
layers, each inductive with the ones before it: `TypeOK`; `LeaseInv` (a running
worker's attempt is never ahead of its row's, and where it is the row's lease that
lease is started, so that nobody starts it again: `LeaseHeld` alone says nothing of
a worker before its lock); `ScopeInv` (what a locked worker captured is what the
space still has, as scope changes wait for its share locks), which gives
`HeadsAdvance`, `ProjectsInScope` and `RefinesHeads`; then `CurrentMeansProjected`
and `RepairCovered` (`RepairSafe`).

`EventFeedProofs`.  The advisory lock makes what a read has taken hold until it
ends: `ReadInv` says of a read in progress that the positions it assigns lie past
every position and every cursor and keep the order of revisions, and that its page
is a first part of what its cursor has not passed.  `NeverSkips` needs all of it: a
late event is safe only because its position will be past every cursor.

`SpaceDirectoryProofs`.  `CopiesInv` bounds a request's copies by the rows,
`PlaceInv` says what its place in the code adds (what it is about to publish is in
the history `past`, is not behind what it read and does not revive a deleted
space).  As rows only grow, one request's part survives the steps of the others
(`StepKeeps`).  The compare-and-swap of `publish` looks at versions only; that the
lifecycles agree too follows from `past` (`SameVersion`).

`DispatchLocksProofs`.  Every transaction takes its space's lock first; so whoever
holds a row or an intent waits for nothing, and no chain of waits has two links
(`NoDeadlock`).  The hypothesis `NoneSuspended` (no space resumes within a claim) is
needed: `locks_resumed` shows the cycle without it.

`RecordsProofs` proves the whole of `records_safe`, each part through its own
instance of the suite, with its slots as variables; the head of the module says
which slot is which variable.  Mutations: the invariant gives each lock its worth: who holds an
identity alone may stamp its receipt, who holds a row knows its revision, who
reserved a value is its only future holder (`ReceiptsSafe`, `ChainsSafe`,
`EffectsOnce`).  `MutationsAreAtomic` is the refinement: what a session checked
(an active lifecycle, the live row at the expected revision, the receipt it
replays) is kept until its COMMIT by the locks it took on the way (`Kept`), so a
COMMIT finds it as the ledger's step asks (`CommitApplies`, `CommitReplays`), and
every other step leaves the ledger alone (`LedgerStep`).  The inductive invariants
of the other parts are the `Inv` at the end of their modules, checked by TLC on the
suite's parts before they were proved:

- `BatchIngestion`: whoever writes an item holds its row (`RowsHeld`) and has found
  it unsettled, in a batch that stays active as long as its row is held
  (`WritersMay`); what a call has passed is settled for good (`PassedIsSettled`), so
  an answer is true when it is given, however many calls race (`BatchesSafe`).
- `Claims`: a call's key lock is exclusive, so what it found of the history
  (`FoundOfClaim`, `FoundOfSource`) is so until it appends; a share lock on the source
  keeps what is cited from being deleted under it (`ClaimsSafe`).
- `Links`: rows are locked endpoints first and in their order, so a call waits only
  for an object greater than all it holds (`InPlace`), and of any set of calls one
  waits for nobody in it: no circle of any length.  Whoever deletes an endpoint has
  every live link of it locked, or has yet to lock it (`FoundByDelete`).  A listing's debt is what
  stayed live and readable: given, on the page, or further on (`ListGoesOn`).
- `IndexedQueries`: `BesideFill` says that a record that came to be live beside a
  snapshot has its row already; `CursorDivides` that the cursor stands after all that
  was returned and before all that is owed, in the traversal's order.  The order
  of keys is shown to be total and `FirstKeys` to return the first of any set, page
  after page (`IndexOrders`, `IndexIsFirst`).

`StepsSafe` gives the action properties of the four from the same invariants.
The constants are assumed to be what the code admits: a revision or a review names
its base by a positive number (`claims.ts`, `positive(input.baseRevision)`), a link has
ends, rows are numbered in the order the code locks them, a page limit is positive
and part of the query its cursor is bound to (`digestQuery`).

`SpaceBytesProofs` and `SpacesProofs` prove the whole of `spaces_safe` the same way;
the first holds the three parts that keep and erase bytes, the second, which extends
it, the other three and the theorems of the suite.  `PartsHold` joins the parts'
inductive invariants (the `Inv` at the end of each module, checked by TLC before it
was proved) and `PartSteps` says that a step of the suite is one of its part.

- `SourceUploads`: bytes leave the store only under attempts that failed, and a
  failed attempt stays failed; so no late delete, tick, sweep or revocation touches
  what a commit relies on, although the code looks at the store before the
  transaction and the store is in no transaction.  `CallOK` carries it: whoever is
  about to commit has seen bytes that are still there unless the attempt has failed
  since, and whoever deletes an original deletes a failed attempt's.  Each action is
  shown to be a `Step` (one of six changes of an attempt, one call moved to a place
  that fits it, only failed attempts' originals removed), and a `Step` keeps the
  invariant (`SourcesSafe`; `LedgerMoves` from the changes alone).
- `OriginalErasure`: a stored key that did not land late is recorded gone only if the
  sweep has found it since (`Recorded`), and a removal that deleted such a key has
  read the ledger before that find (`RemovalOK`): its record at COMMIT then meets a
  greater count and leaves the source to be erased again.
- `SpaceErasure`: the same by the counts of requests and of finds (`ReadsHold`): a
  tick whose read still is the request's has listed a store that nobody has asked to
  empty again since.
- `AgentKeys`: a row tells no more than has happened at the provider (`RowOK`), the
  credential grows in one order along the issuer's places (`Grown`), and behind a
  deletion stands, key by key, what can no longer come to life (`Gone`, `CleanerOK`):
  revoked, or never made by a create that is over or whose reservation the journal
  has cancelled (`KeysSafe`).
- `SpaceProvisioning`: whoever works on the cell holds the directory row's lock or
  has lost its connection (`CallOK`); a listing that read no cell row while it holds
  the lock may retire the ID, as no open transaction has one (`ListOK`).  The part
  about retired IDs needs `LockLasts`: `provision_links` shows the failure without it
  (`CreatedSafe`).
- `CellAdmission`: a nonce that was pruned had ended by the clock of the database, a
  clock that does not go back; an admission that finds it absent and enters is
  therefore one that `Enter`'s check refuses (`SpentOnce`).  Share locks on the policy
  row carry what was checked to COMMIT (`AdmissionsSafe`).

`ForwardSafe` gives the action properties of the suite from the same invariants.

`PassagesProofs`.  `EndBounds`: a chunk ends at most the size after its start and,
unless it is the last, past the next one's start, for every text.  `JoinCovers`
and `JoinApart` carry `rangesOf` through every sequence of citations, and
`BytesGrow` the budget: what an excerpt adds to the frame is what `fits` computed,
and quotes are disjoint from what is still offered (`BundleSafe`).

## What is only model-checked, and why

- Liveness under fairness, and ENABLED: out of the prover's reach.
- `LongestFits` of `Passages` speaks of a recursive byte count, an induction over
  data.
- The invariants of `retrieval_safe` but for the two modules of its that have theorems
  (`DispatchLocks`, `Passages`): `RetrievalWorkers`, `ProjectionRebuilds`,
  `RetrievalTurns`, `OutboxTurns` and `Search` have none.  Nothing in them is beyond
  the prover in principle.

## Disagreements found

Three runs expect a violation; each is a sentence of the repository's docs that
the code does not keep (`PROJECT.json`, findings): the turns of collections
(`ticks_starve`, `postgres/outbox.ts:209`), the claim that waits for an erasure
(`locks_resumed`, `outbox.ts:180`) and the creator that lost its row lock
(`provision_links`, `spaces.ts:374`).  Two observations have no run:
`retrieval.ts:904` gives back what was never started by a condition wider than its
comment at 893 says, and the comment at `packages/workers/src/index.ts:69`, that a
run of empty claims has covered every pair, is not true of dispatchers that
overlap, whose claims move the same cursor; `IdleMeansCovered` is therefore stated
of a run no other dispatcher's claim interrupts.

## What is not modelled

- `faults.ts`, `commit-deadline.ts`: a walk over an error's causes, and a timer.
  The models take their verdicts as choices.
- Application ports and routing (signing of assertions), HTTP, MCP, CLI, the
  authentication adapter, contracts and testing packages, the user interface,
  deployment scripts: no state of their own.  The blob store and the key provider
  appear as external actors.
- Inside modelled components: a cursor's encryption and expiry, schema
  compatibility, scores and caps of search, the text rules of exact questions,
  external keys, several mutations joined in one transaction, erasure's cascade in
  the feed, key rotation and expiry, listing and status reads.  Each component's
  note says so.

Idealisations the models keep, none of which a property leans on:

- `EventFeed`: `committed_at` increases strictly, without ties or a clock set back.
- `AgentKeys`: a provider create that threw has made its key by then or never does.
- `Claims`: each read takes the grants of that moment, while the code keeps the set of
  readable collections it read first; only the kind of the refusal can differ.
- `SourceUploads`: `Abandon` does not delete again the bytes of an attempt already
  recorded as removed, which the code does harmlessly.
- `SpaceErasure`: `ListKeys` lists both prefixes in one step; a write between the two
  listings is one of the keys the listing did not see.
- `RetrievalWorkers`: with `Records`, the lease of an older revision is released rather
  than superseded, so it comes back more often than in the code.

## Plan

`RetrievalWorkers` and `ProjectionRebuilds` (`ProjectionsHold`), then `Search`, then the
walks `RetrievalTurns` and `OutboxTurns`, are next to be proved.  Their inductive
invariants would be checked on the parts of `retrieval_safe` first, as those of the other suites were.
