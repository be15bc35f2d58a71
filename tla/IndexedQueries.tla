--------------------------- MODULE IndexedQueries ---------------------------
(****************************************************************************)
(* One indexed field of one collection: its declaration and backfill        *)
(* (packages/postgres/src/collections.ts), the index rows every record      *)
(* write keeps, and the exact queries that page through them by keyset      *)
(* (packages/postgres/src/index.ts, migrations 002, 026, 028 and 031).  A   *)
(* step is one transaction, or its first statements where what they read is *)
(* used later: a write holds the collection's version from its beginning, a *)
(* backfill batch takes its snapshot before it has locked its rows, and a   *)
(* traversal is one statement per page with writers in between.  A value is *)
(* a number: 0 for a missing field, 1 for null, more for a present value,   *)
(* the last one too long to be indexed.  Expired grants, deadlines and lost *)
(* connections are transactions that roll back.                             *)
(****************************************************************************)
EXTENDS Naturals, FiniteSets, FiniteSetsExt

CONSTANTS Writers,
          NRecords,   \* record ids, in their order
          MaxValue,   \* values that can be indexed are below it
          Batch,      \* records one backfill batch reads
          PageBytes,  \* bytes of the records of one page
          MaxVersion, \* bounds the versions of the collection
          MaxWrites,  \* bounds the writes
          MaxFaults,  \* bounds the transactions that roll back
          Queries     \* the queries readers ask; see Query

\* Its sort, the value it asks for, 0 for any, and the records of one page: a cursor is bound to all three.
Query == [sort : {"none", "asc", "desc"}, filter : 0..(MaxValue - 1), limit : Nat \ {0}]

QueriesAssumption ==
  /\ {NRecords, Batch, MaxVersion} \subseteq Nat \ {0} /\ {MaxWrites, MaxFaults} \subseteq Nat
  /\ MaxValue \in Nat \ 0..2 /\ PageBytes \in Nat \ 0..1
  /\ Queries \subseteq Query

Ids == 1..NRecords
NoRow == MaxValue + 1
FieldValues == 0..MaxValue
\* Record 1 has two bytes, any other has one; a page has room for every record.
Bytes(S) == Cardinality(S) + Cardinality(S \cap {1})

VARIABLES version, decl,  \* the collection's version; the field's declaration and its cursor
          records, index, \* what is committed: the records, and the field's index rows
          writer, fill,   \* transactions in progress
          reader,         \* a traversal
          created, writes, faults \* records created, writes left, faults so far

vars == <<version, decl, records, index, writer, fill, reader, created, writes, faults>>

NoRecord == [st |-> "none", val |-> 0, at |-> 0]
NoWrite == [pc |-> "idle", r |-> 1, rec |-> NoRecord, declared |-> FALSE, old |-> FALSE]
NoFill == [pc |-> "idle", snap |-> {}]
NoCursor == [rank |-> 0, val |-> 0, at |-> 0, id |-> 0]
\* seen and stable: records returned, and those there at its start, that no write has changed since.
NoReader == [pc |-> "idle", q |-> [sort |-> "none", filter |-> 0, limit |-> 1], version |-> 0, cursor |-> NoCursor,
             first |-> TRUE, seen |-> {}, stable |-> {}, repeated |-> FALSE]

Live(r) == records[r].st = "live"

\* A collection with records of any values, created in any order, and a field not indexed yet.
Init ==
  /\ version = 1 /\ decl = [st |-> "none", after |-> 0]
  /\ records \in [Ids -> {NoRecord} \cup {[st |-> "live", val |-> v, at |-> 0] : v \in FieldValues}]
  /\ index = [r \in Ids |-> NoRow]
  /\ writer = [w \in Writers |-> NoWrite] /\ fill = NoFill /\ reader = NoReader
  /\ created = 0 /\ writes \in 0..MaxWrites /\ faults = 0

Fault == faults < MaxFaults /\ faults' = faults + 1

(***************************************************************************)
(* The collection's versions: a new version excludes writes and batches,   *)
(* which share its row.  Nothing declared is ever removed.                 *)
(***************************************************************************)
Revise ==
  /\ version < MaxVersion /\ version' = version + 1
  /\ \A w \in Writers : writer[w].pc = "idle"
  /\ fill.pc = "idle"
  /\ decl' \in {decl} \cup (IF decl.st = "none" THEN {[st |-> "pending", after |-> 0]} ELSE {})
  /\ UNCHANGED <<records, index, writer, fill, reader, created, writes, faults>>

(***************************************************************************)
(* Writes.                                                                 *)
(***************************************************************************)
Locked(r) == \E w \in Writers : writer[w].pc = "wrote" /\ writer[w].r = r
Declared == decl.st # "none"

\* A value too long is refused once the field is declared.
Admitted(v) == v < MaxValue \/ ~Declared

Written(r) ==
  LET to(st, v, at) == [st |-> st, val |-> v, at |-> at] IN
  CASE records[r].st = "none" -> {to("live", v, created + 1) : v \in {v \in FieldValues : Admitted(v)}}
    [] records[r].st = "live" -> {to("live", v, records[r].at) : v \in {v \in FieldValues : Admitted(v)}}
                                   \cup {to("gone", records[r].val, records[r].at)}
    [] OTHER -> {}

\* An old writer is one from before migration 031, which keeps no row for a missing value.
Write(w, r) ==
  /\ writer[w].pc = "idle" /\ writes > 0 /\ ~Locked(r)
  /\ \E rec \in Written(r), old \in BOOLEAN :
       writer' = [writer EXCEPT ![w] = [pc |-> "wrote", r |-> r, rec |-> rec, declared |-> Declared, old |-> old]]
  /\ writes' = writes - 1 /\ created' = IF records[r].st = "none" THEN created + 1 ELSE created
  /\ UNCHANGED <<version, decl, records, index, fill, reader, faults>>

Row(x) == IF x.rec.st = "live" /\ x.declared /\ ~(x.old /\ x.rec.val = 0) THEN x.rec.val ELSE NoRow

(* Wrong: only ready declarations must be complete when a write commits. *)
ProjectedReady(x) == x.rec.st = "live" /\ decl.st = "ready" => Row(x) # NoRow
(* The deferred check of a write's commit: a live record has a row for every declared field. *)
Projected(x) == x.rec.st = "live" /\ Declared => Row(x) # NoRow

\* What a write changes is no longer what a traversal was to see, or has seen.
Changed(r) == [reader EXCEPT !.seen = @ \ {r}, !.stable = @ \ {r}]

Commit(w) ==
  LET x == writer[w] IN
  /\ x.pc = "wrote" /\ Projected(x)
  /\ records' = [records EXCEPT ![x.r] = x.rec] /\ index' = [index EXCEPT ![x.r] = Row(x)]
  /\ writer' = [writer EXCEPT ![w] = NoWrite] /\ reader' = Changed(x.r)
  /\ UNCHANGED <<version, decl, fill, created, writes, faults>>

Rollback(w) ==
  /\ writer[w].pc = "wrote" /\ writer' = [writer EXCEPT ![w] = NoWrite]
  /\ (IF Projected(writer[w]) THEN Fault ELSE UNCHANGED faults)
  /\ UNCHANGED <<version, decl, records, index, fill, reader, created, writes>>

(***************************************************************************)
(* Backfill, one batch a transaction.                                      *)
(***************************************************************************)
BeginBatch ==
  /\ fill.pc = "idle" /\ decl.st = "pending"
  /\ fill' = [pc |-> "read", snap |-> {r \in Ids : Live(r) /\ r > decl.after}]
  /\ UNCHANGED <<version, decl, records, index, writer, reader, created, writes, faults>>

First(n, S) == {r \in S : Cardinality({s \in S : s < r}) < n}
(* The rows of the snapshot that are still live once they are locked, up to a batch. *)
BatchRows == First(Batch, {r \in fill.snap : Live(r)})
(* Wrong: the cursor is saved with the last batch only. *)
ReachedLate(rows) == IF Cardinality(rows) < Batch THEN Max({decl.after} \cup rows) ELSE decl.after
Reached(rows) == Max({decl.after} \cup rows)
IsLast(rows) == Cardinality(rows) < Batch

FinishBatch ==
  /\ fill.pc = "read" /\ \A r \in BatchRows : ~Locked(r) /\ records[r].val < MaxValue
  /\ index' = [r \in Ids |-> IF r \in BatchRows /\ index[r] = NoRow THEN records[r].val ELSE index[r]]
  /\ decl' = [st |-> IF IsLast(BatchRows) THEN "ready" ELSE "pending", after |-> Reached(BatchRows)]
  /\ fill' = NoFill
  /\ UNCHANGED <<version, records, writer, reader, created, writes, faults>>

(* A record whose value is too long fails its batch; so do an expired grant and a lost connection. *)
FailBatch ==
  /\ fill.pc = "read" /\ fill' = NoFill
  /\ (IF \E r \in BatchRows : ~Locked(r) /\ records[r].val = MaxValue THEN UNCHANGED faults ELSE Fault)
  /\ UNCHANGED <<version, decl, records, index, writer, reader, created, writes>>

(***************************************************************************)
(* Queries.                                                                *)
(***************************************************************************)
Rank(v) == IF v < 2 THEN v ELSE 2
Sorted == reader.q.sort # "none"
Down == reader.q.sort = "desc"
Uses(q) == q.sort # "none" \/ q.filter # 0
Matches(q, r) == q.filter = 0 \/ index[r] = q.filter

\* The position of a record in the order of the query: by index row, or by when it was created.
Key(r) == IF Sorted THEN [rank |-> Rank(index[r]), val |-> index[r], at |-> 0, id |-> r]
                    ELSE [rank |-> 2, val |-> 0, at |-> records[r].at, id |-> r]
Precedes(a, b) ==
  IF a.rank # b.rank THEN (a.rank < b.rank) # Down
  ELSE IF a.val # b.val THEN (a.val < b.val) # Down
  ELSE IF a.at # b.at THEN a.at < b.at ELSE a.id < b.id

(* Each rank's own continuation after the cursor: by value and id in its rank, all or nothing in the others. *)
After(c, k) ==
  IF k.rank # c.rank THEN (c.rank < k.rank) # Down
  ELSE IF ~Sorted THEN c.at < k.at \/ (c.at = k.at /\ c.id < k.id)
  ELSE IF k.rank < 2 THEN c.id < k.id
  ELSE IF c.val # k.val THEN (c.val < k.val) # Down ELSE c.id < k.id

Ahead(r) == reader.first \/ After(reader.cursor, Key(r))
FirstKeys(n, S) == {r \in S : Cardinality({s \in S : Precedes(Key(s), Key(r))}) < n}

(* A sort without a filter takes each rank's first index rows before it looks at their records. *)
Candidates ==
  IF ~Sorted \/ reader.q.filter # 0
  THEN FirstKeys(reader.q.limit + 1, {r \in Ids : Live(r) /\ Matches(reader.q, r) /\ Ahead(r)})
  ELSE LET branch(k) == FirstKeys(reader.q.limit + 1, {r \in Ids : index[r] # NoRow /\ Rank(index[r]) = k /\ Ahead(r)}) IN
       FirstKeys(reader.q.limit + 1, {r \in UNION {branch(k) : k \in 0..2} : Live(r)})

Consumed(r) == Bytes({s \in Candidates : s = r \/ Precedes(Key(s), Key(r))})
Chosen == {r \in FirstKeys(reader.q.limit, Candidates) : Consumed(r) <= PageBytes}
LastOf(S) == CHOOSE r \in S : \A s \in S \ {r} : Precedes(Key(s), Key(r))
More == Chosen # Candidates /\ Chosen # {}

Start(q) ==
  /\ reader.pc = "idle" /\ (Uses(q) => decl.st = "ready")
  /\ reader' = [NoReader EXCEPT !.pc = "page", !.q = q, !.version = version,
                                !.stable = {r \in Ids : Live(r) /\ (q.filter = 0 \/ records[r].val = q.filter)}]
  /\ UNCHANGED <<version, decl, records, index, writer, fill, created, writes, faults>>

Page ==
  /\ reader.pc = "page" /\ reader.version = version
  /\ reader' = [reader EXCEPT
       !.seen = @ \cup Chosen, !.repeated = @ \/ Chosen \cap reader.seen # {}, !.first = FALSE,
       !.cursor = IF Chosen # {} THEN Key(LastOf(Chosen)) ELSE @, !.pc = IF More THEN "page" ELSE "ended"]
  /\ UNCHANGED <<version, decl, records, index, writer, fill, created, writes, faults>>

CursorInvalid ==
  /\ reader.pc = "page" /\ reader.version # version /\ reader' = NoReader
  /\ UNCHANGED <<version, decl, records, index, writer, fill, created, writes, faults>>

NextOf(asked) ==
  \/ Revise \/ BeginBatch \/ FinishBatch \/ FailBatch \/ Page \/ CursorInvalid
  \/ \E w \in Writers : Commit(w) \/ Rollback(w) \/ \E r \in Ids : Write(w, r)
  \/ \E q \in asked : Start(q)

Next == NextOf(Queries)

Spec == Init /\ [][Next]_vars

-----------------------------------------------------------------------------
Record == [st : {"none", "live", "gone"}, val : FieldValues, at : Nat]
KeyOf == [rank : 0..2, val : Nat, at : Nat, id : Nat]

(* Every variable keeps its type, and the backfill cursor is a record id. *)
TypeOK ==
  /\ version \in 1..MaxVersion
  /\ decl \in [st : {"none", "pending", "ready"}, after : 0..NRecords]
  /\ records \in [Ids -> Record] /\ index \in [Ids -> FieldValues \cup {NoRow}]
  /\ writer \in [Writers -> [pc : {"idle", "wrote"}, r : Ids, rec : Record, declared : BOOLEAN, old : BOOLEAN]]
  /\ fill \in [pc : {"idle", "read"}, snap : SUBSET Ids]
  /\ reader \in [pc : {"idle", "page", "ended"}, q : Query, version : Nat, cursor : KeyOf,
                 first : BOOLEAN, seen : SUBSET Ids, stable : SUBSET Ids, repeated : BOOLEAN]
  /\ created \in Nat /\ writes \in Nat /\ faults \in Nat

(* An index that may be queried tells exactly the live records' values, whatever wrote beside its backfill. *)
ReadyIsExact ==
  decl.st = "ready" => \A r \in Ids : index[r] = IF Live(r) THEN records[r].val ELSE NoRow

(* A row that exists is its live record's value, and the batches' cursor leaves no record behind without one. *)
NothingLeftBehind ==
  /\ \A r \in Ids : index[r] # NoRow => Live(r) /\ index[r] = records[r].val
  /\ \A r \in Ids : Declared /\ Live(r) /\ r <= decl.after => index[r] # NoRow

(* A traversal that ends has returned every record it found at its start that nothing changed meanwhile. *)
TraversalIsComplete == reader.pc = "ended" => reader.stable \subseteq reader.seen

(* No traversal returns a record twice that nothing changed in between. *)
TraversalRepeatsNothing == ~reader.repeated

(* The inductive invariant: of the backfill, what a write beside it leaves; of
   a traversal, where its cursor stands between what it gave and what it owes. *)

\* A batch reads a field that stays pending, and what comes to be live beside its snapshot has its row.
BesideFill ==
  fill.pc = "read" =>
    /\ decl.st = "pending"
    /\ \A r \in Ids : Live(r) /\ r > decl.after /\ r \notin fill.snap => index[r] # NoRow

\* A position in the order the traversal goes by.
InOrder(k) == IF Sorted THEN k.at = 0 /\ k.rank = Rank(k.val) ELSE k.rank = 2 /\ k.val = 0

\* What a traversal is to see is there to be found, by an index that is ready if it uses one.
ToBeFound ==
  /\ reader.pc # "idle" /\ Uses(reader.q) => decl.st = "ready"
  /\ \A r \in reader.stable : Live(r) /\ (reader.q.filter = 0 \/ records[r].val = reader.q.filter)

\* What it has returned is not after its cursor; what it has yet to return is.
CursorDivides ==
  reader.pc = "page" =>
    /\ ~reader.first => InOrder(reader.cursor)
    /\ \A r \in reader.seen : ~Ahead(r)
    /\ \A r \in reader.stable \ reader.seen : Ahead(r)

Inv ==
  /\ TypeOK /\ ReadyIsExact /\ NothingLeftBehind /\ BesideFill /\ ToBeFound /\ CursorDivides
  /\ TraversalIsComplete /\ TraversalRepeatsNothing

(* A declared field becomes ready, unless a record holds a value too long to be indexed. *)
BackfillEnds == Declared => decl.st = "ready" \/ \E r \in Ids : Live(r) /\ records[r].val = MaxValue
=============================================================================
