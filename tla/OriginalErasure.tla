-------------------------- MODULE OriginalErasure --------------------------
(****************************************************************************)
(* The bytes of a deleted source: its original, and the copies the attempts *)
(* of its grant left.  Removals, started by the deletion or a reconciler,   *)
(* delete key by key and record each; writes the grant started may land     *)
(* however late, and a sweep that lists the store reopens what it finds.    *)
(****************************************************************************)
EXTENDS Naturals, Sequences, SequencesExt, FiniteSets

CONSTANTS
    Attempts,   \* upload attempts of the source's grant
    Committed,  \* the one that committed: its promoted copy is the original
    Removals,   \* runs of eraseOriginal
    Failing,    \* keys whose delete may fail
    Bad,        \* those of them whose delete the store always rejects
    Writes,     \* bound: keys a write may land on once more
    PageSize,   \* ERASE_ATTEMPTS and ERASE_FOUND
    MaxFinds,   \* bound: how often the sweep finds a key of the source
    MaxStops,   \* bound: how many removals stop short
    None

Staging(a) == <<"staging", a>>

Promoted(a) == <<"original", a>>

Keys == {"staging", "original"} \X Attempts

Original == Promoted(Committed)

Units == {"original", "staged", "found"} \X Keys

ErasureAssumption ==
    /\ Committed \in Attempts /\ None \notin Attempts \union Nat
    /\ Bad \subseteq Failing /\ Failing \subseteq Keys /\ Writes \subseteq Keys
    /\ PageSize \in Nat \ {0} /\ MaxFinds \in Nat /\ MaxStops \in Nat

VARIABLES
    deleted,   \* the source's tombstone
    settled,   \* its grant has ended and the grace is over
    cleaned,   \* attempts with staging_removed_at
    erasure,   \* original_erasures
    store,     \* keys that hold bytes
    writing,   \* writes that may still land
    unseen,    \* history: keys written after that end and not found by the sweep since
    removal,   \* where each removal is, with what it read
    sweep,     \* the key the sweep is at
    stops      \* removals that stopped short

vars == <<deleted, settled, cleaned, erasure, store, writing, unseen, removal, sweep, stops>>

Erasure == [observed: 0..MaxFinds, found: SUBSET Keys, at: 0..MaxFinds \union {None}, removed: BOOLEAN,
            deferred: Seq(Keys)]

Removal == [pc: {"idle", "try", "record"}, observed: 0..MaxFinds, gone: BOOLEAN, ranks: Seq(Keys), todo: SUBSET Units,
            joined: SUBSET Units, done: SUBSET Keys, missed: SUBSET Keys, unit: Units \union {None},
            current: BOOLEAN, cut: BOOLEAN]

NoRemoval == [pc |-> "idle", observed |-> 0, gone |-> FALSE, ranks |-> <<>>, todo |-> {}, joined |-> {}, done |-> {},
              missed |-> {}, unit |-> None, current |-> TRUE, cut |-> FALSE]

Init ==
    /\ deleted = FALSE /\ settled = FALSE /\ cleaned = {}
    /\ erasure = [observed |-> 0, found |-> {}, at |-> None, removed |-> FALSE, deferred |-> <<>>]
    /\ store \in {{Original}, Keys} /\ writing = Writes /\ unseen = {}
    /\ removal = [r \in Removals |-> NoRemoval]
    /\ sweep = [pc |-> "idle", key |-> None]
    /\ stops = 0

(* Where a key is in a sequence that holds it once. *)
Position(s, k) == IF k \in ToSet(s) THEN CHOOSE i \in DOMAIN s : s[i] = k ELSE 0

Without(s, k) ==
    IF k \in ToSet(s) THEN [i \in 1 .. (Len(s) - 1) |-> s[IF i < Position(s, k) THEN i ELSE i + 1]] ELSE s

(* Keys never deferred first, then in the order they were deferred. *)
Rank(s, k) == Position(s, k)

(* The first PageSize of a set by rank. *)
Pages(keys) ==
    {p \in SUBSET keys : /\ Cardinality(p) = (IF Cardinality(keys) < PageSize THEN Cardinality(keys) ELSE PageSize)
                         /\ \A k \in p, j \in keys \ p : Rank(erasure.deferred, k) <= Rank(erasure.deferred, j)}

----------------------------------------------------------------------------
(* The world: deletion, time, writes *)

DeleteSource ==
    /\ ~deleted /\ deleted' = TRUE
    /\ UNCHANGED <<settled, cleaned, erasure, store, writing, unseen, removal, sweep, stops>>

(* No write starts after the grant's end; one that started may land later. *)
WritersEnd ==
    /\ ~settled /\ settled' = TRUE
    /\ UNCHANGED <<deleted, cleaned, erasure, store, writing, unseen, removal, sweep, stops>>

WriteLands(k) ==
    /\ k \in writing /\ writing' = writing \ {k}
    /\ store' = store \union {k}
    /\ unseen' = IF settled THEN unseen \union {k} ELSE unseen
    /\ UNCHANGED <<deleted, settled, cleaned, erasure, removal, sweep, stops>>

(* A removal that read the erasure before its writers ended records nothing. *)
RemoveEarly(k) ==
    /\ deleted /\ ~settled /\ k \in store
    /\ store' = store \ {k}
    /\ UNCHANGED <<deleted, settled, cleaned, erasure, writing, unseen, removal, sweep, stops>>

----------------------------------------------------------------------------
(* A settled removal *)

Set(r, new) == removal' = [removal EXCEPT ![r] = new]

(* Wrong: what the sweep reopens does not become due again. *)
DueOnce == deleted /\ settled /\ ~erasure.removed /\ erasure.observed = 0

Due == deleted /\ settled /\ ~erasure.removed

(* ERASURE_STATE: a page of attempts, a page of found keys and the original. *)
Start(r) ==
    /\ removal[r].pc = "idle" /\ Due
    /\ \E found \in Pages(erasure.found), staged \in Pages({Staging(a) : a \in Attempts \ cleaned}) :
         Set(r, [NoRemoval EXCEPT !.pc = "try", !.observed = erasure.observed, !.gone = erasure.at = erasure.observed,
                                  !.ranks = erasure.deferred,
                                  !.todo = {<<"original", Original>>} \union ({"staged"} \X staged) \union ({"found"} \X found),
                                  !.done = IF erasure.at = erasure.observed THEN {Original} ELSE {}])
    /\ UNCHANGED <<deleted, settled, cleaned, erasure, store, writing, unseen, sweep, stops>>

(* By rank, then the original before the attempts before the found keys. *)
Place(m, u) == 3 * Rank(m.ranks, u[2]) + (CASE u[1] = "original" -> 0 [] u[1] = "staged" -> 1 [] u[1] = "found" -> 2)

NextUnits(m) ==
    IF m.todo = {} THEN m.joined ELSE {u \in m.todo : \A v \in m.todo : Place(m, u) <= Place(m, v)}

Without1(m, u) == [m EXCEPT !.todo = @ \ {u}, !.joined = @ \ {u}]

(* A key is deleted once for each removal, whichever unit names it first. *)
Delete(r, u) ==
    /\ removal[r].pc = "try" /\ u \in NextUnits(removal[r])
    /\ u[2] \in removal[r].done \/ u[2] \notin Bad
    /\ store' = IF u[2] \in removal[r].done THEN store ELSE store \ {u[2]}
    /\ Set(r, [Without1(removal[r], u) EXCEPT !.pc = "record", !.unit = u, !.done = @ \union {u[2]}])
    /\ UNCHANGED <<deleted, settled, cleaned, erasure, writing, unseen, sweep, stops>>

(* A delete that fails moves its key behind the others, and is not tried again
   by this removal; one that stalls ends the removal too. *)
DeleteFails(r, u) ==
    /\ removal[r].pc = "try" /\ u \in NextUnits(removal[r])
    /\ u[2] \in Failing \ removal[r].done
    /\ erasure' = IF erasure.removed THEN erasure ELSE [erasure EXCEPT !.deferred = Append(Without(@, u[2]), u[2])]
    /\ LET others(units) == {v \in units : v[2] # u[2]}
           m == removal[r]
       IN \/ Set(r, [m EXCEPT !.missed = @ \union {u[2]}, !.todo = others(@), !.joined = others(@)])
          \/ Set(r, [m EXCEPT !.missed = @ \union {u[2]}, !.todo = {}, !.joined = {}, !.cut = TRUE])
    /\ UNCHANGED <<deleted, settled, cleaned, store, writing, unseen, sweep, stops>>

(* The finding count is the one read before the delete. *)
Fence(m) == ~erasure.removed /\ erasure.observed = m.observed

Goes(k) == [erasure EXCEPT !.deferred = Without(@, k)]

(* removeFound and the original's unit: a record the fence refuses ends the
   removal. *)
RecordKey(r) ==
    /\ removal[r].pc = "record" /\ removal[r].unit[1] # "staged"
    /\ LET m == removal[r]
           k == m.unit[2]
           open == IF m.unit[1] = "found" THEN k \in erasure.found ELSE erasure.at # m.observed
           ended == [m EXCEPT !.pc = "try", !.unit = None, !.current = FALSE, !.todo = {}, !.joined = {}]
       IN \/ /\ m.unit[1] = "original" /\ m.gone
             /\ Set(r, [m EXCEPT !.pc = "try", !.unit = None]) /\ UNCHANGED erasure
          \/ /\ ~(m.unit[1] = "original" /\ m.gone) /\ Fence(m) /\ open
             /\ erasure' = IF m.unit[1] = "found" THEN [Goes(k) EXCEPT !.found = @ \ {k}] ELSE [Goes(k) EXCEPT !.at = m.observed]
             /\ Set(r, [m EXCEPT !.pc = "try", !.unit = None])
          \/ /\ ~(m.unit[1] = "original" /\ m.gone) /\ ~(Fence(m) /\ open)
             /\ Set(r, ended) /\ UNCHANGED erasure
    /\ UNCHANGED <<deleted, settled, cleaned, store, writing, unseen, sweep, stops>>

(* Wrong: the promoted copy is forgotten with its attempt. *)
NoCopy(a) == {}

(* The attempt's promoted copy, unless it is the original. *)
Copy(a) == {Promoted(a)} \ {Original}

(* An attempt that never ended fails here; its copy becomes a found key. *)
RecordAttempt(r) ==
    /\ removal[r].pc = "record" /\ removal[r].unit[1] = "staged"
    /\ LET m == removal[r]
           a == m.unit[2][2]
       IN /\ cleaned' = cleaned \union {a}
          /\ erasure' = IF erasure.removed THEN erasure ELSE [Goes(m.unit[2]) EXCEPT !.found = @ \union Copy(a)]
          /\ Set(r, [m EXCEPT !.pc = "try", !.unit = None, !.joined = @ \union (({"found"} \X (Copy(a) \ m.missed)) \ m.todo)])
    /\ UNCHANGED <<deleted, settled, store, writing, unseen, sweep, stops>>

(* Done only with nothing left, at the count read; else it is due again. *)
Finish(r) ==
    /\ removal[r].pc = "try" /\ NextUnits(removal[r]) = {}
    /\ LET m == removal[r]
       IN erasure' = IF /\ m.current /\ ~m.cut /\ m.missed = {} /\ Fence(m)
                        /\ erasure.at = erasure.observed /\ erasure.found = {} /\ cleaned = Attempts
                     THEN [erasure EXCEPT !.removed = TRUE, !.deferred = <<>>] ELSE erasure
    /\ Set(r, NoRemoval)
    /\ UNCHANGED <<deleted, settled, cleaned, store, writing, unseen, sweep, stops>>

(* The budget ends, the process stops, or the next statement's answer is lost. *)
Stop(r) ==
    /\ removal[r].pc # "idle" /\ stops < MaxStops
    /\ Set(r, NoRemoval) /\ stops' = stops + 1
    /\ UNCHANGED <<deleted, settled, cleaned, erasure, store, writing, unseen, sweep>>

----------------------------------------------------------------------------
(* The sweep *)

(* Bound: enough finds are left for every key that is or may come here. *)
FindsLeft == erasure.observed + Cardinality(store) + Cardinality(writing) <= MaxFinds

List(k) ==
    /\ sweep.pc = "idle" /\ k \in store /\ (k \in Bad => FindsLeft)
    /\ sweep' = [pc |-> "listed", key |-> k]
    /\ UNCHANGED <<deleted, settled, cleaned, erasure, store, writing, unseen, removal, stops>>

FoundWith(k) == erasure.found \union {k}

(* One statement counts the finding, reopens the erasure and decides whether
   the key goes: only the original of a live source stays. *)
Find ==
    /\ sweep.pc = "listed"
    /\ IF deleted THEN /\ erasure.observed < MaxFinds
                       /\ erasure' = [erasure EXCEPT !.observed = @ + 1, !.removed = FALSE, !.found = FoundWith(sweep.key)]
                       /\ unseen' = unseen \ {sweep.key}
       ELSE UNCHANGED <<erasure, unseen>>
    /\ sweep' = IF deleted \/ sweep.key # Original THEN [sweep EXCEPT !.pc = "found"] ELSE [pc |-> "idle", key |-> None]
    /\ UNCHANGED <<deleted, settled, cleaned, store, writing, removal, stops>>

SweepDelete ==
    /\ sweep.pc = "found"
    /\ \/ sweep.key \notin Bad /\ store' = store \ {sweep.key}
       \/ sweep.key \in Failing /\ (sweep.key \in Bad \/ FindsLeft) /\ UNCHANGED store
    /\ sweep' = [pc |-> "idle", key |-> None]
    /\ UNCHANGED <<deleted, settled, cleaned, erasure, writing, unseen, removal, stops>>

----------------------------------------------------------------------------
Proceed(r) ==
    \/ Start(r) \/ RecordKey(r) \/ RecordAttempt(r) \/ Finish(r)
    \/ \E u \in Units : Delete(r, u) \/ DeleteFails(r, u)

Next ==
    \/ DeleteSource \/ WritersEnd
    \/ \E k \in Keys : WriteLands(k) \/ RemoveEarly(k) \/ List(k)
    \/ \E r \in Removals : Proceed(r) \/ Stop(r)
    \/ Find \/ SweepDelete

Spec == Init /\ [][Next]_vars

----------------------------------------------------------------------------
(* Properties *)

(* A key is deferred at one place. *)
Once(s) == \A i, j \in DOMAIN s : s[i] = s[j] => i = j

(* Every variable holds what its table can hold, and an erasure is recorded
   only as its CHECKs and its trigger allow: nothing found is left, and the
   original was removed at the last count. *)
TypeOK ==
    /\ deleted \in BOOLEAN /\ settled \in BOOLEAN /\ stops \in 0..MaxStops /\ cleaned \subseteq Attempts
    /\ erasure \in Erasure /\ removal \in [Removals -> Removal]
    /\ store \subseteq Keys /\ writing \subseteq Keys /\ unseen \subseteq Keys
    /\ sweep \in [pc: {"idle", "listed", "found"}, key: Keys \union {None}]
    /\ Once(erasure.deferred)
    /\ erasure.removed => erasure.found = {} /\ erasure.at = erasure.observed

(* An erasure reads removed only while the store holds none of the source's
   bytes, but for writes that landed after their grant and its grace had ended
   and that no sweep has found. *)
ErasedMeansGone == erasure.removed => deleted /\ store \subseteq unseen

(* The count and the removal recorded against it never go back. *)
ProgressForward ==
    /\ erasure'.observed >= erasure.observed
    /\ erasure.at # None => erasure'.at # None /\ erasure'.at >= erasure.at
    /\ erasure.removed /\ ~erasure'.removed => erasure'.observed > erasure.observed

(* Copies the store keeps rejecting do not hold back the other keys of a deleted
   source, more of them than a page: removals alone, with no sweep, reach them
   all.  (A copy whose attempt's staging key is rejected is left to the sweep.) *)
HealthyKeysGo == deleted => store \subseteq Bad

(* A deleted source's erasure is recorded in the end, and stays recorded. *)
ErasedInTheEnd == deleted => store = {} /\ erasure.removed

----------------------------------------------------------------------------
(* Its inductive invariant *)

(* Nothing is recorded before the source is deleted and its writers' end. *)
Started == ~(deleted /\ settled) => cleaned = {} /\ erasure.at = None /\ ~erasure.removed

(* The original's removal was recorded at a count there was. *)
Counted == erasure.at # None => erasure.at <= erasure.observed

(* A key that is stored and was not written since is not recorded gone, unless
   it was found since. *)
Recorded ==
    \A k \in store \ unseen :
        IF k = Original THEN erasure.at # erasure.observed ELSE k[2] \in cleaned => k \in erasure.found

(* The sweep is at a key. *)
Listed == sweep.pc # "idle" => sweep.key \in Keys

(* What a unit names. *)
UnitOK(u) == /\ u[1] = "original" => u[2] = Original
             /\ u[1] = "staged" => u[2] = Staging(u[2][2])

(* A removal's reading is not ahead, and a key it deleted is stored again only
   as written late, or found since. *)
RemovalOK(m) ==
    m.pc # "idle" =>
        /\ deleted /\ settled /\ m.observed <= erasure.observed
        /\ \A u \in m.todo \union m.joined : UnitOK(u)
        /\ m.pc = "record" => m.unit \in Units /\ UnitOK(m.unit) /\ m.unit[2] \in m.done
        /\ \A k \in m.done \intersect (store \ unseen) : k \in erasure.found /\ m.observed < erasure.observed

Inv ==
    /\ TypeOK /\ ErasedMeansGone /\ Listed /\ Started /\ Counted /\ Recorded
    /\ \A r \in Removals : RemovalOK(removal[r])
=============================================================================
