---------------------------- MODULE SpaceErasure ----------------------------
(***************************************************************************)
(* Erasing a space: the purge of its rows in one transaction, its owner's  *)
(* repair of a deleted cell that holds rows again, and the removal of its  *)
(* stored bytes by ticks that list its keys, while late writes land and a  *)
(* sweep reopens what it finds.                                            *)
(***************************************************************************)
EXTENDS Naturals, FiniteSets

CONSTANTS
    Owners,     \* calls of delete and repairDeletedErasure
    Ticks,      \* reconcilers that run erase
    Keys,       \* the space's original and staging keys
    PageSize,   \* keys a listing returns
    MaxAsked,   \* bound: purges of the space
    MaxFinds,   \* bound: findings of the sweep
    None

SpaceErasureAssumption ==
    /\ None \notin Keys /\ IsFiniteSet(Keys) /\ PageSize \in Nat \ {0}
    /\ MaxAsked \in Nat \ {0} /\ MaxFinds \in Nat

VARIABLES
    lifecycle,  \* of the cell's space row
    rows,       \* the cell holds content rows of the space
    audits,     \* space:deleted audit rows
    published,  \* the directory says deleted
    request,    \* space_erasures
    store,      \* keys that hold bytes
    writing,    \* writes of its grants that may still land
    unseen,     \* history: keys written after the writers' end and not found since
    owner,      \* where each owner's call is
    tick,       \* where each tick is, with the request it read
    sweep       \* the key the sweep is at

vars == <<lifecycle, rows, audits, published, request, store, writing, unseen, owner, tick, sweep>>

(* asked counts purges, as requested_at dates the last. *)
Request == [asked: 0..MaxAsked, settled: BOOLEAN, observed: 0..MaxFinds, removed: BOOLEAN]

Tick == [pc: {"idle", "list", "delete"}, read: Request, todo: SUBSET Keys, found: BOOLEAN]

NoRequest == [asked |-> 0, settled |-> FALSE, observed |-> 0, removed |-> FALSE]

NoTick == [pc |-> "idle", read |-> NoRequest, todo |-> {}, found |-> FALSE]

Init ==
    /\ lifecycle = "active" /\ rows = TRUE /\ audits = 0 /\ published = FALSE
    /\ request = NoRequest
    /\ store \in SUBSET Keys /\ writing = Keys /\ unseen = {}
    /\ owner = [o \in Owners |-> "idle"]
    /\ tick = [t \in Ticks |-> NoTick]
    /\ sweep = [pc |-> "idle", key |-> None]

bytes == <<store, writing, unseen>>

Erased == lifecycle = "deleted" /\ ~rows

----------------------------------------------------------------------------
(* The owner: delete, and repair *)

Goto(o, pc) == owner' = [owner EXCEPT ![o] = pc]

(* changeLifecycle; a retry finds the cell deleting or deleted already. *)
BeginDelete(o) ==
    /\ owner[o] = "idle" /\ ~published
    /\ lifecycle' = IF lifecycle = "active" THEN "deleting" ELSE lifecycle
    /\ Goto(o, IF lifecycle = "deleted" THEN "publish" ELSE "purge")
    /\ UNCHANGED <<rows, audits, published, request, bytes, tick, sweep>>

(* Wrong: what was removed before is taken for removed again. *)
AskAgainRemoved == [request EXCEPT !.asked = @ + 1, !.settled = FALSE]

(* Every purge asks again, and its grants may write until they end. *)
AskAgain == [request EXCEPT !.asked = @ + 1, !.settled = FALSE, !.removed = FALSE]

Purges == lifecycle = "deleting"

(* stateplane_purge_space and its audit, under the space's row lock. *)
Purge(o) ==
    /\ owner[o] = "purge"
    /\ IF Purges
       THEN /\ request.asked < MaxAsked
            /\ lifecycle' = "deleted" /\ rows' = FALSE /\ request' = AskAgain
            /\ audits' = audits + 1 /\ Goto(o, "publish")
       ELSE Goto(o, "idle") /\ UNCHANGED <<lifecycle, rows, audits, request>>
    /\ UNCHANGED <<published, bytes, tick, sweep>>

(* delete's last steps, and the retry of a deletion that was not published. *)
Publish(o) ==
    /\ owner[o] = "publish"
    /\ published' = (published \/ Erased)
    /\ Goto(o, "idle")
    /\ UNCHANGED <<lifecycle, rows, audits, request, bytes, tick, sweep>>

(* External: rows come back under the tombstone, from a copy of the cell. *)
Leftover ==
    /\ lifecycle = "deleted" /\ ~rows /\ request.asked < MaxAsked
    /\ \A o \in Owners : owner[o] = "idle"
    /\ rows' = TRUE
    /\ UNCHANGED <<lifecycle, audits, published, request, bytes, owner, tick, sweep>>

(* Read first, without a lock. *)
BeginRepair(o) ==
    /\ owner[o] = "idle" /\ lifecycle = "deleted" /\ rows
    /\ Goto(o, "repair")
    /\ UNCHANGED <<lifecycle, rows, audits, published, request, bytes, tick, sweep>>

Repairs == lifecycle = "deleted" /\ rows

(* Under the row lock: to deleting and through the purge in one transaction. *)
Repair(o) ==
    /\ owner[o] = "repair"
    /\ IF Repairs /\ request.asked < MaxAsked
       THEN /\ rows' = FALSE /\ request' = AskAgain
            /\ audits' = IF audits = 0 THEN 1 ELSE audits
       ELSE UNCHANGED <<rows, audits, request>>
    /\ Goto(o, "idle")
    /\ UNCHANGED <<lifecycle, published, bytes, tick, sweep>>

OwnerStops(o) ==
    /\ owner[o] # "idle" /\ Goto(o, "idle")
    /\ UNCHANGED <<lifecycle, rows, audits, published, request, bytes, tick, sweep>>

----------------------------------------------------------------------------
(* Writes and time *)

WriteLands(k) ==
    /\ k \in writing /\ writing' = writing \ {k}
    /\ store' = store \union {k}
    /\ unseen' = IF request.settled THEN unseen \union {k} ELSE unseen
    /\ UNCHANGED <<lifecycle, rows, audits, published, request, owner, tick, sweep>>

WritersEnd ==
    /\ request.asked > 0 /\ ~request.settled
    /\ request' = [request EXCEPT !.settled = TRUE]
    /\ UNCHANGED <<lifecycle, rows, audits, published, bytes, owner, tick, sweep>>

----------------------------------------------------------------------------
(* A tick of erase, its space part *)

SetTick(t, new) == tick' = [tick EXCEPT ![t] = new]

ReadPage(t) ==
    /\ tick[t].pc = "idle" /\ request.asked > 0 /\ ~request.removed
    /\ SetTick(t, [NoTick EXCEPT !.pc = "list", !.read = request])
    /\ UNCHANGED <<lifecycle, rows, audits, published, request, bytes, owner, sweep>>

Pages == {p \in SUBSET store : Cardinality(p) = (IF Cardinality(store) < PageSize THEN Cardinality(store) ELSE PageSize)}

ListKeys(t) ==
    /\ tick[t].pc = "list"
    /\ \E page \in Pages : SetTick(t, [tick[t] EXCEPT !.pc = "delete", !.todo = page, !.found = page # {}])
    /\ UNCHANGED <<lifecycle, rows, audits, published, request, bytes, owner, sweep>>

DeleteKey(t, k) ==
    /\ tick[t].pc = "delete" /\ k \in tick[t].todo
    /\ store' = store \ {k}
    /\ SetTick(t, [tick[t] EXCEPT !.todo = @ \ {k}])
    /\ UNCHANGED <<lifecycle, rows, audits, published, request, writing, unseen, owner, sweep>>

(* A delete that fails, or a budget cut short: the turn is recorded only. *)
TickStops(t) ==
    /\ tick[t].pc # "idle" /\ SetTick(t, NoTick)
    /\ UNCHANGED <<lifecycle, rows, audits, published, request, bytes, owner, sweep>>

SameRequest(read) == request.asked = read.asked /\ request.observed = read.observed

(* Only an empty listing after the writers' end completes the request read. *)
EndTick(t) ==
    /\ tick[t].pc = "delete" /\ tick[t].todo = {}
    /\ LET read == tick[t].read
       IN request' = IF ~tick[t].found /\ read.settled /\ SameRequest(read) THEN [request EXCEPT !.removed = TRUE] ELSE request
    /\ SetTick(t, NoTick)
    /\ UNCHANGED <<lifecycle, rows, audits, published, bytes, owner, sweep>>

----------------------------------------------------------------------------
(* The sweep, where the attempt ledger no longer knows the keys *)

SweepLists(k) ==
    /\ sweep.pc = "idle" /\ k \in store
    /\ sweep' = [pc |-> "listed", key |-> k]
    /\ UNCHANGED <<lifecycle, rows, audits, published, request, bytes, owner, tick>>

Reopened == [request EXCEPT !.observed = @ + 1, !.removed = FALSE]

SweepFinds ==
    /\ sweep.pc = "listed"
    /\ IF lifecycle = "deleted"
       THEN /\ request.observed < MaxFinds
            /\ request' = Reopened /\ unseen' = unseen \ {sweep.key}
            /\ sweep' = [sweep EXCEPT !.pc = "found"]
       ELSE sweep' = [pc |-> "idle", key |-> None] /\ UNCHANGED <<request, unseen>>
    /\ UNCHANGED <<lifecycle, rows, audits, published, store, writing, owner, tick>>

(* Bound: enough findings are left for every key that is or may come here. *)
FindsLeft == request.observed + Cardinality(store) + Cardinality(writing) <= MaxFinds

SweepDeletes ==
    /\ sweep.pc = "found"
    /\ store' = store \ {sweep.key} \/ (FindsLeft /\ UNCHANGED store)
    /\ sweep' = [pc |-> "idle", key |-> None]
    /\ UNCHANGED <<lifecycle, rows, audits, published, request, writing, unseen, owner, tick>>

----------------------------------------------------------------------------
TickRuns(t) == ReadPage(t) \/ ListKeys(t) \/ EndTick(t) \/ \E k \in Keys : DeleteKey(t, k)

Next ==
    \/ \E o \in Owners : \/ BeginDelete(o) \/ Purge(o) \/ Publish(o)
                         \/ BeginRepair(o) \/ Repair(o) \/ OwnerStops(o)
    \/ Leftover \/ WritersEnd
    \/ \E k \in Keys : WriteLands(k) \/ SweepLists(k)
    \/ \E t \in Ticks : TickRuns(t) \/ TickStops(t)
    \/ SweepFinds \/ SweepDeletes

Spec == Init /\ [][Next]_vars

----------------------------------------------------------------------------
(* Properties *)

(* Every variable holds what its table can hold. *)
TypeOK ==
    /\ lifecycle \in {"active", "deleting", "deleted"} /\ {rows, published} \subseteq BOOLEAN /\ audits \in {0, 1}
    /\ request \in Request /\ owner \in [Owners -> {"idle", "purge", "publish", "repair"}] /\ tick \in [Ticks -> Tick]
    /\ store \subseteq Keys /\ writing \subseteq Keys /\ unseen \subseteq Keys
    /\ sweep \in [pc: {"idle", "listed", "found"}, key: Keys \union {None}]

(* The bytes of a space read erased only while none are stored, but for writes
   that landed after its writers and their grace had ended and that no sweep has
   found; and only once the space is deleted. *)
ErasedMeansGone == request.removed => lifecycle = "deleted" /\ store \subseteq unseen

(* A deleted space has its one audit row of the deletion, however its deletion
   and its repairs raced or were retried. *)
OneDeletionAudit == audits = IF lifecycle = "deleted" THEN 1 ELSE 0

(* No owner sees a usable space between a deletion and its repair, and a purge
   asks for the bytes anew.  The guard of the table refuses none of it. *)
DeletedStays ==
    /\ lifecycle = "deleted" => lifecycle' = "deleted"
    /\ rows /\ ~rows' => ~request'.removed
    /\ request.asked <= request'.asked /\ request.observed <= request'.observed

(* The bytes of a deleted space are gone in the end and recorded so. *)
BytesGo == lifecycle = "deleted" => store = {} /\ request.removed

----------------------------------------------------------------------------
(* Its inductive invariant *)

(* A purge asks for the bytes, and only it; they settle, and then read
   removed, only when asked for. *)
AskedFor ==
    /\ request.asked > 0 <=> lifecycle = "deleted"
    /\ request.settled => request.asked > 0
    /\ request.removed => request.settled

(* What a tick read is not ahead of the request; and while none was purged or
   found since, its writers' end still holds, and an empty listing still says
   that no stored key was seen. *)
ReadsHold ==
    \A t \in Ticks :
        tick[t].pc # "idle" =>
            LET read == tick[t].read
            IN /\ read.asked <= request.asked /\ read.observed <= request.observed
               /\ read.settled /\ SameRequest(read) =>
                    /\ request.settled
                    /\ tick[t].pc = "delete" /\ ~tick[t].found => store \subseteq unseen

Inv == TypeOK /\ AskedFor /\ ReadsHold /\ ErasedMeansGone /\ OneDeletionAudit
=============================================================================
