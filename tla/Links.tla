------------------------------- MODULE Links -------------------------------
(***************************************************************************)
(* Typed links between the records, sources and claims of a space, and the *)
(* deletion of what they join.  A link's insertion rewrites both endpoint  *)
(* rows and an endpoint's deletion tombstones its row, so each waits for   *)
(* the other; a deletion is refused by a live `restrict' link and detaches *)
(* the others with its own transaction.                                    *)
(*                                                                         *)
(* A call is a READ COMMITTED transaction: it locks one object at a time,  *)
(* every statement sees what is committed by then, and its writes appear   *)
(* at its COMMIT, where deferred triggers ask once more for the grants the *)
(* mutation needs.  Grants and keys expire under any lock.                 *)
(***************************************************************************)
EXTENDS Integers, FiniteSets, FiniteSetsExt

CONSTANTS
    Calls,      \* calls of create, delete, list, and of the deletion of an endpoint
    Endpoints,  \* endpoint rows, numbered in the byte order the guards lock them in
    Claim,      \* the endpoint that is a claim
    Source,     \* the source its next revision cites
    LinkIds,    \* links, numbered in the byte order of their IDs
    Requests,   \* what the calls may ask
    PageSize,
    MaxLapses   \* bound: grants that expire

VARIABLES
    deleted,  \* endpoints whose row is tombstoned
    cites,    \* the sources the claim's revisions cite
    link,     \* the links rows
    events,   \* the links' evidence events
    held,     \* endpoints in whose collection the key holds what it needs
    locks,    \* <<call, what, object, mode>>: the locks transactions hold
    call      \* each call: its request, its place in the code and its copies

vars == <<deleted, cites, link, events, held, locks, call>>

Policies == {"restrict", "detach"}
NoLink == [sides |-> {}, policy |-> "detach", tombstone |-> FALSE]
Rows == [sides : SUBSET Endpoints, policy : Policies, tombstone : BOOLEAN]
Event == [link : LinkIds, revision : 1 .. 2, operation : {"create", "delete", "detach"}]

(* Requests: sides and policy are a creation's; `on' is the link or endpoint. *)
Request == [op : {"create", "unlink", "delete", "revise", "list"}, on : Endpoints \union LinkIds,
            sides : SUBSET Endpoints, policy : Policies]

(* Rows are numbered as they are locked, endpoints first; a link has ends. *)
LinksAssumption ==
    /\ Endpoints \subseteq Nat /\ LinkIds \subseteq Nat
    /\ IsFiniteSet(Endpoints) /\ IsFiniteSet(LinkIds)
    /\ \A e \in Endpoints, l \in LinkIds : e < l
    /\ {Claim, Source} \subseteq Endpoints /\ Claim < Source
    /\ PageSize \in Nat \ {0} /\ MaxLapses \in Nat
    /\ Requests \subseteq Request
    /\ \A r \in Requests :
         /\ r.op \in {"create", "unlink"} => r.on \in LinkIds
         /\ r.op = "create" => r.sides # {}
         /\ r.op \in {"delete", "list"} => r.on \in Endpoints
         /\ r.op = "revise" => r.on = Claim

Pcs == {"idle", "key", "look", "lock", "check", "commit", "page", "answered"}
Answers == {"none", "done", "replayed", "mismatch", "notFound", "forbidden", "restricted",
            "backpressure", "unknown"}

(* granted: the grants read once; fenced: the pairs relied on; todo: rows still
   to lock; writes: there is something to commit; due: the links a listing owes;
   after, page, next: its place. *)
NoCall == [pc |-> "idle", request |-> [op |-> "list", on |-> Claim, sides |-> {}, policy |-> "detach"],
           answer |-> "none", granted |-> {}, fenced |-> {}, todo |-> {}, writes |-> FALSE,
           due |-> {}, given |-> {}, after |-> 0, page |-> {}]

Init ==
    /\ deleted = {} /\ cites = {} /\ events = {}
    /\ link = [l \in LinkIds |-> NoLink]
    /\ held = Endpoints
    /\ locks = {}
    /\ call = [c \in Calls |-> NoCall]

db == <<deleted, cites, link, events>>

At(c, pc) == call[c].pc = pc
R(c) == call[c].request
Is(c, op) == R(c).op = op
Live(l) == link[l] # NoLink /\ ~link[l].tombstone

(* What an endpoint's readers need: a claim also needs every source it cites. *)
Needs(ends) == ends \union (IF Claim \in ends THEN cites ELSE {})

(* Locks: two shares of a row are compatible, nothing else is. *)
Free(c, what, o, mode) ==
    \A k \in locks : k[2] = what /\ k[3] = o /\ k[1] # c => k[4] = "share" /\ mode = "share"

Mode(c, o) == IF Is(c, "revise") /\ o # Claim THEN "share" ELSE "write"

Lock(c, what, o, mode) ==
    /\ Free(c, what, o, mode)
    /\ locks' = locks \union {<<c, what, o, mode>>}

(* A transaction ends, committed or rolled back, and the call answers. *)
Ended(c) == {k \in locks : k[1] # c}
Answer(c, answer) ==
    /\ locks' = Ended(c)
    /\ call' = [call EXCEPT ![c] = [NoCall EXCEPT !.pc = "answered", !.request = R(c), !.answer = answer,
                                    !.due = call[c].due, !.given = call[c].given]]

----------------------------------------------------------------------------
(* create and delete of a link; deletion of an endpoint; a claim's revision *)

(* Admission, and the capabilities required before anything is looked up. *)
Begin(c, r) ==
    LET wanted == IF r.op = "revise" THEN {Claim, Source}
                  ELSE IF r.op = "create" THEN r.sides
                  ELSE IF r.op = "unlink" THEN {} ELSE {r.on}
    IN /\ At(c, "idle")
       /\ call' = [call EXCEPT ![c].request = r, ![c].granted = held, ![c].fenced = wanted,
              ![c].pc = IF ~ wanted \subseteq held THEN "answered" ELSE IF r.op = "list" THEN "page" ELSE "key",
              ![c].answer = IF wanted \subseteq held THEN "none" ELSE "forbidden",
              ![c].due = IF r.op = "list" /\ wanted \subseteq held
                         THEN {l \in LinkIds : Live(l) /\ r.on \in link[l].sides
                                               /\ Needs(link[l].sides) \subseteq held}
                         ELSE {}]
       /\ UNCHANGED <<db, held, locks>>

LockKey(c) ==
    /\ At(c, "key")
    /\ Lock(c, "key", R(c).on, "write")
    /\ call' = [call EXCEPT ![c].pc = "look"]
    /\ UNCHANGED <<db, held>>

(* see: what an endpoint needs is granted, and still held when it is fenced. *)
Sees(c, ends) == Needs(ends) \subseteq call[c].granted

Relies(c, ends, todo) ==
    call' = [call EXCEPT ![c].fenced = @ \union Needs(ends), ![c].todo = todo, ![c].writes = todo # {},
                         ![c].pc = IF todo = {} THEN "check" ELSE "lock"]

Proceeds(c, ends, todo) ==
    IF ~Sees(c, ends) THEN Answer(c, "notFound")
    ELSE IF ~ Needs(ends) \subseteq held THEN Answer(c, "forbidden")
    ELSE Relies(c, ends, todo) /\ UNCHANGED locks

LookCreate(c) ==
    LET l == R(c).on
    IN IF link[l] # NoLink
       THEN IF Sees(c, link[l].sides) /\ <<link[l].sides, link[l].policy>> # <<R(c).sides, R(c).policy>>
            THEN Answer(c, IF Needs(link[l].sides) \subseteq held THEN "mismatch" ELSE "forbidden")
            ELSE Proceeds(c, link[l].sides, {})
       ELSE IF R(c).sides \intersect deleted # {} THEN Answer(c, "notFound")
       ELSE Proceeds(c, R(c).sides, R(c).sides)

LookUnlink(c) ==
    LET l == R(c).on
    IN IF link[l] = NoLink THEN Answer(c, "notFound")
       ELSE Proceeds(c, link[l].sides, IF link[l].tombstone THEN {} ELSE {l})

LookEndpoint(c) ==
    IF Is(c, "revise") /\ Claim \in deleted THEN Answer(c, "notFound")
    ELSE Proceeds(c, {R(c).on}, IF Is(c, "revise") THEN {Claim, Source}
                                ELSE {R(c).on} \ deleted)

Look(c) ==
    /\ At(c, "look")
    /\ \/ Is(c, "create") /\ LookCreate(c)
       \/ Is(c, "unlink") /\ LookUnlink(c)
       \/ R(c).op \in {"delete", "revise"} /\ LookEndpoint(c)
    /\ UNCHANGED <<db, held>>

Incident(e) == {l \in LinkIds : Live(l) /\ e \in link[l].sides}

(* The guard of an endpoint's tombstone. *)
Restricted(e) == \E l \in Incident(e) : link[l].policy = "restrict"

(* Both endpoints of a link, a claim and the sources its revision cites, and
   the links of a deleted endpoint are locked in one order. *)
Next1(c) == Min(call[c].todo)

(* Wrong: a new link's endpoints are locked, and not read again. *)
FindsEndpoint(c, o) ==
    IF o \in LinkIds THEN IF Is(c, "unlink") /\ ~Live(o) THEN "gone" ELSE "go"
    ELSE IF Is(c, "delete") /\ Restricted(o) THEN "restricted" ELSE "go"

(* What a row's holder finds: a statement that waited reads the row again. *)
Finds(c, o) ==
    IF o \in LinkIds THEN IF Is(c, "unlink") /\ ~Live(o) THEN "gone" ELSE "go"
    ELSE IF Is(c, "delete") THEN IF Restricted(o) THEN "restricted" ELSE "go"
    ELSE IF o \in deleted THEN "notFound" ELSE "go"

LockRow(c) ==
    /\ At(c, "lock")
    /\ LET o == Next1(c)
           left == (call[c].todo \ {o}) \union (IF Is(c, "delete") /\ o \in Endpoints THEN Incident(o) ELSE {})
       IN /\ Free(c, "row", o, Mode(c, o))
          /\ \/ /\ Finds(c, o) \in {"restricted", "notFound"}
                /\ Answer(c, Finds(c, o))
             \/ /\ Finds(c, o) \in {"go", "gone"}
                /\ Lock(c, "row", o, Mode(c, o))
                /\ call' = [call EXCEPT ![c].todo = left, ![c].writes = Finds(c, o) = "go",
                                        ![c].pc = IF left = {} THEN "check" ELSE "lock"]
    /\ UNCHANGED <<db, held>>

(* recheck and assertGrantsCurrent, after the provider was asked. *)
Check(c) ==
    /\ At(c, "check")
    /\ IF call[c].fenced \subseteq held THEN call' = [call EXCEPT ![c].pc = "commit"] /\ UNCHANGED locks
       ELSE Answer(c, "forbidden")
    /\ UNCHANGED <<db, held>>

(* The writes of a transaction, visible to others from its COMMIT. *)
Detached(c) == Incident(R(c).on)

Apply(c) ==
    \/ /\ Is(c, "create")
       /\ link' = [link EXCEPT ![R(c).on] = [sides |-> R(c).sides, policy |-> R(c).policy, tombstone |-> FALSE]]
       /\ events' = events \union {[link |-> R(c).on, revision |-> 1, operation |-> "create"]}
       /\ UNCHANGED <<deleted, cites>>
    \/ /\ Is(c, "unlink")
       /\ link' = [link EXCEPT ![R(c).on].tombstone = TRUE]
       /\ events' = events \union {[link |-> R(c).on, revision |-> 2, operation |-> "delete"]}
       /\ UNCHANGED <<deleted, cites>>
    \/ /\ Is(c, "delete")
       /\ deleted' = deleted \union {R(c).on}
       /\ link' = [l \in LinkIds |-> IF l \in Detached(c) THEN [link[l] EXCEPT !.tombstone = TRUE] ELSE link[l]]
       /\ events' = events \union {[link |-> l, revision |-> 2, operation |-> "detach"] : l \in Detached(c)}
       /\ UNCHANGED cites
    \/ /\ Is(c, "revise")
       /\ cites' = cites \union {Source}
       /\ UNCHANGED <<deleted, link, events>>

(* The commit-time triggers: a mutation's key holds what it needs now. *)
EventNeeds(c) ==
    Needs(IF Is(c, "create") THEN R(c).sides ELSE IF Is(c, "unlink") THEN link[R(c).on].sides
          ELSE IF Is(c, "revise") THEN {Claim, Source} ELSE {R(c).on})

(* Wrong: the last statement's check of the grants is trusted. *)
AuthorizedBefore(c) == EventNeeds(c) \subseteq held \/ call[c].fenced # {}

Authorized(c) == EventNeeds(c) \subseteq held

(* The answer to a COMMIT may be lost, whether it took effect or not. *)
Commit(c) ==
    /\ At(c, "commit")
    /\ \/ ~call[c].writes /\ UNCHANGED db /\ Answer(c, "replayed")
       \/ /\ call[c].writes /\ Authorized(c) /\ Apply(c)
          /\ Answer(c, "done") \/ Answer(c, "unknown")
       \/ call[c].writes /\ ~Authorized(c) /\ UNCHANGED db /\ Answer(c, "forbidden")
       \/ call[c].writes /\ UNCHANGED db /\ Answer(c, "unknown")
    /\ UNCHANGED held

(* The object a call waits for, and the lock_timeout that ends the wait. *)
Awaits(c) == IF At(c, "key") THEN <<"key", R(c).on, "write">>
             ELSE <<"row", Next1(c), Mode(c, Next1(c))>>
Waits(c) == call[c].pc \in {"key", "lock"} /\ ~Free(c, Awaits(c)[1], Awaits(c)[2], Awaits(c)[3])

TimeOut(c) ==
    /\ Waits(c)
    /\ Answer(c, "backpressure")
    /\ UNCHANGED <<db, held>>

----------------------------------------------------------------------------
(* list: one transaction a page *)

(* The statement: live links of the endpoint past `after' that the caller could
   read, one more than the page. *)
Selects(c) ==
    LET found == {l \in Incident(R(c).on) : l > call[c].after /\ Needs(link[l].sides) \subseteq call[c].granted}
    IN {l \in found : Cardinality({m \in found : m < l}) =< PageSize}

Select(c) ==
    /\ At(c, "page")
    /\ LET rows == Selects(c)
           ends == {R(c).on} \union UNION {link[l].sides : l \in rows}
       IN IF R(c).on \in deleted \/ ~Sees(c, {R(c).on}) THEN Answer(c, "notFound")
          ELSE IF ~ Needs(ends) \subseteq held THEN Answer(c, "forbidden")
          ELSE /\ call' = [call EXCEPT ![c].page = rows, ![c].fenced = @ \union Needs(ends), ![c].pc = "check",
                                       ![c].todo = {}]
               /\ UNCHANGED locks
    /\ UNCHANGED <<db, held>>

(* The page is answered without its last row when that is one too many, and
   the caller asks again after its last link. *)
GivePage(c) ==
    LET rows == call[c].page
        more == Cardinality(rows) > PageSize
        given == IF more THEN rows \ {Max(rows)} ELSE rows
    IN /\ At(c, "commit") /\ Is(c, "list")
       /\ locks' = Ended(c)
       /\ call' = [call EXCEPT ![c].given = @ \union given, ![c].page = {},
              ![c].after = IF more THEN Max(given) ELSE @, ![c].granted = held, ![c].fenced = {R(c).on},
              ![c].answer = IF more /\ R(c).on \in held THEN @ ELSE IF more THEN "forbidden" ELSE "done",
              ![c].pc = IF more /\ R(c).on \in held THEN "page" ELSE "answered"]
       /\ UNCHANGED <<db, held>>

----------------------------------------------------------------------------
(* A grant or the key expires: no lock prevents it (bounded). *)
Lapse(e) ==
    /\ e \in held
    /\ Cardinality(Endpoints \ held) < MaxLapses
    /\ held' = held \ {e}
    /\ UNCHANGED <<db, locks, call>>

Steps(c) ==
    \/ LockKey(c) \/ Look(c) \/ LockRow(c) \/ Check(c)
    \/ ~Is(c, "list") /\ Commit(c)
    \/ Select(c) \/ GivePage(c)

(* The steps of calls that may ask this. *)
NextOf(asks) ==
    \/ \E c \in Calls : Steps(c) \/ TimeOut(c) \/ \E r \in asks : Begin(c, r)
    \/ \E e \in Endpoints : Lapse(e)

Next == NextOf(Requests)

Spec == Init /\ [][Next]_vars

----------------------------------------------------------------------------
TypeOK ==
    /\ deleted \subseteq Endpoints /\ cites \subseteq Endpoints /\ held \subseteq Endpoints
    /\ link \in [LinkIds -> Rows] /\ events \subseteq Event
    /\ \A c \in Calls :
         /\ call[c].pc \in Pcs /\ R(c) \in Request /\ call[c].answer \in Answers
         /\ (call[c].pc = "answered") = (call[c].answer # "none")
         /\ At(c, "lock") => call[c].todo # {}
         /\ call[c].pc \in {"idle", "answered"} => \A k \in locks : k[1] # c

(* However creations, deletions and detachments interleave, no live link joins
   a deleted endpoint (stateplane_guard_link_insert, stateplane_guard_endpoint_tombstone). *)
NoDanglingLink == \A l \in LinkIds : Live(l) => link[l].sides \intersect deleted = {}

(* Every change of a link has its one event, under its own revision: its
   invalidation is enqueued once, and a link detached while it was being
   deleted is not deleted twice. *)
EventsTellChanges ==
    \A l \in LinkIds :
      LET told == {e \in events : e.link = l}
      IN /\ {e.revision : e \in told} = IF link[l] = NoLink THEN {} ELSE IF Live(l) THEN {1} ELSE 1 .. 2
         /\ Cardinality(told) = Cardinality({e.revision : e \in told})

(* A change answered done was made by that call alone: other calls for the
   same link or endpoint are told it is replayed. *)
ChangedOnce ==
    \A c, d \in Calls :
      /\ call[c].answer = "done" /\ call[d].answer = "done" /\ R(c).op \in {"create", "unlink", "delete"}
      /\ R(c).op = R(d).op /\ R(c).on = R(d).on
      => c = d

(* Transactions that wait for one another would be killed by the database:
   the order in which rows are locked leaves no cycle of waiting calls. *)
NoWaitCycle ==
    \A S \in (SUBSET Calls) \ {{}} :
      \E c \in S : ~Waits(c) \/ \A d \in S \ {c} :
        ~ \E k \in locks : /\ k[1] = d /\ k[2] = Awaits(c)[1] /\ k[3] = Awaits(c)[2]
                           /\ ~(k[4] = "share" /\ Awaits(c)[3] = "share")

(* A listing that reached its end gave every link that was live and readable
   from its beginning on: no page skips one (PostgresLinks.list). *)
ListedAll ==
    \A c \in Calls :
      Is(c, "list") /\ call[c].answer = "done" =>
        {l \in call[c].due : Live(l) /\ Needs(link[l].sides) \subseteq held} \subseteq call[c].given

(* A change of a link that names a key commits only while the key holds what
   both endpoints, and every source a claim endpoint cites, ask for. *)
GrantsHeldAtCommit ==
    \A e \in events' \ events :
         e.operation # "detach" => Needs(link'[e.link].sides) \subseteq held

(* A restrict link ends by its own deletion, never with an endpoint. *)
RestrictHolds ==
    \A l \in LinkIds :
         Live(l) /\ link[l].policy = "restrict" /\ ~Live(l)' =>
           [link |-> l, revision |-> 2, operation |-> "delete"] \in events'

(* Every call that began is answered, though nothing times out. *)
AllAnswered == \A c \in Calls : At(c, "idle") \/ At(c, "answered")

----------------------------------------------------------------------------
(* The inductive invariant: what a transaction has found of the rows it has
   locked is so until it ends, and rows are locked in their order. *)

Typed ==
    /\ deleted \subseteq Endpoints /\ cites \subseteq Endpoints /\ held \subseteq Endpoints
    /\ link \in [LinkIds -> Rows] /\ events \subseteq Event
    /\ call \in [Calls -> [pc : Pcs, request : Request, answer : Answers,
                          granted : SUBSET Endpoints, fenced : SUBSET Endpoints,
                          todo : SUBSET (Endpoints \union LinkIds), writes : BOOLEAN,
                          due : SUBSET LinkIds, given : SUBSET LinkIds, after : Nat,
                          page : SUBSET LinkIds]]

Within == {"look", "lock", "check", "commit"}

LocksExclude ==
    /\ \A k \in locks : /\ k \in Calls \X {"key", "row"} \X (Endpoints \union LinkIds) \X {"write", "share"}
                        /\ call[k[1]].pc \in Within /\ ~Is(k[1], "list")
    /\ \A k, m \in locks : k[1] # m[1] /\ k[2] = m[2] /\ k[3] = m[3] => k[4] = "share" /\ m[4] = "share"

AskedRight(c) ==
    /\ At(c, "idle") => call[c] = NoCall
    /\ R(c).op \in {"create", "unlink"} => R(c).on \in LinkIds
    /\ Is(c, "create") => R(c).sides # {}
    /\ R(c).op \in {"delete", "list"} => R(c).on \in Endpoints
    /\ Is(c, "revise") => R(c).on = Claim

(* The place of a call, its key, and the order of its rows. *)
InPlace(c) ==
    /\ (call[c].pc = "answered") = (call[c].answer # "none")
    /\ call[c].pc \in {"key", "look", "lock"} => ~Is(c, "list")
    /\ At(c, "page") => Is(c, "list")
    /\ At(c, "look") => \A k \in locks : k[1] = c => k[2] = "key"
    /\ At(c, "lock") => call[c].todo # {} /\ call[c].writes
    /\ call[c].pc \in {"check", "commit"} => call[c].todo = {}
    /\ call[c].pc \in Within /\ ~Is(c, "list") => <<c, "key", R(c).on, "write">> \in locks
    /\ \A k \in locks : k[1] = c /\ k[2] = "row" => \A o \in call[c].todo : k[3] < o

Past == {"lock", "check", "commit"}
Owns(c, o) == <<c, "row", o, "write">> \in locks

(* A creation: no link by its ID, and the ends it has locked are live. *)
FoundByCreate(c) ==
    Is(c, "create") /\ call[c].pc \in Past /\ call[c].writes =>
      /\ link[R(c).on] = NoLink /\ call[c].todo \subseteq R(c).sides
      /\ \A e \in R(c).sides \ call[c].todo : Owns(c, e) /\ e \notin deleted

(* The deletion of a link: once locked, it is live. *)
FoundByUnlink(c) ==
    Is(c, "unlink") /\ call[c].pc \in Past /\ call[c].writes =>
      /\ link[R(c).on] # NoLink /\ call[c].todo \subseteq {R(c).on}
      /\ call[c].todo = {} => Owns(c, R(c).on) /\ Live(R(c).on)

(* The deletion of an endpoint: once it is locked no live link restricts it,
   and every live link of it is locked, or will be. *)
FoundByDelete(c) ==
    Is(c, "delete") /\ call[c].pc \in Past /\ call[c].writes =>
      /\ R(c).on \notin deleted
      /\ R(c).on \in call[c].todo => call[c].todo = {R(c).on}
      /\ R(c).on \notin call[c].todo =>
           /\ Owns(c, R(c).on) /\ ~Restricted(R(c).on) /\ call[c].todo \subseteq LinkIds
           /\ \A l \in Incident(R(c).on) : l \in call[c].todo \/ Owns(c, l)

(* What a done change has left. *)
DoneStands(c) ==
    call[c].answer = "done" =>
      /\ Is(c, "create") => link[R(c).on] # NoLink
      /\ Is(c, "unlink") => link[R(c).on].tombstone
      /\ Is(c, "delete") => R(c).on \in deleted

(* The links a listing owes: those of its beginning that are still live and readable. *)
Owed(c) == {l \in call[c].due : Live(l) /\ Needs(link[l].sides) \subseteq held}

(* They are given, on the page, or further on. *)
ListGoesOn(c) ==
    Is(c, "list") /\ ~At(c, "idle") =>
      /\ \A l \in call[c].due : link[l] # NoLink /\ R(c).on \in link[l].sides
      /\ At(c, "page") => /\ held \subseteq call[c].granted
                          /\ \A l \in Owed(c) : l \in call[c].given \/ l > call[c].after
      /\ call[c].pc \in {"check", "commit"} =>
           \A l \in Owed(c) : \/ l \in call[c].given \union call[c].page
                              \/ Cardinality(call[c].page) > PageSize /\ \A p \in call[c].page : p < l
      /\ call[c].answer = "done" => Owed(c) \subseteq call[c].given

(* Every change of a link has its one event. *)
EventsOnce ==
    /\ \A e, f \in events : e.link = f.link /\ e.revision = f.revision => e = f
    /\ \A l \in LinkIds :
         /\ (\E e \in events : e.link = l /\ e.revision = 1) <=> link[l] # NoLink
         /\ (\E e \in events : e.link = l /\ e.revision = 2) <=> link[l] # NoLink /\ ~Live(l)

Inv ==
    /\ Typed /\ LocksExclude /\ EventsOnce /\ NoDanglingLink /\ ChangedOnce
    /\ \A c \in Calls : /\ AskedRight(c) /\ InPlace(c) /\ DoneStands(c) /\ ListGoesOn(c)
                         /\ FoundByCreate(c) /\ FoundByUnlink(c) /\ FoundByDelete(c)
=============================================================================
