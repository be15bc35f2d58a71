----------------------------- MODULE EventFeed -----------------------------
(***************************************************************************)
(* The commit-safe change feed of one collection.                          *)
(*                                                                         *)
(* A record writer inserts its event and a pending marker in the record's  *)
(* own transaction, so writers stay concurrent and commit in any order.  A *)
(* reader takes the collection's advisory lock, gives the committed        *)
(* pending events their positions, reads the page after its cursor, and    *)
(* commits; only then does its client have the page and the next cursor.   *)
(***************************************************************************)
EXTENDS Integers, FiniteSets

CONSTANTS
    Records,       \* records of the collection
    MaxRevision,   \* bound: revisions of a record
    Clients,       \* readers of the feed, each with its own cursor
    PublishLimit,  \* pending events one read publishes (101 in the code)
    PageSize,      \* events one page returns (100 in the code)
    MaxFaults      \* bound: rolled-back or unanswered transactions

ASSUME FeedAssumption ==
    /\ IsFiniteSet(Records) /\ MaxRevision \in Nat /\ MaxFaults \in Nat
    /\ PublishLimit \in Nat \ {0} /\ PageSize \in Nat \ {0}

VARIABLES
    event,   \* record_events with its pending marker and its feed position
    clock,   \* the database's clock, which stamps events as they are inserted
    next,    \* record_event_feed_position_seq, which no rollback gives back
    reader,  \* each client's read in progress
    cursor,  \* the position of the last event each client was given, or 0
    seen,    \* the events each client was given
    faults   \* faults spent so far (bound)

vars == <<event, clock, next, reader, cursor, seen, faults>>

Events == Records \X (1 .. MaxRevision)

NoEvent == [state |-> "none", stamp |-> 0, pos |-> 0]
Unplaced == [e \in Events |-> 0]
NoRead  == [reading |-> FALSE, at |-> Unplaced, page |-> {}]

Fault == faults < MaxFaults /\ faults' = faults + 1

Init ==
    /\ event = [e \in Events |-> NoEvent]
    /\ clock = 1 /\ next = 1
    /\ reader = [c \in Clients |-> NoRead]
    /\ cursor = [c \in Clients |-> 0]
    /\ seen = [c \in Clients |-> {}]
    /\ faults = 0

----------------------------------------------------------------------------
(* Writers *)

Done(e) == event[e].state \in {"pending", "published"}

(* A transaction inserts the event of a record's next revision, and the trigger
   its marker.  The row lock of the record admits one such writer at a time,
   once the revision before has committed. *)
Insert(e) ==
    /\ event[e].state = "none"
    /\ \A f \in Events : f[1] = e[1] /\ f[2] < e[2] => Done(f)
    /\ event' = [event EXCEPT ![e] = [state |-> "open", stamp |-> clock, pos |-> 0]]
    /\ clock' = clock + 1
    /\ UNCHANGED <<next, reader, cursor, seen, faults>>

Commit(e) ==
    /\ event[e].state = "open"
    /\ event' = [event EXCEPT ![e].state = "pending"]
    /\ UNCHANGED <<clock, next, reader, cursor, seen, faults>>

Abort(e) ==
    /\ event[e].state = "open"
    /\ Fault
    /\ event' = [event EXCEPT ![e] = NoEvent]
    /\ UNCHANGED <<clock, next, reader, cursor, seen>>

----------------------------------------------------------------------------
(* Readers *)

LockFree(c) == \A d \in Clients \ {c} : ~reader[d].reading

(* Committed events that no committed reader has published. *)
Pending == {e \in Events : event[e].state = "pending"}

(* Wrong: markers are taken in the order of their ids, which may be any. *)
EarlierById(e, f) == f[2] < e[2]

Earlier(e, f) == event[e].stamp < event[f].stamp

(* Wrong: publication waits for a full batch. *)
BatchFull(B) ==
    /\ B \subseteq Pending
    /\ \A e \in B : \A f \in Pending \ B : Earlier(e, f)
    /\ B = {} \/ Cardinality(B) = PublishLimit

(* The first PublishLimit pending events, in the order of their stamps. *)
Batch(B) ==
    /\ B \subseteq Pending
    /\ \A e \in B : \A f \in Pending \ B : Earlier(e, f)
    /\ \/ B = Pending /\ Cardinality(B) <= PublishLimit
       \/ Cardinality(B) = PublishLimit

(* The next positions of the sequence, in the same order; 0 elsewhere. *)
Positions(B) ==
    {[e \in Events |-> IF e \in B THEN at[e] ELSE 0] :
        at \in {at \in [B -> next .. next + Cardinality(B) - 1] :
                  \A e, f \in B : Earlier(e, f) => at[e] < at[f]}}

Position(at, e) == IF at[e] > 0 THEN at[e] ELSE event[e].pos

After(at, e, p) == Position(at, e) > p

(* What the read sees of the feed beyond its cursor, and the page of it. *)
Unread(c, at) ==
    {e \in Events : /\ event[e].state = "published" \/ at[e] > 0
                    /\ After(at, e, cursor[c])}

Page(c, at, page) ==
    /\ page \subseteq Unread(c, at)
    /\ \A e \in page : \A f \in Unread(c, at) \ page : Position(at, e) < Position(at, f)
    /\ \/ page = Unread(c, at) /\ Cardinality(page) <= PageSize
       \/ Cardinality(page) = PageSize

(* Under the advisory lock: publish, then read the page. *)
Read(c) ==
    /\ ~reader[c].reading /\ LockFree(c)
    /\ \E B \in SUBSET Pending :
         /\ Batch(B)
         /\ \E at \in Positions(B) : \E page \in SUBSET Unread(c, at) :
              /\ Page(c, at, page)
              /\ reader' = [reader EXCEPT ![c] = [reading |-> TRUE, at |-> at, page |-> page]]
         /\ next' = next + Cardinality(B)
    /\ UNCHANGED <<event, clock, cursor, seen, faults>>

(* event once c's publication has committed. *)
Published(c) ==
    [e \in Events |->
        IF reader[c].at[e] > 0
        THEN [event[e] EXCEPT !.state = "published", !.pos = reader[c].at[e]]
        ELSE event[e]]

(* Wrong: the next cursor is the last event published, not the last returned. *)
NextCursorOfFeed(c, p) ==
    /\ p = cursor[c] \/ \E e \in Events : p = Published(c)[e].pos
    /\ \A e \in Events : Published(c)[e].pos <= p

(* The next cursor: the last event of the page, or the cursor given. *)
NextCursor(c, p) ==
    IF reader[c].page = {} THEN p = cursor[c]
    ELSE /\ \E e \in reader[c].page : p = Published(c)[e].pos
         /\ \A e \in reader[c].page : Published(c)[e].pos <= p

(* The read commits, and its client has the page. *)
Deliver(c) ==
    /\ reader[c].reading
    /\ event' = Published(c)
    /\ \E p \in 0 .. next : NextCursor(c, p) /\ cursor' = [cursor EXCEPT ![c] = p]
    /\ seen' = [seen EXCEPT ![c] = @ \union reader[c].page]
    /\ reader' = [reader EXCEPT ![c] = NoRead]
    /\ UNCHANGED <<clock, next, faults>>

(* The read commits, but its answer is lost: the client will ask again with
   the cursor it has. *)
AnswerLost(c) ==
    /\ reader[c].reading
    /\ Fault
    /\ event' = Published(c)
    /\ reader' = [reader EXCEPT ![c] = NoRead]
    /\ UNCHANGED <<clock, next, cursor, seen>>

RollBack(c) ==
    /\ reader[c].reading
    /\ Fault
    /\ reader' = [reader EXCEPT ![c] = NoRead]
    /\ UNCHANGED <<event, clock, next, cursor, seen>>

----------------------------------------------------------------------------
Next ==
    \/ \E e \in Events : Insert(e) \/ Commit(e) \/ Abort(e)
    \/ \E c \in Clients : Read(c) \/ Deliver(c) \/ AnswerLost(c) \/ RollBack(c)

Spec == Init /\ [][Next]_vars

(* Clients go on polling, the advisory lock is granted in turn, and every read
   ends.  Writers owe nothing. *)
Fairness == \A c \in Clients : SF_vars(Read(c)) /\ WF_vars(Deliver(c))

FairSpec == Spec /\ Fairness

----------------------------------------------------------------------------
(* Properties *)

(* Every variable holds what its table or object can hold, and exactly the
   published events have a position. *)
TypeOK ==
    /\ \A e \in Events : event[e].state = "published" <=> event[e].pos > 0
    /\ event \in [Events -> [state: {"none", "open", "pending", "published"}, stamp: Nat, pos: Nat]]
    /\ clock \in Nat /\ next \in Nat \ {0}
    /\ reader \in [Clients -> [reading: BOOLEAN, at: [Events -> Nat], page: SUBSET Events]]
    /\ cursor \in [Clients -> Nat]
    /\ seen \in [Clients -> SUBSET Events]
    /\ faults \in Nat

(* A cursor hides nothing: every event at or before it, however late its writer
   committed, was given to its client. *)
NeverSkips ==
    \A c \in Clients : \A e \in Events :
        event[e].state = "published" /\ event[e].pos <= cursor[c] => e \in seen[c]

(* No event is given twice to a client that follows its cursor, even when an
   answer was lost or a read rolled back. *)
GivenOnce == \A c \in Clients : reader[c].page \cap seen[c] = {}

(* The feed tells each record's revisions in order and without a gap. *)
RevisionOrder ==
    \A e, f \in Events :
        e[1] = f[1] /\ e[2] < f[2] /\ event[f].state = "published" =>
            event[e].state = "published" /\ event[e].pos < event[f].pos

(* What clients read is the feed, whole and once. *)
FeedHolds == TypeOK /\ NeverSkips /\ GivenOnce

(* Every committed event reaches every client that goes on polling. *)
EveryEventSeen == <>[](\A c \in Clients : \A e \in Events : Done(e) => e \in seen[c])
=============================================================================
