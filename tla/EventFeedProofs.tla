-------------------------- MODULE EventFeedProofs --------------------------
(***************************************************************************)
(* Proofs about EventFeed, for any finite set of records, any clients and  *)
(* any limits: a cursor hides nothing, nothing is given twice, and a       *)
(* record's revisions come in order.                                       *)
(*                                                                         *)
(* The advisory lock makes a read's publication and page hold until the    *)
(* read ends: writers change neither what is published nor the markers it  *)
(* has taken.  The invariant therefore describes a read in progress by the *)
(* present state (ReadInv), and a publication moves its facts into the     *)
(* feed's own (FeedInv, OrderInv).                                         *)
(***************************************************************************)
EXTENDS EventFeed, FiniteSetTheorems, TLAPS

Read_  == [reading: BOOLEAN, at: [Events -> Nat], page: SUBSET Events]
Event_ == [state: {"none", "open", "pending", "published"}, stamp: Nat, pos: Nat]

(* e is an earlier revision of f's record. *)
Below(e, f) == e[1] = f[1] /\ e[2] < f[2]

(* The feed: positions come from the sequence, and a client was given exactly
   what is at or before its cursor. *)
FeedInv ==
    /\ \A e \in Events : event[e].pos < next
    /\ \A c \in Clients : cursor[c] < next
    /\ \A c \in Clients : \A e \in seen[c] :
         event[e].state = "published" /\ event[e].pos <= cursor[c]
    /\ NeverSkips

(* A record's revisions are stamped, and then published, one after another. *)
OrderInv ==
    /\ \A e \in Events : event[e].state # "none" => event[e].stamp < clock
    /\ \A e, f \in Events : Below(e, f) /\ event[f].state # "none" =>
         Done(e) /\ event[e].stamp < event[f].stamp
    /\ RevisionOrder

OneReader == \A c, d \in Clients : reader[c].reading /\ reader[d].reading => c = d

(* What a read has published, and the page it will answer with. *)
ReadInv(c) ==
    /\ ~reader[c].reading => reader[c].page = {} /\ \A e \in Events : reader[c].at[e] = 0
    /\ \A e \in Events : reader[c].at[e] > 0 =>
         /\ reader[c].at[e] < next
         /\ event[e].state = "pending"
         /\ \A f \in Events : event[f].pos < reader[c].at[e]
         /\ \A d \in Clients : cursor[d] < reader[c].at[e]
         /\ \A d \in Events : Below(d, e) =>
              \/ event[d].state = "published"
              \/ reader[c].at[d] > 0 /\ reader[c].at[d] < reader[c].at[e]
    /\ reader[c].page \subseteq Unread(c, reader[c].at)
    /\ \A e \in reader[c].page : \A f \in Unread(c, reader[c].at) \ reader[c].page :
         Position(reader[c].at, e) < Position(reader[c].at, f)

Inv == TypeOK /\ OneReader /\ FeedInv /\ OrderInv /\ \A c \in Clients : ReadInv(c)

----------------------------------------------------------------------------
LEMMA EventsFinite == IsFiniteSet(Events)
<1>1. IsFiniteSet(Records) /\ 1 \in Int /\ MaxRevision \in Int
  BY FeedAssumption
<1>2. IsFiniteSet(1 .. MaxRevision)
  BY <1>1, FS_Interval
<1>3. QED BY <1>1, <1>2, FS_Product DEF Events

LEMMA InitInv == Init => Inv
<1> SUFFICES ASSUME Init PROVE Inv
  OBVIOUS
<1>1. TypeOK
  BY FeedAssumption DEF Init, TypeOK, NoEvent, NoRead, Unplaced
<1>2. \A e \in Events : event[e] = NoEvent
  BY DEF Init
<1>3. \A c \in Clients : reader[c] = NoRead /\ cursor[c] = 0 /\ seen[c] = {}
  BY DEF Init
<1>4. NoEvent.state = "none" /\ NoEvent.pos = 0 /\ next = 1
  BY DEF NoEvent, Init
<1>5. ~NoRead.reading /\ NoRead.page = {} /\ \A e \in Events : NoRead.at[e] = 0
  BY DEF NoRead, Unplaced
<1>6. OneReader /\ FeedInv /\ OrderInv
  BY <1>2, <1>3, <1>4, <1>5 DEF OneReader, FeedInv, OrderInv, NeverSkips, RevisionOrder
<1>7. \A c \in Clients : ReadInv(c)
  BY <1>2, <1>3, <1>4, <1>5 DEF ReadInv
<1>8. QED BY <1>1, <1>6, <1>7 DEF Inv

----------------------------------------------------------------------------
(* Writers *)

(* What a writer's step leaves alone. *)
WriterKeeps ==
    /\ UNCHANGED <<next, reader, cursor, seen>>
    /\ \A e \in Events :
         /\ event'[e].pos = event[e].pos
         /\ event'[e].state = "published" <=> event[e].state = "published"
         /\ event[e].state = "pending" => event'[e].state = "pending"

LEMMA WriterReads ==
  ASSUME Inv, WriterKeeps PROVE OneReader' /\ FeedInv' /\ \A c \in Clients : ReadInv(c)'
<1>1. OneReader'
  BY DEF Inv, WriterKeeps, OneReader
<1>2. \A c \in Clients : seen[c] \subseteq Events
  BY DEF Inv, TypeOK
<1>3. FeedInv'
  BY <1>2 DEF Inv, WriterKeeps, FeedInv, NeverSkips
<1>4. ASSUME NEW c \in Clients PROVE ReadInv(c)'
  <2>1. \A e \in Events : Position(reader[c].at, e)' = Position(reader[c].at, e)
    BY DEF WriterKeeps, Position
  <2>2. Unread(c, reader[c].at)' = Unread(c, reader[c].at)
    BY <2>1 DEF WriterKeeps, Unread, After
  <2>3. reader[c].page \subseteq Events /\ Unread(c, reader[c].at) \subseteq Events
    BY DEF Inv, TypeOK, Unread
  <2>4. ReadInv(c)
    BY DEF Inv
  <2>5. QED BY <2>1, <2>2, <2>3, <2>4 DEF WriterKeeps, ReadInv
<1>5. QED BY <1>1, <1>3, <1>4

(* The row a writer's step leaves of its event. *)
WriterStep(e, x) ==
    /\ event' = [event EXCEPT ![e] = x]
    /\ event[e].state # "published" /\ event[e].state # "pending"
    /\ x.pos = 0 /\ x.state # "published"
    /\ \/ x.state = "none"
       \/ /\ x.state = "open" /\ event[e].state = "none"
          /\ x.stamp = clock /\ clock' = clock + 1
          /\ \A f \in Events : Below(f, e) => Done(f)
       \/ x.state = "pending" /\ event[e].state = "open" /\ x.stamp = event[e].stamp
    /\ clock' \in Nat /\ clock <= clock' /\ faults' \in Nat
    /\ UNCHANGED <<next, reader, cursor, seen>>

LEMMA WriterNext ==
  ASSUME Inv, NEW e \in Events, Insert(e) \/ Commit(e) \/ Abort(e) PROVE Inv'
<1>1. /\ event \in [Events -> Event_] /\ clock \in Nat /\ next \in Nat \ {0} /\ faults \in Nat
      /\ \A f \in Events : event[f].state = "published" <=> event[f].pos > 0
  BY DEF Inv, TypeOK, Event_
<1>3. PICK x \in Event_ : WriterStep(e, x)
  <2>1. CASE Insert(e)
    <3> DEFINE x == [state |-> "open", stamp |-> clock, pos |-> 0]
    <3>1. x \in Event_
      BY <1>1 DEF Event_
    <3>2. \A f \in Events : Below(f, e) => Done(f)
      BY <2>1 DEF Insert, Below
    <3>3. x.state = "open" /\ x.stamp = clock /\ x.pos = 0 /\ event' = [event EXCEPT ![e] = x]
      BY <2>1 DEF Insert
    <3> HIDE DEF x
    <3>4. /\ event[e].state = "none" /\ clock' = clock + 1 /\ faults' = faults
          /\ UNCHANGED <<next, reader, cursor, seen>>
      BY <2>1 DEF Insert
    <3>5. clock' \in Nat /\ clock <= clock' /\ faults' \in Nat
      BY <1>1, <3>4
    <3>6. WriterStep(e, x)
      BY <3>2, <3>3, <3>4, <3>5 DEF WriterStep
    <3>7. QED BY <3>1, <3>6
  <2>2. CASE Commit(e)
    <3> DEFINE x == [event[e] EXCEPT !.state = "pending"]
    <3>1. /\ x \in Event_ /\ x.state = "pending" /\ x.stamp = event[e].stamp /\ x.pos = event[e].pos
          /\ event' = [event EXCEPT ![e] = x]
      BY <1>1, <2>2 DEF Event_, Commit
    <3>2. event[e].pos = 0
      BY <1>1, <2>2 DEF Commit, Event_
    <3> HIDE DEF x
    <3>3. /\ event[e].state = "open" /\ clock' = clock /\ faults' = faults
          /\ UNCHANGED <<next, reader, cursor, seen>>
      BY <2>2 DEF Commit
    <3>4. clock' \in Nat /\ clock <= clock' /\ faults' \in Nat
      BY <1>1, <3>3
    <3>5. WriterStep(e, x)
      BY <3>1, <3>2, <3>3, <3>4 DEF WriterStep
    <3>6. QED BY <3>1, <3>5
  <2>3. CASE Abort(e)
    <3>1. NoEvent \in Event_ /\ NoEvent.state = "none" /\ NoEvent.pos = 0
      BY DEF NoEvent, Event_
    <3>2. /\ event[e].state = "open" /\ event' = [event EXCEPT ![e] = NoEvent] /\ clock' = clock
          /\ UNCHANGED <<next, reader, cursor, seen>>
      BY <2>3 DEF Abort
    <3>3. clock' \in Nat /\ clock <= clock' /\ faults' \in Nat
      <4>1. faults' = faults + 1
        BY <2>3 DEF Abort, Fault
      <4>2. QED BY <1>1, <3>2, <4>1
    <3>4. WriterStep(e, NoEvent)
      BY <3>1, <3>2, <3>3 DEF WriterStep
    <3>5. QED BY <3>1, <3>4
  <2>4. QED BY <2>1, <2>2, <2>3
<1>4. event'[e] = x /\ \A f \in Events \ {e} : event'[f] = event[f]
  BY <1>1, <1>3 DEF WriterStep
<1>5. event[e].pos = 0
  BY <1>1, <1>3 DEF Event_, WriterStep
<1>6. TypeOK'
  <2>1. event' \in [Events -> Event_]
    BY <1>1, <1>3 DEF WriterStep
  <2>2. \A f \in Events : event'[f].state = "published" <=> event'[f].pos > 0
    BY <1>1, <1>3, <1>4 DEF WriterStep
  <2>3. QED BY <1>1, <1>3, <2>1, <2>2 DEF Inv, TypeOK, Event_, WriterStep
<1>7. WriterKeeps
  BY <1>3, <1>4, <1>5 DEF WriterKeeps, WriterStep
<1>8. OrderInv'
  <2>1. OrderInv
    BY DEF Inv
  <2>2. \A f \in Events : event'[f].state # "none" => event'[f].stamp < clock'
    BY <1>1, <1>3, <1>4, <2>1 DEF OrderInv, Event_, WriterStep
  <2>3. \A f \in Events : Done(f) => event'[f].stamp = event[f].stamp /\ Done(f)'
    BY <1>3, <1>4 DEF Done, WriterStep
  <2>4. ASSUME NEW f \in Events, NEW g \in Events, Below(f, g), event'[g].state # "none"
        PROVE  Done(f)' /\ event'[f].stamp < event'[g].stamp
    <3>1. Done(f) /\ event[f].stamp < event'[g].stamp
      <4>1. CASE g = e /\ event[e].state = "none"
        <5>1. Done(f) /\ x.stamp = clock
          BY <1>3, <1>4, <2>4, <4>1 DEF WriterStep
        <5>2. event[f].stamp < clock
          BY <2>1, <5>1 DEF OrderInv, Done
        <5>3. QED BY <1>4, <4>1, <5>1, <5>2
      <4>2. CASE g = e /\ event[e].state # "none"
        BY <1>3, <1>4, <2>1, <2>4, <4>2 DEF OrderInv, WriterStep
      <4>3. CASE g # e
        BY <1>4, <2>1, <2>4, <4>3 DEF OrderInv
      <4>4. QED BY <4>1, <4>2, <4>3
    <3>2. QED BY <2>3, <3>1
  <2>5. RevisionOrder'
    BY <1>7, <2>1 DEF OrderInv, RevisionOrder, WriterKeeps
  <2>6. QED BY <2>2, <2>4, <2>5 DEF OrderInv
<1>9. QED BY <1>6, <1>7, <1>8, WriterReads DEF Inv

----------------------------------------------------------------------------
(* Readers *)

LEMMA ReadTypes ==
  ASSUME Inv, NEW c \in Clients
  PROVE  /\ event \in [Events -> Event_] /\ reader \in [Clients -> Read_] /\ next \in Nat \ {0}
         /\ cursor \in [Clients -> Nat] /\ seen \in [Clients -> SUBSET Events] /\ faults \in Nat
         /\ reader[c].at \in [Events -> Nat] /\ reader[c].page \subseteq Events
         /\ \A e \in Events : event[e].pos \in Nat /\ event[e].stamp \in Nat
BY DEF Inv, TypeOK, Event_, Read_

(* The positions a batch takes lie between the sequence and its next value, in
   the order of the stamps. *)
LEMMA PositionsOf ==
  ASSUME Inv, NEW B \in SUBSET Pending, NEW at \in Positions(B)
  PROVE  /\ at \in [Events -> Nat] /\ Cardinality(B) \in Nat
         /\ \A e \in Events : at[e] > 0 <=> e \in B
         /\ \A e \in B : next <= at[e] /\ at[e] < next + Cardinality(B)
         /\ \A e, f \in B : Earlier(e, f) => at[e] < at[f]
<1>1. B \subseteq Events /\ next \in Nat \ {0}
  BY DEF Pending, Inv, TypeOK
<1>2. Cardinality(B) \in Nat
  BY <1>1, EventsFinite, FS_Subset, FS_CardinalityType
<1>3. PICK a \in [B -> next .. next + Cardinality(B) - 1] :
        /\ \A e, f \in B : Earlier(e, f) => a[e] < a[f]
        /\ at = [e \in Events |-> IF e \in B THEN a[e] ELSE 0]
  BY DEF Positions
<1>4. \A e \in B : a[e] \in Nat /\ next <= a[e] /\ a[e] < next + Cardinality(B)
  BY <1>1, <1>2, <1>3
<1>5. \A e \in Events : at[e] = IF e \in B THEN a[e] ELSE 0
  BY <1>3
<1>6. at \in [Events -> Nat]
  BY <1>3, <1>4
<1>7. \A e \in Events : at[e] > 0 <=> e \in B
  BY <1>1, <1>4, <1>5
<1>8. QED BY <1>1, <1>2, <1>3, <1>4, <1>5, <1>6, <1>7

(* A batch takes a record's pending revisions from the first on. *)
LEMMA BatchOrder ==
  ASSUME Inv, NEW B \in SUBSET Pending, Batch(B), NEW e \in B, NEW d \in Events, Below(d, e)
  PROVE  event[d].state = "published" \/ (d \in B /\ Earlier(d, e))
<1>1. e \in Events /\ event[e].state = "pending"
  BY DEF Pending
<1>2. Done(d) /\ event[d].stamp < event[e].stamp /\ event[d].stamp \in Nat /\ event[e].stamp \in Nat
  BY <1>1 DEF Inv, OrderInv, TypeOK, Event_
<1>3. CASE d \in Pending /\ d \notin B
  BY <1>2, <1>3 DEF Batch, Earlier
<1>4. QED BY <1>2, <1>3 DEF Done, Pending, Earlier

LEMMA ReadNext == ASSUME Inv, NEW c \in Clients, Read(c) PROVE Inv'
<1>a. PICK B \in SUBSET Pending :
        /\ Batch(B) /\ next' = next + Cardinality(B)
        /\ \E at \in Positions(B) : \E page \in SUBSET Unread(c, at) :
             /\ Page(c, at, page)
             /\ reader' = [reader EXCEPT ![c] = [reading |-> TRUE, at |-> at, page |-> page]]
  BY DEF Read
<1>b. PICK at \in Positions(B) : \E page \in SUBSET Unread(c, at) :
             /\ Page(c, at, page)
             /\ reader' = [reader EXCEPT ![c] = [reading |-> TRUE, at |-> at, page |-> page]]
  BY <1>a
<1>c. PICK page \in SUBSET Unread(c, at) :
             /\ Page(c, at, page)
             /\ reader' = [reader EXCEPT ![c] = [reading |-> TRUE, at |-> at, page |-> page]]
  BY <1>b
<1>1. /\ Batch(B) /\ Page(c, at, page)
      /\ reader' = [reader EXCEPT ![c] = [reading |-> TRUE, at |-> at, page |-> page]]
      /\ next' = next + Cardinality(B)
  BY <1>a, <1>c
<1>2. /\ at \in [Events -> Nat] /\ Cardinality(B) \in Nat
      /\ \A e \in Events : at[e] > 0 <=> e \in B
      /\ \A e \in B : next <= at[e] /\ at[e] < next + Cardinality(B)
      /\ \A e, f \in B : Earlier(e, f) => at[e] < at[f]
  BY PositionsOf
<1>3. /\ ~reader[c].reading /\ \A d \in Clients \ {c} : ~reader[d].reading
      /\ UNCHANGED <<event, clock, cursor, seen, faults>>
  BY DEF Read, LockFree
<1>4. /\ event \in [Events -> Event_] /\ reader \in [Clients -> Read_] /\ next \in Nat \ {0}
      /\ cursor \in [Clients -> Nat] /\ \A e \in Events : event[e].pos \in Nat
  BY ReadTypes
<1> DEFINE r == [reading |-> TRUE, at |-> at, page |-> page]
<1>5. r \in Read_ /\ r.reading /\ r.at = at /\ r.page = page /\ page \subseteq Events
  BY <1>2 DEF Read_, Unread
<1>6. reader' = [reader EXCEPT ![c] = r]
  BY <1>1
<1> HIDE DEF r
<1>7. /\ reader' \in [Clients -> Read_] /\ reader'[c] = r
      /\ \A d \in Clients \ {c} : reader'[d] = reader[d]
  BY <1>4, <1>5, <1>6
<1>8. next' \in Nat \ {0} /\ next <= next'
  BY <1>1, <1>2, <1>4
<1>9. TypeOK'
  BY <1>3, <1>7, <1>8 DEF Inv, TypeOK, Read_
<1>10. OneReader' /\ OrderInv'
  BY <1>3, <1>7 DEF Inv, OneReader, OrderInv, RevisionOrder, Done
<1>11. FeedInv'
  BY <1>3, <1>4, <1>8 DEF Inv, FeedInv, NeverSkips
<1>12. ASSUME NEW d \in Clients, d # c PROVE ReadInv(d)'
  <2>1. ~reader'[d].reading /\ reader'[d] = reader[d]
    BY <1>3, <1>7, <1>12
  <2>2. reader[d].page = {} /\ \A e \in Events : reader[d].at[e] = 0
    BY <2>1 DEF Inv, ReadInv
  <2>3. QED BY <2>1, <2>2 DEF ReadInv
<1>13. ReadInv(c)'
  <2>1. ASSUME NEW e \in Events, at[e] > 0
        PROVE  /\ at[e] < next' /\ event[e].state = "pending"
               /\ \A f \in Events : event[f].pos < at[e]
               /\ \A d \in Clients : cursor[d] < at[e]
               /\ \A d \in Events : Below(d, e) =>
                    event[d].state = "published" \/ (at[d] > 0 /\ at[d] < at[e])
    <3>1. e \in B /\ next <= at[e] /\ at[e] < next' /\ event[e].state = "pending" /\ at[e] \in Nat
      BY <1>1, <1>2, <2>1 DEF Pending
    <3>2. \A f \in Events : event[f].pos < at[e]
      BY <1>4, <3>1 DEF Inv, FeedInv
    <3>3. \A d \in Clients : cursor[d] < at[e]
      BY <1>4, <3>1 DEF Inv, FeedInv
    <3>4. ASSUME NEW d \in Events, Below(d, e), event[d].state # "published"
          PROVE  at[d] > 0 /\ at[d] < at[e]
      <4>1. d \in B /\ Earlier(d, e)
        BY <1>1, <3>1, <3>4, BatchOrder
      <4>2. QED BY <1>2, <3>1, <4>1
    <3>5. QED BY <3>1, <3>2, <3>3, <3>4
  <2>2. \A e \in Events : Position(at, e)' = Position(at, e)
    BY <1>3 DEF Position
  <2>3. Unread(c, at)' = Unread(c, at)
    BY <1>3, <2>2 DEF Unread, After
  <2>4. \A e \in page : \A f \in Unread(c, at) \ page : Position(at, e) < Position(at, f)
    BY <1>1 DEF Page
  <2>5. page \subseteq Unread(c, at)
    OBVIOUS
  <2>6. Unread(c, at) \subseteq Events
    BY DEF Unread
  <2>7. reader'[c].reading /\ reader'[c].at = at /\ reader'[c].page = page
    BY <1>5, <1>7
  <2>8. Unread(c, reader[c].at)' = Unread(c, at)
    BY <2>3, <2>7 DEF Unread, After, Position
  <2>9. \A e \in Events : Position(reader[c].at, e)' = Position(at, e)
    BY <1>3, <2>7 DEF Position
  <2>10. QED BY <1>3, <1>5, <2>1, <2>4, <2>5, <2>6, <2>7, <2>8, <2>9 DEF ReadInv
<1>14. QED BY <1>9, <1>10, <1>11, <1>12, <1>13 DEF Inv

(* A read that ends gives the lock back. *)
LEMMA ReadEnds ==
  ASSUME Inv, NEW c \in Clients, reader[c].reading, reader' = [reader EXCEPT ![c] = NoRead]
  PROVE  /\ reader' \in [Clients -> Read_] /\ OneReader'
         /\ \A d \in Clients : ReadInv(d)'
<1>1. /\ NoRead \in Read_ /\ ~NoRead.reading /\ NoRead.page = {}
      /\ \A e \in Events : NoRead.at[e] = 0
  BY DEF NoRead, Read_, Unplaced
<1>2. reader \in [Clients -> Read_]
  BY ReadTypes
<1>3. reader'[c] = NoRead /\ \A d \in Clients \ {c} : reader'[d] = reader[d]
  BY <1>2
<1>4. \A d \in Clients \ {c} : ~reader[d].reading
  BY DEF Inv, OneReader
<1>5. \A d \in Clients : /\ ~reader'[d].reading /\ reader'[d].page = {}
                         /\ \A e \in Events : reader'[d].at[e] = 0
  BY <1>1, <1>3, <1>4 DEF Inv, ReadInv
<1>6. \A d \in Clients : ReadInv(d)'
  BY <1>5 DEF ReadInv
<1>7. QED BY <1>1, <1>2, <1>5, <1>6 DEF OneReader

(* What a publication does to the feed. *)
LEMMA PublishedEvents ==
  ASSUME Inv, NEW c \in Clients, event' = Published(c), UNCHANGED <<clock, next>>
  PROVE  /\ event' \in [Events -> Event_]
         /\ \A e \in Events :
              /\ event'[e].pos = Position(reader[c].at, e)
              /\ event'[e].state = "published" <=> event[e].state = "published" \/ reader[c].at[e] > 0
              /\ event[e].state = "published" => event'[e].pos = event[e].pos
         /\ \A e \in Events : event'[e].state = "published" <=> event'[e].pos > 0
         /\ \A e \in Events : event'[e].pos < next'
         /\ OrderInv'
<1> DEFINE at == reader[c].at
<1>1. /\ event \in [Events -> Event_] /\ at \in [Events -> Nat] /\ next \in Nat \ {0}
      /\ \A e \in Events : event[e].pos \in Nat /\ event[e].stamp \in Nat
      /\ \A e \in Events : event[e].state = "published" <=> event[e].pos > 0
  BY ReadTypes DEF Inv, TypeOK
<1>2. \A e \in Events : at[e] > 0 =>
         /\ at[e] < next /\ event[e].state = "pending"
         /\ \A f \in Events : event[f].pos < at[e]
         /\ \A d \in Events : Below(d, e) =>
              event[d].state = "published" \/ (at[d] > 0 /\ at[d] < at[e])
  BY DEF Inv, ReadInv
<1> HIDE DEF at
<1>3. event' = [e \in Events |-> IF at[e] > 0
                                 THEN [event[e] EXCEPT !.state = "published", !.pos = at[e]]
                                 ELSE event[e]]
  BY DEF Published, at
<1>4. ASSUME NEW e \in Events
      PROVE  /\ event'[e] \in Event_
             /\ event'[e].stamp = event[e].stamp
             /\ at[e] > 0 => event'[e].state = "published" /\ event'[e].pos = at[e]
             /\ ~(at[e] > 0) => event'[e] = event[e]
  <2>1. CASE at[e] > 0
    <3>1. event'[e] = [event[e] EXCEPT !.state = "published", !.pos = at[e]]
      BY <1>3, <2>1
    <3>2. event[e] \in Event_ /\ at[e] \in Nat
      BY <1>1
    <3>3. QED BY <2>1, <3>1, <3>2 DEF Event_
  <2>2. CASE ~(at[e] > 0)
    BY <1>1, <1>3, <2>2
  <2>3. QED BY <2>1, <2>2
<1>5. event' \in [Events -> Event_]
  BY <1>3, <1>4
<1>6. \A e \in Events : at[e] \in Nat
  BY <1>1
<1>7. \A e \in Events :
        /\ event'[e].pos = Position(at, e)
        /\ event'[e].state = "published" <=> event[e].state = "published" \/ at[e] > 0
        /\ event[e].state = "published" => event'[e].pos = event[e].pos
        /\ event'[e].state = "published" <=> event'[e].pos > 0
        /\ Done(e) => Done(e)'
        /\ event'[e].state # "none" => event[e].state # "none"
  BY <1>1, <1>2, <1>4, <1>6 DEF Position, Done
<1>8. \A e \in Events : event'[e].pos < next'
  BY <1>1, <1>2, <1>4 DEF Inv, FeedInv
<1>9. RevisionOrder'
  <2>1. SUFFICES ASSUME NEW e \in Events, NEW f \in Events, e[1] = f[1], e[2] < f[2],
                        event'[f].state = "published"
                 PROVE  event'[e].state = "published" /\ event'[e].pos < event'[f].pos
    BY DEF RevisionOrder
  <2>2. CASE at[f] > 0
    <3>1. Below(e, f) /\ event'[f].pos = at[f]
      BY <1>4, <2>1, <2>2 DEF Below
    <3>2. CASE event[e].state = "published"
      BY <1>2, <1>7, <2>2, <3>1, <3>2
    <3>3. CASE at[e] > 0 /\ at[e] < at[f]
      BY <1>4, <3>1, <3>3
    <3>4. QED BY <1>2, <2>2, <3>1, <3>2, <3>3
  <2>3. CASE ~(at[f] > 0)
    <3>1. event[f].state = "published" /\ event'[f] = event[f]
      BY <1>4, <2>1, <2>3
    <3>2. event[e].state = "published" /\ event[e].pos < event[f].pos
      BY <2>1, <3>1 DEF Inv, OrderInv, RevisionOrder
    <3>3. QED BY <1>7, <3>1, <3>2
  <2>4. QED BY <2>2, <2>3
<1>10. OrderInv'
  BY <1>4, <1>7, <1>9 DEF Inv, OrderInv
<1>11. QED BY <1>5, <1>7, <1>8, <1>10 DEF at

LEMMA RollBackNext == ASSUME Inv, NEW c \in Clients, RollBack(c) PROVE Inv'
<1>1. /\ reader[c].reading /\ reader' = [reader EXCEPT ![c] = NoRead]
      /\ UNCHANGED <<event, clock, next, cursor, seen>> /\ faults' = faults + 1
  BY DEF RollBack, Fault
<1>2. reader' \in [Clients -> Read_] /\ OneReader' /\ \A d \in Clients : ReadInv(d)'
  BY <1>1, ReadEnds
<1>3. faults' \in Nat
  BY <1>1 DEF Inv, TypeOK
<1>4. TypeOK'
  BY <1>1, <1>2, <1>3 DEF Inv, TypeOK, Read_
<1>5. FeedInv' /\ OrderInv'
  BY <1>1 DEF Inv, FeedInv, NeverSkips, OrderInv, RevisionOrder, Done
<1>6. QED BY <1>2, <1>4, <1>5 DEF Inv

LEMMA AnswerLostNext == ASSUME Inv, NEW c \in Clients, AnswerLost(c) PROVE Inv'
<1>1. /\ reader[c].reading /\ reader' = [reader EXCEPT ![c] = NoRead] /\ event' = Published(c)
      /\ UNCHANGED <<clock, next, cursor, seen>> /\ faults' = faults + 1
  BY DEF AnswerLost, Fault
<1>2. reader' \in [Clients -> Read_] /\ OneReader' /\ \A d \in Clients : ReadInv(d)'
  BY <1>1, ReadEnds
<1>3. /\ event' \in [Events -> Event_] /\ OrderInv'
      /\ \A e \in Events : event'[e].state = "published" <=> event'[e].pos > 0
      /\ \A e \in Events : event'[e].pos < next'
      /\ \A e \in Events :
           /\ event'[e].pos = Position(reader[c].at, e)
           /\ event'[e].state = "published" <=> event[e].state = "published" \/ reader[c].at[e] > 0
           /\ event[e].state = "published" => event'[e].pos = event[e].pos
  BY <1>1, PublishedEvents
<1>4. faults' \in Nat
  BY <1>1 DEF Inv, TypeOK
<1>5. TypeOK'
  BY <1>1, <1>2, <1>3, <1>4 DEF Inv, TypeOK, Read_, Event_
<1>6. FeedInv'
  <2>1. \A d \in Clients : \A e \in Events : reader[c].at[e] > 0 =>
           event'[e].pos = reader[c].at[e] /\ cursor[d] < reader[c].at[e]
    BY <1>3 DEF Inv, ReadInv, Position
  <2>2. \A d \in Clients : \A e \in Events :
          event'[e].state = "published" /\ event'[e].pos <= cursor[d] => e \in seen[d]
    <3>1. SUFFICES ASSUME NEW d \in Clients, NEW e \in Events,
                          event'[e].state = "published", event'[e].pos <= cursor[d]
                   PROVE  e \in seen[d]
      OBVIOUS
    <3>2. reader[c].at[e] \in Nat /\ cursor[d] \in Nat
      BY ReadTypes
    <3>3. ~(reader[c].at[e] > 0)
      BY <2>1, <3>1, <3>2
    <3>4. event[e].state = "published" /\ event[e].pos <= cursor[d]
      BY <1>3, <3>1, <3>3
    <3>5. QED BY <3>4 DEF Inv, FeedInv, NeverSkips
  <2>3. \A d \in Clients : seen[d] \subseteq Events
    BY DEF Inv, TypeOK
  <2>4. QED BY <1>1, <1>3, <2>2, <2>3 DEF Inv, FeedInv, NeverSkips
<1>7. QED BY <1>2, <1>3, <1>5, <1>6 DEF Inv

LEMMA DeliverNext == ASSUME Inv, NEW c \in Clients, Deliver(c) PROVE Inv'
<1>1. /\ reader[c].reading /\ reader' = [reader EXCEPT ![c] = NoRead] /\ event' = Published(c)
      /\ UNCHANGED <<clock, next, faults>>
      /\ seen' = [seen EXCEPT ![c] = @ \union reader[c].page]
  BY DEF Deliver
<1>2. PICK p \in 0 .. next : NextCursor(c, p) /\ cursor' = [cursor EXCEPT ![c] = p]
  BY DEF Deliver
<1> DEFINE at == reader[c].at
<1> DEFINE page == reader[c].page
<1>3. reader' \in [Clients -> Read_] /\ OneReader' /\ \A d \in Clients : ReadInv(d)'
  BY <1>1, ReadEnds
<1>4. /\ event' \in [Events -> Event_] /\ OrderInv'
      /\ \A e \in Events : event'[e].state = "published" <=> event'[e].pos > 0
      /\ \A e \in Events : event'[e].pos < next'
      /\ \A e \in Events :
           /\ event'[e].pos = Position(at, e)
           /\ event'[e].state = "published" <=> event[e].state = "published" \/ at[e] > 0
           /\ event[e].state = "published" => event'[e].pos = event[e].pos
  BY <1>1, PublishedEvents
<1>5. /\ cursor \in [Clients -> Nat] /\ seen \in [Clients -> SUBSET Events] /\ page \subseteq Events
      /\ \A e \in Events : event[e].pos \in Nat /\ at[e] \in Nat
      /\ next \in Nat /\ p \in Nat /\ cursor[c] \in Nat
  BY <1>2, ReadTypes
<1>6. \A e \in Events : event'[e].pos \in Nat
  BY <1>4 DEF Event_
<1>7. /\ \A e \in page : (event[e].state = "published" \/ at[e] > 0) /\ event'[e].pos > cursor[c]
      /\ \A e \in page : \A f \in Events \ page :
           (event[f].state = "published" \/ at[f] > 0) /\ event'[f].pos > cursor[c] =>
              event'[e].pos < event'[f].pos
  <2>1. ReadInv(c)
    BY DEF Inv
  <2>2. \A e \in Events : e \in Unread(c, at) <=>
           (event[e].state = "published" \/ at[e] > 0) /\ event'[e].pos > cursor[c]
    BY <1>4 DEF Unread, After
  <2>3. page \subseteq Unread(c, at) /\ \A e \in page : \A f \in Unread(c, at) \ page :
           Position(at, e) < Position(at, f)
    BY <2>1 DEF ReadInv
  <2>4. QED BY <1>4, <1>5, <2>2, <2>3
<1>8. /\ page = {} => p = cursor[c]
      /\ page # {} => /\ \E e \in page : p = event'[e].pos
                      /\ \A e \in page : event'[e].pos <= p
  BY <1>1, <1>2 DEF NextCursor
<1> HIDE DEF at, page
<1>9. /\ cursor'[c] = p /\ \A d \in Clients \ {c} : cursor'[d] = cursor[d]
      /\ seen'[c] = seen[c] \union page /\ \A d \in Clients \ {c} : seen'[d] = seen[d]
      /\ cursor' \in [Clients -> Nat] /\ seen' \in [Clients -> SUBSET Events]
  BY <1>1, <1>2, <1>5 DEF page
<1>10. TypeOK'
  BY <1>1, <1>3, <1>4, <1>9 DEF Inv, TypeOK, Read_, Event_
<1>11. cursor[c] <= p /\ p < next
  <2>1. CASE page = {}
    BY <1>5, <1>8, <2>1 DEF Inv, FeedInv
  <2>2. CASE page # {}
    <3>1. PICK e \in page : p = event'[e].pos
      BY <1>8, <2>2
    <3>2. e \in Events /\ event'[e].pos < next /\ event'[e].pos > cursor[c]
      BY <1>1, <1>4, <1>5, <1>7, <3>1
    <3>3. QED BY <1>5, <1>6, <3>1, <3>2
  <2>3. QED BY <2>1, <2>2
<1>12. ASSUME NEW d \in Clients, NEW e \in Events,
              event'[e].state = "published", event'[e].pos <= cursor[d]
       PROVE  e \in seen[d]
  <2>1. at[e] > 0 => event'[e].pos = at[e] /\ cursor[d] < at[e]
    BY <1>4 DEF Inv, ReadInv, Position, at
  <2>2. ~(at[e] > 0)
    BY <1>5, <1>12, <2>1
  <2>3. event[e].state = "published" /\ event[e].pos <= cursor[d]
    BY <1>4, <1>12, <2>2
  <2>4. QED BY <2>3 DEF Inv, FeedInv, NeverSkips
<1>13. NeverSkips'
  <2>1. SUFFICES ASSUME NEW d \in Clients, NEW e \in Events,
                        event'[e].state = "published", event'[e].pos <= cursor'[d]
                 PROVE  e \in seen'[d]
    BY DEF NeverSkips
  <2>2. CASE d # c
    BY <1>9, <1>12, <2>1, <2>2
  <2>3. CASE d = c /\ event'[e].pos <= cursor[c]
    BY <1>9, <1>12, <2>1, <2>3
  <2>4. CASE d = c /\ event'[e].pos > cursor[c]
    <3>1. e \notin page => \A g \in page : event'[g].pos < event'[e].pos
      BY <1>4, <1>7, <2>1, <2>4
    <3>2. event'[e].pos <= p
      BY <1>9, <2>1, <2>4
    <3>3. page # {}
      BY <1>5, <1>6, <1>8, <2>4, <3>2
    <3>4. PICK g \in page : p = event'[g].pos
      BY <1>8, <3>3
    <3>5. e \in page
      BY <1>5, <1>6, <3>1, <3>2, <3>4
    <3>6. QED BY <1>9, <2>4, <3>5
  <2>5. event'[e].pos <= cursor[c] \/ event'[e].pos > cursor[c]
    BY <1>5, <1>6
  <2>6. QED BY <2>2, <2>3, <2>4, <2>5
<1>14. ASSUME NEW d \in Clients, NEW e \in seen'[d]
       PROVE  event'[e].state = "published" /\ event'[e].pos <= cursor'[d]
  <2>1. CASE e \in seen[d]
    <3>1. e \in Events /\ event[e].state = "published" /\ event[e].pos <= cursor[d]
      BY <1>5, <2>1 DEF Inv, FeedInv
    <3>2. cursor[d] <= cursor'[d] /\ cursor[d] \in Nat /\ cursor'[d] \in Nat
      BY <1>5, <1>9, <1>11
    <3>3. QED BY <1>4, <1>5, <3>1, <3>2
  <2>2. CASE d = c /\ e \in page
    <3>1. e \in Events /\ event'[e].pos <= p /\ event'[e].state = "published"
      BY <1>4, <1>5, <1>7, <1>8, <2>2
    <3>2. QED BY <1>9, <2>2, <3>1
  <2>3. QED BY <1>9, <1>14, <2>1, <2>2
<1>15. \A d \in Clients : cursor'[d] < next'
  BY <1>1, <1>9, <1>11 DEF Inv, FeedInv
<1>16. FeedInv'
  BY <1>4, <1>13, <1>14, <1>15 DEF FeedInv
<1>17. QED BY <1>3, <1>4, <1>10, <1>16 DEF Inv

----------------------------------------------------------------------------
LEMMA NextInv == Inv /\ [Next]_vars => Inv'
<1> SUFFICES ASSUME Inv, [Next]_vars PROVE Inv'
  OBVIOUS
<1>1. CASE UNCHANGED vars
  <2>1. TypeOK' /\ OneReader' /\ FeedInv' /\ OrderInv'
    BY <1>1 DEF vars, Inv, TypeOK, OneReader, FeedInv, OrderInv, NeverSkips, RevisionOrder, Done
  <2>2. ASSUME NEW c \in Clients PROVE ReadInv(c)'
    BY <1>1 DEF vars, Inv, ReadInv, Unread, After, Position
  <2>3. QED BY <2>1, <2>2 DEF Inv
<1>2. CASE Next
  BY <1>2, WriterNext, ReadNext, DeliverNext, AnswerLostNext, RollBackNext DEF Next
<1>3. QED BY <1>1, <1>2

LEMMA InvHolds == Spec => []Inv
<1>1. Init => Inv
  BY InitInv
<1>2. Inv /\ [Next]_vars => Inv'
  BY NextInv
<1>3. QED BY <1>1, <1>2, PTL DEF Spec

(* Every variable keeps its type, and exactly the published events have a
   position. *)
THEOREM TypeCorrect == Spec => []TypeOK
<1>1. Inv => TypeOK
  BY DEF Inv
<1>2. QED BY <1>1, InvHolds, PTL

(* However late a writer commits, no cursor is past an event its client was
   not given, and no page holds an event its client was given before. *)
THEOREM NothingSkipped == Spec => []FeedHolds
<1>1. Inv => TypeOK /\ NeverSkips
  BY DEF Inv, FeedInv
<1>2. Inv => GivenOnce
  <2> SUFFICES ASSUME Inv, NEW c \in Clients, NEW e \in reader[c].page, e \in seen[c] PROVE FALSE
    BY DEF GivenOnce
  <2>1. e \in Events /\ event[e].state = "published" /\ event[e].pos <= cursor[c]
    BY ReadTypes DEF Inv, FeedInv
  <2>2. Position(reader[c].at, e) > cursor[c]
    BY DEF Inv, ReadInv, Unread, After
  <2>3. ~(reader[c].at[e] > 0)
    BY <2>1 DEF Inv, ReadInv
  <2>4. event[e].pos \in Nat /\ cursor[c] \in Nat
    BY <2>1, ReadTypes
  <2>5. QED BY <2>1, <2>2, <2>3, <2>4 DEF Position
<1>3. Inv => FeedHolds
  BY <1>1, <1>2 DEF FeedHolds
<1>4. QED BY <1>3, InvHolds, PTL

(* The feed tells each record's revisions in order and without a gap. *)
THEOREM RevisionsInOrder == Spec => []RevisionOrder
<1>1. Inv => RevisionOrder
  BY DEF Inv, OrderInv
<1>2. QED BY <1>1, InvHolds, PTL
=============================================================================
