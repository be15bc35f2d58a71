----------------------- MODULE SpaceDirectoryProofs -----------------------
(***************************************************************************)
(* Proofs about SpaceDirectory, for any number of callers and any bounds:  *)
(* the directory only advances and only shows what the cell had, and an    *)
(* answer means publication.                                               *)
(*                                                                         *)
(* Everything a request has read stays true as a bound: the cell and the   *)
(* directory only grow and past only gains members, so what holds of one   *)
(* request's copies is not disturbed by the steps of another.  The         *)
(* inductive invariant says, of each request, how its two copies compare   *)
(* with the two rows, and what its place in the code adds to that.         *)
(***************************************************************************)
EXTENDS SpaceDirectory, TLAPS

Call == [pc: Pcs, kind: Kinds, want: Lifecycles, expected: Nat,
         space: Row, local: Row, token: {"none", "lease"}]

Leq(r, s) == r.version <= s.version /\ r.generation <= s.generation
Had(r)    == <<r.version, r.lifecycle>> \in past

(* The two rows: the directory's is one the cell had, and no later one. *)
RowsInv ==
    /\ Leq(directory, cell) /\ Had(directory) /\ Had(cell) /\ Had(NewRow)
    /\ \A p \in past : p[1] <= cell.version
    /\ \A v, w \in past : v[1] = w[1] => v = w

(* A request's copies: one of the directory, one of the cell. *)
CopiesInv(c) ==
    /\ Leq(call[c].space, directory) /\ Had(call[c].space)
    /\ Leq(call[c].local, cell) /\ Had(call[c].local)

(* The statements at which what a request keeps of the cell is published. *)
Settled == {"key", "recover", "route", "claim", "locate", "repair", "compare", "checked",
            "published", "done"}

(* What its place in the code adds. *)
PlaceInv(c) ==
    /\ call[c].pc \in {"setRow", "setFence"} => Leq(call[c].space, call[c].local)
    /\ call[c].pc \in {"setRow", "setFence", "fence", "transition", "key"} =>
         call[c].space.lifecycle # "deleted"
    /\ call[c].kind = "revoke" =>
         call[c].pc \notin {"transition", "fence", "setFence", "erase", "inspect", "purge", "tombstone"}
    /\ call[c].pc = "publish" =>
         /\ call[c].space.version <= call[c].local.version
         /\ <<call[c].local.version, Published(c).lifecycle>> \in past
         /\ call[c].space.lifecycle = "deleted" => Published(c).lifecycle = "deleted"
    /\ call[c].kind # "fence" /\ call[c].pc \in Settled =>
         call[c].local.version <= directory.version

Inv == TypeOK /\ RowsInv /\ \A c \in Callers : CopiesInv(c) /\ PlaceInv(c)

(* The rows as a step may change them, and the other requests as it may not. *)
Grows == Leq(directory, directory') /\ Leq(cell, cell') /\ past \subseteq past'
Only(c) == /\ call' \in [Callers -> Call]
           /\ \A d \in Callers \ {c} : call'[d] = call[d]
Keeps(c) == /\ call'[c].kind = call[c].kind /\ call'[c].want = call[c].want
            /\ call'[c].expected = call[c].expected

(* A step of c that lets the rows grow and keeps its own part keeps all. *)
LEMMA StepKeeps ==
  ASSUME NEW c \in Callers, Inv, TypeOK', RowsInv', Grows, Only(c), CopiesInv(c)', PlaceInv(c)'
  PROVE  Inv'
<1> SUFFICES ASSUME NEW d \in Callers, d # c PROVE CopiesInv(d)' /\ PlaceInv(d)'
  BY DEF Inv
<1>1. call'[d] = call[d] /\ call[d] \in Call
  BY DEF Only, Inv, TypeOK, Call
<1>2. /\ directory \in Row /\ cell \in Row /\ directory' \in Row /\ cell' \in Row
  BY DEF Inv, TypeOK
<1>3. call[d].space \in Row /\ call[d].local \in Row
  BY <1>1 DEF Call
<1>4. CopiesInv(d) /\ PlaceInv(d)
  BY DEF Inv
<1>5. CopiesInv(d)'
  BY <1>1, <1>2, <1>3, <1>4 DEF CopiesInv, Grows, Leq, Had, Row
<1>6. Published(d)' = Published(d)
  BY <1>1 DEF Published, Prior
<1>7. directory.version <= directory'.version
  BY DEF Grows, Leq
<1>8. PlaceInv(d)'
  BY <1>1, <1>2, <1>3, <1>4, <1>6, <1>7 DEF PlaceInv, Grows, Leq, Row, Prior
<1>9. QED BY <1>5, <1>8

(* What Goto does to a request. *)
LEMMA GotoFields ==
  ASSUME NEW c \in Callers, NEW pc \in Pcs, TypeOK, Goto(c, pc)
  PROVE  /\ Only(c) /\ Keeps(c) /\ call'[c].pc = pc
         /\ call'[c].space = call[c].space /\ call'[c].local = call[c].local
<1>1. call \in [Callers -> Call]
  BY DEF TypeOK, Call
<1>2. call' = [call EXCEPT ![c] = [call[c] EXCEPT !.pc = pc]]
  BY DEF Goto
<1>3. [call[c] EXCEPT !.pc = pc] \in Call
  BY <1>1 DEF Call
<1>4. QED BY <1>1, <1>2, <1>3 DEF Only, Keeps, Call

Held == {"locate", "repair", "compare", "setRow"}

(* Where a request that only moves may go. *)
MayGo(c, pc) ==
    /\ pc \in Pcs \ {"publish", "setRow", "setFence"}
    /\ pc \in {"fence", "transition", "key"} => call[c].space.lifecycle # "deleted"
    /\ call[c].kind = "revoke" =>
         pc \notin {"transition", "fence", "erase", "inspect", "purge", "tombstone"}
    /\ call[c].kind # "fence" /\ pc \in Settled => call[c].local.version <= directory.version

(* The lease, taken by a request that stands where one may hold it. *)
LeaseMay(c, pc) ==
    /\ lease' \in {lease, None, Lost, c}
    /\ lease' = c => pc \in Held

Bounds == calls' \in [Callers -> 0 .. MaxCalls] /\ faults' \in 0 .. MaxFaults

(* A step that changes nothing but where a request stands, whether it holds
   the lease, and the bounds. *)
LEMMA MoveKeeps ==
  ASSUME NEW c \in Callers, NEW pc, Inv, Goto(c, pc), MayGo(c, pc), LeaseMay(c, pc), Bounds,
         UNCHANGED <<cell, directory, past, revoked>>
  PROVE  Inv'
<1>1. /\ Only(c) /\ Keeps(c) /\ call'[c].pc = pc
      /\ call'[c].space = call[c].space /\ call'[c].local = call[c].local
  BY GotoFields DEF Inv, MayGo
<1>2. TypeOK'
  BY <1>1, DirectoryAssumption DEF Inv, TypeOK, Only, Call, LeaseMay, Bounds, Held
<1>3. RowsInv' /\ Grows
  BY DEF Inv, TypeOK, RowsInv, Grows, Leq, Had, Row
<1>4. CopiesInv(c)'
  BY <1>1 DEF Inv, CopiesInv, Leq, Had
<1>5. PlaceInv(c)'
  BY <1>1 DEF MayGo, Keeps, PlaceInv, Settled
<1>6. QED BY <1>1, <1>2, <1>3, <1>4, <1>5, StepKeeps

(* What the types of the rows and a request say, for the steps below. *)
LEMMA Types ==
  ASSUME NEW c \in Callers, Inv
  PROVE  /\ cell \in Row /\ directory \in Row /\ call[c] \in Call
         /\ call[c].space \in Row /\ call[c].local \in Row
         /\ CopiesInv(c) /\ PlaceInv(c)
         /\ calls \in [Callers -> 0 .. MaxCalls] /\ faults \in 0 .. MaxFaults
         /\ lease \in Callers \union {None, Lost} /\ None # c /\ Lost # c
         /\ lease = c => call[c].pc \in Held
BY DirectoryAssumption DEF Inv, TypeOK, Call, Held

LEMMA FaultBounds ==
  ASSUME Inv, Fault, UNCHANGED calls PROVE Bounds
BY DirectoryAssumption DEF Inv, TypeOK, Fault, Bounds

LEMMA SameBounds ==
  ASSUME Inv, UNCHANGED <<calls, faults>> PROVE Bounds
BY DEF Inv, TypeOK, Bounds

(* The steps that only read the cell, or what the request has. *)
(* A request that goes on to pc and changes nothing else. *)
LEMMA GoesOn ==
  ASSUME NEW c \in Callers, NEW pc, Inv, Goto(c, pc), MayGo(c, pc), lease = c => pc \in Held,
         UNCHANGED <<cell, directory, past, revoked, lease, calls, faults>>
  PROVE  Inv'
<1>1. LeaseMay(c, pc) /\ Bounds
  BY SameBounds DEF LeaseMay
<1>2. QED BY <1>1, MoveKeeps

(* A request that gives up, and its lease with it. *)
LEMMA GivesUp ==
  ASSUME NEW c \in Callers, Inv, Goto(c, "threw"), lease' \in {lease, None, Lost}, lease' # c,
         Bounds, UNCHANGED <<cell, directory, past, revoked>>
  PROVE  Inv'
<1>1. MayGo(c, "threw") /\ LeaseMay(c, "threw")
  BY DEF MayGo, LeaseMay, Pcs, Settled
<1>2. QED BY <1>1, MoveKeeps

----------------------------------------------------------------------------
(* The steps that only move a request. *)

LEMMA RecoverKeeps == ASSUME Inv, NEW c \in Callers, Recover(c) PROVE Inv'
<1> DEFINE pc == IF Behind(c) THEN "threw" ELSE IF cell = call[c].space THEN "checked" ELSE "route"
<1>1. Goto(c, pc) /\ call[c].pc = "recover"
  BY DEF Recover, At
<1>2. MayGo(c, pc) /\ lease # c
  BY <1>1, Types DEF MayGo, PlaceInv, Settled, Pcs, Held
<1> HIDE DEF pc
<1>3. QED BY <1>1, <1>2, GoesOn DEF Recover

LEMMA RouteKeeps == ASSUME Inv, NEW c \in Callers, Route(c) PROVE Inv'
<1> DEFINE pc == IF cell.lifecycle = "deleted" THEN "locate" ELSE "claim"
<1>1. Goto(c, pc) /\ call[c].pc = "route"
  BY DEF Route, At
<1>2. MayGo(c, pc) /\ lease # c
  BY <1>1, Types DEF MayGo, PlaceInv, Settled, Pcs, Held
<1> HIDE DEF pc
<1>3. QED BY <1>1, <1>2, GoesOn DEF Route

LEMMA DecideChangeKeeps == ASSUME Inv, NEW c \in Callers, DecideChange(c) PROVE Inv'
<1> DEFINE pc == IF Prior(c) = call[c].want
                 THEN IF call[c].kind = "change" THEN "done" ELSE "erase"
                 ELSE IF \/ Prior(c) \in {"deleting", "deleted"}
                         \/ call[c].want = "deleting" /\ Prior(c) = "active"
                 THEN "refused" ELSE "transition"
<1>1. Goto(c, pc) /\ call[c].pc = "checked" /\ call[c].kind \in {"change", "deleting"}
  BY DEF DecideChange, At
<1>2. MayGo(c, pc) /\ lease # c
  BY <1>1, Types DEF MayGo, PlaceInv, Settled, Pcs, Held, Prior
<1> HIDE DEF pc
<1>3. QED BY <1>1, <1>2, GoesOn DEF DecideChange

LEMMA DecideFenceKeeps == ASSUME Inv, NEW c \in Callers, DecideFence(c) PROVE Inv'
<1> DEFINE pc == IF call[c].space.generation = call[c].expected /\ Prior(c) # "deleted"
                 THEN "fence" ELSE "refused"
<1>1. Goto(c, pc) /\ call[c].pc = "checked" /\ call[c].kind = "fence"
  BY DEF DecideFence, At
<1>2. MayGo(c, pc) /\ lease # c
  BY <1>1, Types DEF MayGo, PlaceInv, Settled, Pcs, Held, Prior
<1> HIDE DEF pc
<1>3. QED BY <1>1, <1>2, GoesOn DEF DecideFence

LEMMA DecideRevokeKeeps == ASSUME Inv, NEW c \in Callers, DecideRevoke(c) PROVE Inv'
<1>1. Goto(c, "done") /\ call[c].pc = "checked"
  BY DEF DecideRevoke, At
<1>2. MayGo(c, "done") /\ lease # c
  BY <1>1, Types DEF MayGo, PlaceInv, Settled, Pcs, Held
<1>3. QED BY <1>1, <1>2, GoesOn DEF DecideRevoke

LEMMA KeyRevokedKeeps == ASSUME Inv, NEW c \in Callers, KeyRevoked(c) PROVE Inv'
<1> DEFINE pc == IF KeyPublished(c) THEN "done" ELSE "route"
<1>1. Goto(c, pc) /\ call[c].pc = "key"
  BY DEF KeyRevoked, At
<1>2. MayGo(c, pc) /\ lease # c
  BY <1>1, Types DEF MayGo, PlaceInv, Settled, Pcs, Held
<1> HIDE DEF pc
<1>3. QED BY <1>1, <1>2, GoesOn DEF KeyRevoked

LEMMA KeyGoneKeeps == ASSUME Inv, NEW c \in Callers, KeyGone(c) PROVE Inv'
<1>1. Goto(c, "refused") /\ call[c].pc = "key"
  BY DEF KeyGone, At
<1>2. MayGo(c, "refused") /\ lease # c
  BY <1>1, Types DEF MayGo, PlaceInv, Settled, Pcs, Held
<1>3. QED BY <1>1, <1>2, GoesOn DEF KeyGone

LEMMA InspectKeeps == ASSUME Inv, NEW c \in Callers, Inspect(c) PROVE Inv'
<1> DEFINE pc == IF cell.lifecycle = "deleting" THEN "purge"
                 ELSE IF cell.lifecycle = "deleted" THEN "tombstone" ELSE "threw"
<1>1. Goto(c, pc) /\ call[c].pc = "inspect"
  BY DEF Inspect, At
<1>2. MayGo(c, pc) /\ lease # c
  BY <1>1, Types DEF MayGo, PlaceInv, Settled, Pcs, Held
<1> HIDE DEF pc
<1>3. QED BY <1>1, <1>2, GoesOn DEF Inspect

LEMMA ReadBackKeeps == ASSUME Inv, NEW c \in Callers, ReadBack(c) PROVE Inv'
<1> DEFINE pc == IF PublishedByAnother(c) THEN "published" ELSE "threw"
<1>1. Goto(c, pc) /\ call[c].pc = "publish"
  BY DEF ReadBack, At
<1>2. PublishedByAnother(c) => call[c].local.version <= directory.version
  <2>1. call[c].local \in Row /\ call[c].space \in Row
    BY Types
  <2>2. Published(c).version = call[c].local.version
    BY <2>1 DEF Published, Row
  <2>3. QED BY <2>1, <2>2 DEF PublishedByAnother, Row
<1>3. MayGo(c, pc) /\ lease # c
  BY <1>1, <1>2, Types DEF MayGo, Settled, Pcs, Held
<1> HIDE DEF pc
<1>4. QED BY <1>1, <1>3, GoesOn DEF ReadBack

LEMMA FinishKeeps == ASSUME Inv, NEW c \in Callers, Finish(c) PROVE Inv'
<1> DEFINE pc == IF call[c].kind = "deleting" /\ call[c].local.lifecycle = "deleting"
                 THEN "erase" ELSE "done"
<1>1. Goto(c, pc) /\ call[c].pc = "published"
  BY DEF Finish, At
<1>2. MayGo(c, pc) /\ lease # c
  BY <1>1, Types DEF MayGo, PlaceInv, Settled, Pcs, Held
<1> HIDE DEF pc
<1>3. QED BY <1>1, <1>2, GoesOn DEF Finish

LEMMA FaultKeeps == ASSUME Inv, NEW c \in Callers, Throw(c) \/ Crash(c) PROVE Inv'
<1>1. Goto(c, "threw") /\ Bounds /\ UNCHANGED <<cell, directory, past, revoked>>
  BY FaultBounds DEF Throw, Crash
<1>2. lease' \in {lease, None, Lost} /\ lease' # c
  BY Types DEF Throw, Crash, LeaseAfter
<1>3. QED BY <1>1, <1>2, GivesUp

LEMMA ExpireKeeps == ASSUME Inv, ExpireLease PROVE Inv'
<1>1. UNCHANGED <<cell, directory, past, call>> /\ lease' = None /\ UNCHANGED <<revoked, calls>>
  BY DEF ExpireLease
<1>2. faults' \in 0 .. MaxFaults
  BY DirectoryAssumption DEF ExpireLease, Fault, Inv, TypeOK
<1>3. TypeOK'
  BY <1>1, <1>2, DirectoryAssumption DEF Inv, TypeOK
<1>4. RowsInv'
  BY <1>1 DEF Inv, RowsInv, Leq, Had
<1>5. ASSUME NEW c \in Callers PROVE CopiesInv(c)' /\ PlaceInv(c)'
  BY <1>1 DEF Inv, CopiesInv, PlaceInv, Leq, Had, Published, Prior
<1>6. QED BY <1>3, <1>4, <1>5 DEF Inv

----------------------------------------------------------------------------
(* The steps that read a row again, or begin a request. *)

(* A request whose copies are as they were, read again, or the first row's. *)
LEMMA RereadKeeps ==
  ASSUME NEW c \in Callers, Inv, Only(c), LeaseMay(c, call'[c].pc), Bounds,
         UNCHANGED <<cell, directory, past, revoked>>,
         call'[c].space \in {call[c].space, directory, NewRow},
         call'[c].local \in {call[c].local, directory, cell, NewRow},
         PlaceInv(c)'
  PROVE  Inv'
<1>1. TypeOK'
  BY DirectoryAssumption DEF Inv, TypeOK, Only, Call, LeaseMay, Bounds, Held
<1>2. RowsInv' /\ Grows
  BY DEF Inv, TypeOK, RowsInv, Grows, Leq, Had, Row
<1>3. \A r \in {call[c].space, directory, NewRow} : Leq(r, directory) /\ Had(r)
  BY DEF Inv, TypeOK, RowsInv, CopiesInv, Leq, Row, NewRow
<1>4. \A r \in {call[c].local, directory, cell, NewRow} : Leq(r, cell) /\ Had(r)
  BY DEF Inv, TypeOK, RowsInv, CopiesInv, Leq, Row, NewRow
<1>5. CopiesInv(c)'
  BY <1>3, <1>4 DEF CopiesInv, Leq, Had
<1>6. QED BY <1>1, <1>2, <1>5, StepKeeps

LEMMA ObserveKeeps == ASSUME Inv, NEW c \in Callers, Observe(c) PROVE Inv'
<1> DEFINE pc == IF directory.lifecycle = "deleted"
                 THEN IF call[c].kind = "delete" THEN "tombstone" ELSE "refused"
                 ELSE IF call[c].kind = "revoke" THEN "key" ELSE "recover"
<1> DEFINE q == [call[c] EXCEPT !.space = directory, !.local = directory, !.pc = pc]
<1>1. call' = [call EXCEPT ![c] = q] /\ call[c].pc = "observe"
  BY DEF Observe, At
<1>2. pc \in Pcs /\ directory \in Row /\ call[c] \in Call
  BY Types DEF Pcs
<1>3. q \in Call /\ q.pc = pc /\ q.space = directory /\ q.local = directory /\ q.kind = call[c].kind
  <2> HIDE DEF pc
  <2> QED BY <1>2 DEF Call
<1>4. Only(c) /\ call'[c] = q
  <2> HIDE DEF q
  <2> QED BY <1>1, <1>3 DEF Only, Inv, TypeOK, Call
<1>5. lease # c
  BY <1>1, Types DEF Held
<1>6. UNCHANGED <<cell, directory, past, revoked>> /\ LeaseMay(c, pc) /\ Bounds
  BY <1>5, SameBounds DEF Observe, LeaseMay
<1>7. PlaceInv(c)'
  <2>1. pc \in {"tombstone", "refused", "key", "recover"} /\ (pc = "key" => directory.lifecycle # "deleted")
        /\ (pc = "tombstone" => call[c].kind # "revoke")
    OBVIOUS
  <2> HIDE DEF pc, q
  <2>2. QED BY <1>2, <1>3, <1>4, <1>6, <2>1 DEF PlaceInv, Row, Settled
<1> HIDE DEF pc, q
<1>8. QED BY <1>3, <1>4, <1>6, <1>7, RereadKeeps

LEMMA LocateKeeps == ASSUME Inv, NEW c \in Callers, Locate(c) PROVE Inv'
<1> DEFINE q == [call[c] EXCEPT !.space = directory, !.pc = "repair"]
<1>1. call' = [call EXCEPT ![c] = q] /\ call[c].pc = "locate"
  BY DEF Locate, At
<1>2. directory \in Row /\ call[c] \in Call /\ PlaceInv(c)
  BY Types
<1>3. q \in Call /\ q.pc = "repair" /\ q.space = directory /\ q.local = call[c].local /\ q.kind = call[c].kind
  BY <1>2 DEF Call, Pcs
<1> HIDE DEF q
<1>4. Only(c) /\ call'[c] = q
  BY <1>1, <1>3 DEF Only, Inv, TypeOK, Call
<1>5. UNCHANGED <<cell, directory, past, revoked>> /\ LeaseMay(c, "repair") /\ Bounds
  BY SameBounds DEF Locate, LeaseMay, Held
<1>6. PlaceInv(c)'
  BY <1>1, <1>2, <1>3, <1>4, <1>5 DEF PlaceInv, Settled
<1>7. QED BY <1>3, <1>4, <1>5, <1>6, RereadKeeps

LEMMA EraseKeeps == ASSUME Inv, NEW c \in Callers, Erase(c) PROVE Inv'
<1> DEFINE pc == IF directory.lifecycle = "deleted" THEN "threw" ELSE "inspect"
<1> DEFINE q == [call[c] EXCEPT !.space = directory, !.pc = pc]
<1>1. call' = [call EXCEPT ![c] = q] /\ call[c].pc = "erase"
  BY DEF Erase, At
<1>2. directory \in Row /\ call[c] \in Call /\ PlaceInv(c) /\ lease # c
  BY <1>1, Types DEF Held
<1>3. pc \in {"threw", "inspect"}
  OBVIOUS
<1> HIDE DEF pc
<1>4. q \in Call /\ q.pc = pc /\ q.space = directory /\ q.local = call[c].local /\ q.kind = call[c].kind
  BY <1>2, <1>3 DEF Call, Pcs
<1> HIDE DEF q
<1>5. Only(c) /\ call'[c] = q
  BY <1>1, <1>4 DEF Only, Inv, TypeOK, Call
<1>6. UNCHANGED <<cell, directory, past, revoked>> /\ LeaseMay(c, pc) /\ Bounds
  BY <1>2, SameBounds DEF Erase, LeaseMay
<1>7. PlaceInv(c)'
  BY <1>1, <1>2, <1>3, <1>4, <1>5, <1>6 DEF PlaceInv, Settled
<1>8. QED BY <1>4, <1>5, <1>6, <1>7, RereadKeeps

LEMMA TombstoneKeeps == ASSUME Inv, NEW c \in Callers, Tombstone(c) PROVE Inv'
<1> DEFINE pc == IF cell.lifecycle = "deleted" THEN "publish" ELSE "threw"
<1> DEFINE q == [call[c] EXCEPT !.local = cell, !.pc = pc]
<1>1. call' = [call EXCEPT ![c] = q] /\ call[c].pc = "tombstone"
  BY DEF Tombstone, At
<1>2. /\ cell \in Row /\ directory \in Row /\ call[c] \in Call /\ call[c].space \in Row
      /\ PlaceInv(c) /\ CopiesInv(c) /\ lease # c
  BY <1>1, Types DEF Held
<1>3. pc \in {"threw", "publish"} /\ (pc = "publish" => cell.lifecycle = "deleted")
  OBVIOUS
<1> HIDE DEF pc
<1>4. q \in Call /\ q.pc = pc /\ q.local = cell /\ q.space = call[c].space /\ q.kind = call[c].kind
  BY <1>2, <1>3 DEF Call, Pcs
<1> HIDE DEF q
<1>5. Only(c) /\ call'[c] = q
  BY <1>1, <1>4 DEF Only, Inv, TypeOK, Call
<1>6. UNCHANGED <<cell, directory, past, revoked>> /\ LeaseMay(c, pc) /\ Bounds
  BY <1>2, SameBounds DEF Tombstone, LeaseMay
<1>7. PlaceInv(c)'
  <2>1. call[c].kind # "revoke"
    BY <1>1, <1>2 DEF PlaceInv
  <2>2. Published(c)'.lifecycle = cell.lifecycle
    BY <1>2, <1>4, <1>5, <2>1 DEF Published, Row
  <2>3. Had(cell) /\ call[c].space.version <= cell.version
    BY <1>2 DEF Inv, RowsInv, CopiesInv, Leq, Row
  <2>4. QED BY <1>3, <1>4, <1>5, <1>6, <2>1, <2>2, <2>3 DEF PlaceInv, Settled, Had
<1>8. QED BY <1>4, <1>5, <1>6, <1>7, RereadKeeps

LEMMA ClaimKeeps == ASSUME Inv, NEW c \in Callers, Claim(c) PROVE Inv'
<1>1. /\ call[c].pc = "claim" /\ call[c] \in Call /\ PlaceInv(c) /\ lease # c /\ c # None
      /\ UNCHANGED <<cell, directory, past, revoked, calls, faults>>
  BY Types DEF Claim, At, Held
<1>2. CASE lease = None
  <2> DEFINE q == [call[c] EXCEPT !.pc = "locate", !.token = "lease"]
  <2>1. call' = [call EXCEPT ![c] = q] /\ lease' = c
    BY <1>2 DEF Claim
  <2>2. /\ q \in Call /\ q.pc = "locate" /\ q.kind = call[c].kind
        /\ q.space = call[c].space /\ q.local = call[c].local
    BY <1>1 DEF Call, Pcs
  <2> HIDE DEF q
  <2>3. Only(c) /\ call'[c] = q
    BY <2>1, <2>2 DEF Only, Inv, TypeOK, Call
  <2>4. LeaseMay(c, "locate") /\ Bounds
    BY <1>1, <2>1, SameBounds DEF LeaseMay, Held
  <2>5. PlaceInv(c)'
    BY <1>1, <2>2, <2>3 DEF PlaceInv, Settled
  <2>6. QED BY <1>1, <2>2, <2>3, <2>4, <2>5, RereadKeeps
<1>3. CASE lease # None
  <2>1. Goto(c, "threw") /\ UNCHANGED lease
    BY <1>3 DEF Claim
  <2>2. QED BY <1>1, <2>1, GivesUp, SameBounds
<1>4. QED BY <1>2, <1>3

LEMMA CompareKeeps == ASSUME Inv, NEW c \in Callers, Compare(c) PROVE Inv'
<1>1. /\ call[c].pc = "compare" /\ call[c] \in Call /\ PlaceInv(c)
      /\ UNCHANGED <<cell, directory, past, revoked, calls, faults>> /\ Bounds
      /\ cell \in Row /\ call[c].space \in Row
  BY Types, SameBounds DEF Compare, At
<1>2. CASE /\ call[c].space.lifecycle # "deleted" /\ ~Behind(c)
           /\ call' = [call EXCEPT ![c].local = cell, ![c].pc = "setRow"]
           /\ UNCHANGED lease
  <2> DEFINE q == [call[c] EXCEPT !.local = cell, !.pc = "setRow"]
  <2>1. call' = [call EXCEPT ![c] = q]
    BY <1>2
  <2>2. /\ q \in Call /\ q.pc = "setRow" /\ q.kind = call[c].kind
        /\ q.space = call[c].space /\ q.local = cell
    BY <1>1 DEF Call, Pcs
  <2> HIDE DEF q
  <2>3. Only(c) /\ call'[c] = q
    BY <2>1, <2>2 DEF Only, Inv, TypeOK, Call
  <2>4. LeaseMay(c, "setRow")
    BY <1>2 DEF LeaseMay, Held
  <2>5. Leq(call[c].space, cell)
    BY <1>1, <1>2 DEF Behind, Leq, Row
  <2>6. PlaceInv(c)'
    BY <1>1, <1>2, <2>2, <2>3, <2>5 DEF PlaceInv, Settled, Leq
  <2>7. QED BY <1>1, <2>2, <2>3, <2>4, <2>6, RereadKeeps
<1>3. CASE /\ call[c].space.lifecycle = "deleted" \/ Behind(c)
           /\ Goto(c, IF call[c].space.lifecycle = "deleted" THEN "checked" ELSE "threw")
           /\ lease' = LeaseAfter(c)
  <2> DEFINE pc == IF call[c].space.lifecycle = "deleted" THEN "checked" ELSE "threw"
  <2>1. MayGo(c, pc)
    BY <1>1 DEF MayGo, PlaceInv, Settled, Pcs
  <2>2. LeaseMay(c, pc)
    BY <1>3, Types DEF LeaseMay, LeaseAfter
  <2>3. Goto(c, pc)
    BY <1>3
  <2> HIDE DEF pc
  <2>4. QED BY <1>1, <2>1, <2>2, <2>3, MoveKeeps
<1>4. QED BY <1>2, <1>3 DEF Compare

LEMMA DecideDeleteKeeps == ASSUME Inv, NEW c \in Callers, DecideDelete(c) PROVE Inv'
<1>1. /\ call[c].pc = "checked" /\ call[c].kind = "delete" /\ call[c] \in Call /\ PlaceInv(c) /\ lease # c
      /\ UNCHANGED <<cell, directory, past, revoked, lease, calls, faults>>
  BY Types DEF DecideDelete, At, Held
<1>2. MayGo(c, "tombstone") /\ MayGo(c, "erase")
  BY <1>1 DEF MayGo, Pcs, Settled
<1>3. CASE Goto(c, "tombstone") \/ Goto(c, "erase")
  BY <1>1, <1>2, <1>3, GoesOn
<1>4. CASE call' = [call EXCEPT ![c].pc = "observe", ![c].kind = "deleting"]
  <2> DEFINE q == [call[c] EXCEPT !.pc = "observe", !.kind = "deleting"]
  <2>1. call' = [call EXCEPT ![c] = q]
    BY <1>4
  <2>2. /\ q \in Call /\ q.pc = "observe" /\ q.kind = "deleting"
        /\ q.space = call[c].space /\ q.local = call[c].local
    BY <1>1 DEF Call, Pcs, Kinds
  <2> HIDE DEF q
  <2>3. Only(c) /\ call'[c] = q
    BY <2>1, <2>2 DEF Only, Inv, TypeOK, Call
  <2>4. LeaseMay(c, "observe") /\ Bounds
    BY <1>1, SameBounds DEF LeaseMay
  <2>5. PlaceInv(c)'
    BY <1>1, <2>2, <2>3 DEF PlaceInv, Settled
  <2>6. QED BY <1>1, <2>2, <2>3, <2>4, <2>5, RereadKeeps
<1>5. QED BY <1>3, <1>4 DEF DecideDelete

LEMMA RetryKeeps == ASSUME Inv, NEW c \in Callers, Retry(c) PROVE Inv'
<1> DEFINE pc == IF call[c].kind = "fence" THEN "route" ELSE "observe"
<1> DEFINE kind == IF call[c].kind = "deleting" THEN "delete" ELSE call[c].kind
<1> DEFINE q == [call[c] EXCEPT !.pc = pc, !.kind = kind, !.token = "none"]
<1>1. /\ call[c].pc = "threw" /\ call[c] \in Call /\ PlaceInv(c) /\ lease # c
      /\ UNCHANGED <<cell, directory, past, revoked, lease, calls, faults>>
  BY Types DEF Retry, At, Held
<1>2. call' = [call EXCEPT ![c] = q]
  BY DEF Retry
<1>3. pc \in {"route", "observe"} /\ kind \in Kinds /\ (pc = "route" => kind = "fence")
  BY <1>1 DEF Call, Kinds
<1> HIDE DEF pc, kind
<1>4. q \in Call /\ q.pc = pc /\ q.kind = kind /\ q.space = call[c].space /\ q.local = call[c].local
  BY <1>1, <1>3 DEF Call, Pcs
<1> HIDE DEF q
<1>5. Only(c) /\ call'[c] = q
  BY <1>2, <1>4 DEF Only, Inv, TypeOK, Call
<1>6. LeaseMay(c, pc) /\ Bounds
  BY <1>1, SameBounds DEF LeaseMay
<1>7. PlaceInv(c)'
  BY <1>3, <1>4, <1>5 DEF PlaceInv, Settled
<1>8. QED BY <1>1, <1>4, <1>5, <1>6, <1>7, RereadKeeps

LEMMA BeginKeeps == ASSUME Inv, NEW c \in Callers, Begin(c) PROVE Inv'
<1>1. PICK kind \in Kinds, want \in Lifecycles : Request(c, kind, want)
  BY DEF Begin, Kinds, Lifecycles
<1> DEFINE pc == IF kind = "fence" THEN "route" ELSE "observe"
<1> DEFINE q == [NoCall EXCEPT !.pc = pc, !.kind = kind, !.want = want, !.expected = directory.generation]
<1>2. /\ call' = [call EXCEPT ![c] = q]
      /\ UNCHANGED <<cell, directory, past, revoked, lease>>
  BY <1>1 DEF Request
<1>3. directory.generation \in Nat /\ lease # c
  BY Types DEF Begin, Held, Row
<1>4. pc \in {"route", "observe"} /\ (pc = "route" => kind = "fence")
  OBVIOUS
<1> HIDE DEF pc
<1>5. NewRow \in Row /\ NoCall.space = NewRow /\ NoCall.local = NewRow
  BY DEF NoCall, NewRow, Row, Lifecycles
<1>6. q \in Call /\ q.pc = pc /\ q.kind = kind /\ q.space = NewRow /\ q.local = NewRow
  BY <1>3, <1>4, <1>5 DEF Call, Pcs, NoCall
<1> HIDE DEF q
<1>7. Only(c) /\ call'[c] = q
  BY <1>2, <1>6 DEF Only, Inv, TypeOK, Call
<1>8. LeaseMay(c, pc)
  BY <1>2, <1>3 DEF LeaseMay
<1>9. Bounds
  BY DirectoryAssumption DEF Begin, Bounds, Inv, TypeOK
<1>10. PlaceInv(c)'
  BY <1>4, <1>6, <1>7 DEF PlaceInv, Settled
<1>11. QED BY <1>2, <1>6, <1>7, <1>8, <1>9, <1>10, RereadKeeps

----------------------------------------------------------------------------
(* The steps that commit a row. *)

(* A row the cell may go on to: a later version, or the same one with the
   same lifecycle. *)
After(row) ==
    /\ row \in Row
    /\ Leq(cell, row)
    /\ row.version = cell.version => row.lifecycle = cell.lifecycle

LEMMA CellGrows ==
  ASSUME Inv, NEW row, After(row), SetCell(row), UNCHANGED directory
  PROVE  /\ RowsInv' /\ Grows /\ cell' \in Row /\ <<row.version, row.lifecycle>> \in past'
         /\ past' \subseteq (Nat \ {0}) \X Lifecycles
<1>1. /\ cell \in Row /\ directory \in Row /\ row \in Row /\ past \subseteq (Nat \ {0}) \X Lifecycles
      /\ RowsInv
  BY DEF Inv, TypeOK, After
<1>2. cell' = row /\ directory' = directory /\ past' = past \union {<<row.version, row.lifecycle>>}
  BY DEF SetCell
<1>3. Grows
  BY <1>1, <1>2 DEF Grows, After, Leq, Row
<1>4. Leq(directory, cell)' /\ \A p \in past' : p[1] <= cell'.version
  <2>1. Leq(directory, row)
    BY <1>1 DEF RowsInv, After, Leq, Row
  <2>2. \A p \in past : p[1] <= row.version
    BY <1>1 DEF RowsInv, After, Leq, Row
  <2>3. QED BY <1>1, <1>2, <2>1, <2>2 DEF Leq, Row
<1>5. Had(directory)' /\ Had(cell)' /\ Had(NewRow)'
  BY <1>1, <1>2 DEF RowsInv, Had, NewRow
<1>6. \A v \in past : v[1] = row.version => v = <<row.version, row.lifecycle>>
  <2> SUFFICES ASSUME NEW v \in past, v[1] = row.version PROVE v = <<row.version, row.lifecycle>>
    OBVIOUS
  <2>1. row.version = cell.version
    BY <1>1 DEF RowsInv, After, Leq, Row
  <2>2. row.lifecycle = cell.lifecycle
    BY <2>1 DEF After
  <2>3. <<cell.version, cell.lifecycle>> \in past
    BY <1>1 DEF RowsInv, Had
  <2>4. QED BY <1>1, <2>1, <2>2, <2>3 DEF RowsInv
<1>7. \A v, w \in past' : v[1] = w[1] => v = w
  <2>1. \A v, w \in past : v[1] = w[1] => v = w
    BY <1>1 DEF RowsInv
  <2>2. QED BY <1>2, <1>6, <2>1
<1>8. RowsInv'
  BY <1>4, <1>5, <1>7 DEF RowsInv
<1>9. QED BY <1>1, <1>2, <1>3, <1>8 DEF Row

LEMMA RepairKeeps == ASSUME Inv, NEW c \in Callers, Repair(c) PROVE Inv'
<1>1. /\ call[c].pc = "repair" /\ Goto(c, "compare") /\ PlaceInv(c) /\ CopiesInv(c) /\ cell \in Row
      /\ UNCHANGED <<directory, revoked, lease, calls>> /\ lease \in Callers \union {None, Lost}
  BY Types DEF Repair, At
<1>2. /\ Only(c) /\ Keeps(c) /\ call'[c].pc = "compare"
      /\ call'[c].space = call[c].space /\ call'[c].local = call[c].local
  BY <1>1, GotoFields DEF Inv, Pcs
<1>3. CASE UNCHANGED <<cell, past, faults>>
  <2>1. MayGo(c, "compare") /\ LeaseMay(c, "compare") /\ Bounds
    BY <1>1, <1>3, SameBounds DEF MayGo, LeaseMay, PlaceInv, Settled, Pcs, Held
  <2>2. QED BY <1>1, <1>3, <2>1, MoveKeeps
<1>4. CASE Fault /\ SetCell([cell EXCEPT !.version = @ + 1])
  <2>1. After([cell EXCEPT !.version = @ + 1])
    BY <1>1 DEF After, Leq, Row
  <2>2. /\ RowsInv' /\ Grows /\ cell' \in Row /\ past' \subseteq (Nat \ {0}) \X Lifecycles
    BY <1>1, <1>4, <2>1, CellGrows
  <2>3. Bounds
    BY <1>1, <1>4, FaultBounds
  <2>4. TypeOK'
    BY <1>1, <1>2, <2>2, <2>3, DirectoryAssumption DEF Inv, TypeOK, Only, Call, Bounds, Held
  <2>5. CopiesInv(c)'
    <3>1. call[c].local \in Row /\ call[c].space \in Row
      BY Types
    <3>2. QED BY <1>1, <1>2, <2>2, <3>1 DEF CopiesInv, Grows, Leq, Had, Row
  <2>6. PlaceInv(c)'
    BY <1>1, <1>2 DEF PlaceInv, Keeps, Settled
  <2>7. QED BY <1>2, <2>2, <2>4, <2>5, <2>6, StepKeeps
<1>5. QED BY <1>3, <1>4 DEF Repair

(* What a request publishes, should it have committed row. *)
Shown(c, row) == IF call[c].kind = "revoke" THEN call[c].space.lifecycle ELSE row.lifecycle

LEMMA CommitKeeps ==
  ASSUME NEW c \in Callers, NEW row, NEW pc \in {"publish", "setFence", "tombstone"},
         Inv, Commit(c, row, pc), After(row), lease # c, revoked' \in BOOLEAN,
         UNCHANGED <<directory, lease, calls>>,
         call[c].kind = "revoke" => pc = "publish",
         pc = "publish" =>
            /\ call[c].space.version <= row.version
            /\ <<row.version, Shown(c, row)>> \in past'
            /\ call[c].space.lifecycle # "deleted",
         pc = "setFence" => Leq(call[c].space, row) /\ call[c].space.lifecycle # "deleted"
  PROVE  Inv'
<1>1. SetCell(row) /\ row \in Row /\ cell' = row
  BY DEF Commit, After, SetCell
<1>2. /\ RowsInv' /\ Grows /\ cell' \in Row /\ <<row.version, row.lifecycle>> \in past'
      /\ past' \subseteq (Nat \ {0}) \X Lifecycles
  BY <1>1, CellGrows
<1>3. /\ call[c] \in Call /\ CopiesInv(c) /\ PlaceInv(c)
      /\ call[c].space \in Row /\ call[c].local \in Row /\ cell \in Row
  BY Types
<1>4. CASE call' = [call EXCEPT ![c].pc = pc, ![c].local = row] /\ UNCHANGED faults
  <2> DEFINE q == [call[c] EXCEPT !.pc = pc, !.local = row]
  <2>1. call' = [call EXCEPT ![c] = q]
    BY <1>4
  <2>2. /\ q \in Call /\ q.pc = pc /\ q.kind = call[c].kind
        /\ q.space = call[c].space /\ q.local = row
    BY <1>1, <1>3 DEF Call, Pcs
  <2> HIDE DEF q
  <2>3. Only(c) /\ call'[c] = q
    BY <2>1, <2>2 DEF Only, Inv, TypeOK, Call
  <2>4. Bounds
    BY <1>4, SameBounds
  <2>5. TypeOK'
    BY <1>2, <2>2, <2>3, <2>4, DirectoryAssumption DEF Inv, TypeOK, Only, Call, Bounds, Held
  <2>6. CopiesInv(c)'
    BY <1>1, <1>2, <1>3, <2>2, <2>3 DEF CopiesInv, Grows, Leq, Had, Row
  <2>7. Published(c)'.lifecycle = Shown(c, row)
    BY <1>3, <2>2, <2>3 DEF Published, Shown, Prior, Row
  <2>8. PlaceInv(c)'
    BY <2>2, <2>3, <2>7 DEF PlaceInv, Settled
  <2>9. QED BY <1>2, <2>3, <2>5, <2>6, <2>8, StepKeeps
<1>5. CASE Fault /\ Goto(c, "threw")
  <2>1. /\ Only(c) /\ Keeps(c) /\ call'[c].pc = "threw"
        /\ call'[c].space = call[c].space /\ call'[c].local = call[c].local
    BY <1>5, GotoFields DEF Inv, Pcs
  <2>2. Bounds
    BY <1>5, FaultBounds
  <2>3. TypeOK'
    BY <1>2, <2>1, <2>2, DirectoryAssumption DEF Inv, TypeOK, Only, Call, Bounds, Held
  <2>4. CopiesInv(c)'
    BY <1>1, <1>2, <1>3, <2>1 DEF CopiesInv, Grows, Leq, Had, Row
  <2>5. PlaceInv(c)'
    BY <2>1 DEF PlaceInv, Settled
  <2>6. QED BY <1>2, <2>1, <2>3, <2>4, <2>5, StepKeeps
<1>6. QED BY <1>4, <1>5 DEF Commit

(* Copies of one version show one lifecycle. *)
LEMMA SameVersion ==
  ASSUME Inv, NEW c \in Callers
  PROVE  /\ cell.version = call[c].space.version => cell.lifecycle = call[c].space.lifecycle
         /\ directory.version = call[c].space.version => directory.lifecycle = call[c].space.lifecycle
         /\ call[c].space.version <= cell.version
<1>1. CopiesInv(c) /\ RowsInv /\ cell \in Row /\ directory \in Row /\ call[c].space \in Row
  BY Types DEF Inv
<1>2. /\ <<cell.version, cell.lifecycle>> \in past
      /\ <<directory.version, directory.lifecycle>> \in past
      /\ <<call[c].space.version, call[c].space.lifecycle>> \in past
  BY <1>1 DEF CopiesInv, RowsInv, Had
<1>3. \A v, w \in past : v[1] = w[1] => v = w
  BY <1>1 DEF RowsInv
<1>4. \A a, b, x, y : <<a, x>> \in past /\ <<b, y>> \in past /\ a = b => x = y
  <2> SUFFICES ASSUME NEW a, NEW b, NEW x, NEW y, <<a, x>> \in past, <<b, y>> \in past, a = b
               PROVE  x = y
    OBVIOUS
  <2>1. <<a, x>>[1] = <<b, y>>[1]
    OBVIOUS
  <2>2. <<a, x>> = <<b, y>>
    BY <1>3, <2>1
  <2>3. QED BY <2>2
<1>5. call[c].space.version <= cell.version
  BY <1>1 DEF CopiesInv, RowsInv, Leq, Row
<1>6. QED BY <1>2, <1>4, <1>5

(* A row's next version under another lifecycle. *)
LEMMA NextRow ==
  ASSUME NEW r \in Row, NEW l \in Lifecycles
  PROVE  LET n == [r EXCEPT !.lifecycle = l, !.version = @ + 1]
         IN  n \in Row /\ n.version = r.version + 1 /\ n.generation = r.generation
<1> DEFINE v == r.version + 1
<1>1. v \in Nat \ {0} /\ r.generation \in Nat \ {0}
  BY DEF Row
<1> HIDE DEF v
<1> DEFINE m == [r EXCEPT !.lifecycle = l]
<1>2. m \in Row /\ m.version = r.version /\ m.generation = r.generation
  BY DEF Row
<1> HIDE DEF m
<1> DEFINE n == [m EXCEPT !.version = v]
<1>3. n \in Row /\ n.version = v /\ n.generation = r.generation
  BY <1>1, <1>2 DEF Row
<1>4. QED BY <1>2, <1>3 DEF m, v

(* The transitions in the cell. *)
LEMMA TransitionKeeps == ASSUME Inv, NEW c \in Callers, Transition(c) PROVE Inv'
<1> DEFINE row == [cell EXCEPT !.lifecycle = call[c].want, !.version = @ + 1]
<1>1. /\ call[c].pc = "transition" /\ call[c] \in Call /\ PlaceInv(c) /\ cell \in Row /\ lease # c
      /\ UNCHANGED <<directory, revoked, lease, calls>> /\ revoked \in BOOLEAN
      /\ call[c].space \in Row
  BY Types DEF Transition, At, Held, Inv, TypeOK
<1>2. CASE DecidedOn(c) /\ Commit(c, row, "publish")
  <2>1. After(row) /\ call[c].space.version <= row.version
    <3>1. call[c].want \in Lifecycles /\ cell.version = call[c].space.version
      BY <1>1, <1>2 DEF Call, DecidedOn
    <3>2. row \in Row /\ row.version = cell.version + 1 /\ row.generation = cell.generation
      BY <1>1, <3>1, NextRow
    <3> HIDE DEF row
    <3>3. QED BY <1>1, <3>1, <3>2 DEF After, Leq, Row
  <2>2. call[c].kind # "revoke" /\ call[c].space.lifecycle # "deleted"
    BY <1>1 DEF PlaceInv
  <2>3. <<row.version, Shown(c, row)>> \in past'
    BY <1>2, <2>2 DEF Commit, SetCell, Shown
  <2> HIDE DEF row
  <2>4. QED BY <1>1, <1>2, <2>1, <2>2, <2>3, CommitKeeps
<1>3. CASE Stale(c)
  <2>1. Bounds
    BY <1>1, <1>3, SameBounds DEF Stale
  <2>2. QED BY <1>1, <1>3, <2>1, GivesUp DEF Stale
<1>4. QED BY <1>2, <1>3 DEF Transition

LEMMA RevokeKeyKeeps == ASSUME Inv, NEW c \in Callers, RevokeKey(c) PROVE Inv'
<1> DEFINE row == [cell EXCEPT !.version = @ + 1]
<1>1. /\ call[c].pc = "key" /\ call[c] \in Call /\ PlaceInv(c) /\ cell \in Row /\ lease # c
      /\ UNCHANGED <<directory, lease, calls>> /\ revoked \in BOOLEAN
      /\ call[c].space \in Row
  BY Types DEF RevokeKey, At, Held, Inv, TypeOK
<1>2. CASE Revocable(c) /\ Commit(c, row, "publish") /\ revoked' = TRUE
  <2>1. After(row) /\ call[c].space.version <= row.version /\ row.lifecycle = cell.lifecycle
    BY <1>1, <1>2 DEF After, Leq, Row, Revocable
  <2>2. cell.lifecycle = call[c].space.lifecycle /\ call[c].space.lifecycle # "deleted"
    BY <1>1, <1>2, SameVersion DEF PlaceInv, Revocable
  <2>3. <<row.version, Shown(c, row)>> \in past'
    BY <1>2, <2>1, <2>2 DEF Commit, SetCell, Shown
  <2> HIDE DEF row
  <2>4. QED BY <1>1, <1>2, <2>1, <2>2, <2>3, CommitKeeps
<1>3. CASE Stale(c) /\ UNCHANGED revoked
  <2>1. Bounds
    BY <1>1, <1>3, SameBounds DEF Stale
  <2>2. QED BY <1>1, <1>3, <2>1, GivesUp DEF Stale
<1>4. QED BY <1>2, <1>3 DEF RevokeKey

LEMMA FenceKeeps == ASSUME Inv, NEW c \in Callers, Fence(c) PROVE Inv'
<1> DEFINE row == [cell EXCEPT !.generation = @ + 1]
<1>1. /\ call[c].pc = "fence" /\ call[c] \in Call /\ PlaceInv(c) /\ CopiesInv(c) /\ cell \in Row
      /\ lease # c /\ directory \in Row /\ RowsInv
      /\ UNCHANGED <<directory, revoked, lease, calls>> /\ revoked \in BOOLEAN
      /\ call[c].space \in Row
  BY Types DEF Fence, At, Held, Inv, TypeOK
<1>2. CASE Commit(c, row, "setFence")
  <2>1. After(row)
    BY <1>1 DEF After, Leq, Row
  <2>2. Leq(call[c].space, row)
    BY <1>1 DEF CopiesInv, RowsInv, Leq, Row
  <2>3. call[c].kind # "revoke" /\ call[c].space.lifecycle # "deleted"
    BY <1>1 DEF PlaceInv
  <2> HIDE DEF row
  <2>4. QED BY <1>1, <1>2, <2>1, <2>2, <2>3, CommitKeeps
<1>3. CASE Stale(c)
  <2>1. Bounds
    BY <1>1, <1>3, SameBounds DEF Stale
  <2>2. QED BY <1>1, <1>3, <2>1, GivesUp DEF Stale
<1>4. QED BY <1>2, <1>3 DEF Fence

LEMMA PurgeKeeps == ASSUME Inv, NEW c \in Callers, Purge(c) PROVE Inv'
<1> DEFINE row == [cell EXCEPT !.lifecycle = "deleted", !.version = @ + 1]
<1>1. /\ call[c].pc = "purge" /\ call[c] \in Call /\ PlaceInv(c) /\ cell \in Row /\ lease # c
      /\ UNCHANGED <<directory, revoked, lease, calls>> /\ revoked \in BOOLEAN
  BY Types DEF Purge, At, Held, Inv, TypeOK
<1>2. CASE Commit(c, row, "tombstone")
  <2>1. After(row)
    <3>1. row \in Row /\ row.version = cell.version + 1 /\ row.generation = cell.generation
      BY <1>1, NextRow DEF Lifecycles
    <3> HIDE DEF row
    <3>2. QED BY <1>1, <3>1 DEF After, Leq, Row
  <2>2. call[c].kind # "revoke"
    BY <1>1 DEF PlaceInv
  <2> HIDE DEF row
  <2>3. QED BY <1>1, <1>2, <2>1, <2>2, CommitKeeps
<1>3. CASE Stale(c)
  <2>1. Bounds
    BY <1>1, <1>3, SameBounds DEF Stale
  <2>2. QED BY <1>1, <1>3, <2>1, GivesUp DEF Stale
<1>4. QED BY <1>2, <1>3 DEF Purge

(* The transitions in the directory. *)
LEMMA SetRowKeeps == ASSUME Inv, NEW c \in Callers, SetRow(c) PROVE Inv'
<1>1. /\ call[c].pc \in {"setRow", "setFence"} /\ call[c] \in Call /\ PlaceInv(c) /\ CopiesInv(c)
      /\ cell \in Row /\ directory \in Row /\ RowsInv
      /\ UNCHANGED <<cell, past, revoked, calls, faults>> /\ Bounds
      /\ lease' = LeaseAfter(c) /\ lease' # c /\ lease' \in {lease, None, Lost}
      /\ call[c].space \in Row /\ call[c].local \in Row
  BY Types, SameBounds DEF SetRow, At, Inv, LeaseAfter
<1>2. CASE /\ SameRow(c)
           /\ directory' = call[c].local
           /\ call' = [call EXCEPT ![c].space = call[c].local, ![c].token = "none",
                                   ![c].pc = IF @ = "setFence" THEN "done" ELSE "checked"]
  <2> DEFINE pc == IF call[c].pc = "setFence" THEN "done" ELSE "checked"
  <2> DEFINE q == [call[c] EXCEPT !.space = call[c].local, !.token = "none", !.pc = pc]
  <2>1. call' = [call EXCEPT ![c] = q]
    BY <1>2
  <2>2. pc \in {"done", "checked"}
    OBVIOUS
  <2> HIDE DEF pc
  <2>3. /\ q \in Call /\ q.pc = pc /\ q.kind = call[c].kind
        /\ q.space = call[c].local /\ q.local = call[c].local
    BY <1>1, <2>2 DEF Call, Pcs
  <2> HIDE DEF q
  <2>4. Only(c) /\ call'[c] = q
    BY <2>1, <2>3 DEF Only, Inv, TypeOK, Call
  <2>5. TypeOK'
    BY <1>1, <1>2, <2>3, <2>4, DirectoryAssumption DEF Inv, TypeOK, Only, Call, Bounds, Held
  <2>6. RowsInv'
    BY <1>1, <1>2 DEF RowsInv, CopiesInv, Leq, Had
  <2>7. Grows
    BY <1>1, <1>2 DEF PlaceInv, SameRow, Grows, Leq, Row
  <2>8. CopiesInv(c)'
    <3>1. Leq(call[c].local, call[c].local) /\ Leq(call[c].local, cell) /\ Had(call[c].local)
      BY <1>1 DEF CopiesInv, Leq, Row
    <3>2. call'[c].space = call[c].local /\ call'[c].local = call[c].local /\ directory' = call[c].local
      BY <1>2, <2>3, <2>4
    <3>3. QED BY <1>1, <3>1, <3>2 DEF CopiesInv, Leq, Had
  <2>9. PlaceInv(c)'
    BY <1>1, <1>2, <2>2, <2>3, <2>4 DEF PlaceInv, Settled, Row
  <2>10. QED BY <2>4, <2>5, <2>6, <2>7, <2>8, <2>9, StepKeeps
<1>3. CASE Goto(c, "threw") /\ UNCHANGED directory
  BY <1>1, <1>3, GivesUp
<1>4. QED BY <1>2, <1>3 DEF SetRow

(* The compare-and-swap on the versions read means that the lifecycle read is
   the directory's too, so what is published is not behind it. *)
LEMMA PublishKeeps == ASSUME Inv, NEW c \in Callers, Publish(c) PROVE Inv'
<1>1. /\ call[c].pc = "publish" /\ call[c] \in Call /\ PlaceInv(c) /\ CopiesInv(c) /\ lease # c
      /\ cell \in Row /\ directory \in Row /\ RowsInv /\ Unpublished(c) /\ directory' = Published(c)
      /\ UNCHANGED <<cell, past, revoked, lease, calls>>
      /\ call[c].space \in Row /\ call[c].local \in Row
  BY Types DEF Publish, At, Inv, Held
<1>2. PICK pc \in {"published", "threw"} : Goto(c, pc) /\ (UNCHANGED faults \/ Fault)
  BY DEF Publish
<1>3. /\ Only(c) /\ Keeps(c) /\ call'[c].pc = pc
      /\ call'[c].space = call[c].space /\ call'[c].local = call[c].local
  BY <1>2, GotoFields DEF Inv, Pcs
<1>4. Bounds
  BY <1>1, <1>2, SameBounds, FaultBounds
<1>5. /\ Published(c) \in Row /\ Published(c).version = call[c].local.version
      /\ Published(c).generation = call[c].space.generation
  BY <1>1 DEF Published, Prior, Row
<1>6. TypeOK'
  BY <1>1, <1>3, <1>4, <1>5, DirectoryAssumption DEF Inv, TypeOK, Only, Call, Bounds, Held
<1>7. <<Published(c).version, Published(c).lifecycle>> \in past
  BY <1>1, <1>5 DEF PlaceInv
<1>8. RowsInv'
  BY <1>1, <1>5, <1>7 DEF RowsInv, CopiesInv, Leq, Had, Row, Unpublished
<1>9. Grows
  BY <1>1, <1>5 DEF PlaceInv, Unpublished, Grows, Leq, Row
<1>10. CopiesInv(c)'
  <2>1. Leq(call[c].space, Published(c))
    BY <1>1, <1>5 DEF PlaceInv, Leq, Row
  <2>2. QED BY <1>1, <1>3, <2>1 DEF CopiesInv, Leq, Had
<1>11. PlaceInv(c)'
  BY <1>1, <1>2, <1>3, <1>5 DEF PlaceInv, Keeps, Settled, Row
<1>12. QED BY <1>3, <1>6, <1>8, <1>9, <1>10, <1>11, StepKeeps

----------------------------------------------------------------------------
LEMMA InitInv == Init => Inv
<1> SUFFICES ASSUME Init PROVE Inv
  OBVIOUS
<1>1. NewRow \in Row /\ NewRow.version = 1 /\ NewRow.lifecycle = "active" /\ NewRow.generation = 1
  BY DEF NewRow, Row, Lifecycles
<1>2. /\ NoCall \in Call /\ NoCall.space = NewRow /\ NoCall.local = NewRow /\ NoCall.pc = "idle"
      /\ NoCall.kind = "change"
  BY <1>1 DEF NoCall, Call, Pcs, Kinds, Lifecycles
<1>3. /\ cell \in Row /\ cell.version \in {1, 2} /\ cell.generation = 1 /\ directory = cell
      /\ past = {<<1, "active">>} \union {<<cell.version, cell.lifecycle>>}
      /\ cell.version = 1 => cell.lifecycle = "active"
      /\ \A c \in Callers : call[c] = NoCall
  BY <1>1 DEF Init, NewRow, ArchivedRow, Row, Lifecycles
<1>4. TypeOK
  <2>1. past \subseteq (Nat \ {0}) \X Lifecycles
    BY <1>3 DEF Row, Lifecycles
  <2>2. call \in [Callers -> Call]
    BY <1>2 DEF Init
  <2>3. /\ revoked \in BOOLEAN /\ lease = None
        /\ calls \in [Callers -> 0 .. MaxCalls] /\ faults \in 0 .. MaxFaults
    <3>1. 0 \in 0 .. MaxCalls /\ 0 \in 0 .. MaxFaults
      BY DirectoryAssumption
    <3>2. QED BY <3>1 DEF Init
  <2>4. QED BY <1>1, <1>3, <2>1, <2>2, <2>3, DirectoryAssumption DEF TypeOK, Call
<1>5. RowsInv
  BY <1>1, <1>3 DEF RowsInv, Leq, Had
<1>6. ASSUME NEW c \in Callers PROVE CopiesInv(c) /\ PlaceInv(c)
  BY <1>1, <1>2, <1>3 DEF CopiesInv, PlaceInv, Leq, Had, Settled
<1>7. QED BY <1>4, <1>5, <1>6 DEF Inv

LEMMA NextInv == Inv /\ [Next]_vars => Inv'
<1> SUFFICES ASSUME Inv, [Next]_vars PROVE Inv'
  OBVIOUS
<1>1. ASSUME NEW c \in Callers, RequestNext(c) PROVE Inv'
  <2>1. CASE Retry(c) \/ Observe(c) \/ Locate(c) \/ Erase(c) \/ Tombstone(c) \/ Claim(c) \/ Compare(c)
    BY <2>1, RetryKeeps, ObserveKeeps, LocateKeeps, EraseKeeps, TombstoneKeeps, ClaimKeeps, CompareKeeps
  <2>2. CASE Recover(c) \/ Route(c) \/ KeyRevoked(c) \/ KeyGone(c) \/ Inspect(c) \/ ReadBack(c) \/ Finish(c)
    BY <2>2, RecoverKeeps, RouteKeeps, KeyRevokedKeeps, KeyGoneKeeps, InspectKeeps, ReadBackKeeps, FinishKeeps
  <2>3. CASE DecideChange(c) \/ DecideDelete(c) \/ DecideFence(c) \/ DecideRevoke(c)
    BY <2>3, DecideChangeKeeps, DecideDeleteKeeps, DecideFenceKeeps, DecideRevokeKeeps
  <2>4. CASE Repair(c) \/ Transition(c) \/ RevokeKey(c) \/ Fence(c) \/ Purge(c)
    BY <2>4, RepairKeeps, TransitionKeeps, RevokeKeyKeeps, FenceKeeps, PurgeKeeps
  <2>5. CASE SetRow(c) \/ Publish(c)
    BY <2>5, SetRowKeeps, PublishKeeps
  <2>6. QED BY <1>1, <2>1, <2>2, <2>3, <2>4, <2>5 DEF RequestNext
<1>2. ASSUME NEW c \in Callers, Begin(c) \/ Throw(c) \/ Crash(c) PROVE Inv'
  BY <1>2, BeginKeeps, FaultKeeps
<1>3. CASE ExpireLease
  BY <1>3, ExpireKeeps
<1>4. CASE UNCHANGED vars
  <2>1. TypeOK' /\ RowsInv'
    BY <1>4 DEF vars, Inv, TypeOK, RowsInv, Leq, Had
  <2>2. ASSUME NEW c \in Callers PROVE CopiesInv(c)' /\ PlaceInv(c)'
    BY <1>4 DEF vars, Inv, CopiesInv, PlaceInv, Leq, Had, Published, Prior
  <2>3. QED BY <2>1, <2>2 DEF Inv
<1>5. QED BY <1>1, <1>2, <1>3, <1>4 DEF Next

LEMMA InvHolds == Spec => []Inv
<1>1. Init => Inv
  BY InitInv
<1>2. Inv /\ [Next]_vars => Inv'
  BY NextInv
<1>3. QED BY <1>1, <1>2, PTL DEF Spec

(* Every variable keeps its type, and only a running reconciliation holds the
   directory's lease. *)
THEOREM TypeCorrect == Spec => []TypeOK
<1>1. Inv => TypeOK
  BY DEF Inv
<1>2. QED BY <1>1, InvHolds, PTL

(* The directory is never ahead of the cell and shows, at a policy version,
   the lifecycle the cell had at it. *)
THEOREM DirectoryTells == Spec => []DirectoryHolds
<1>1. Inv => DirectoryTellsPast
  BY DEF Inv, RowsInv, DirectoryTellsPast, Leq, Had
<1>2. Inv => DirectoryHolds
  BY <1>1 DEF Inv, DirectoryHolds
<1>3. QED BY <1>2, InvHolds, PTL

(* An answer means the directory is at or past the version that answers. *)
THEOREM AnsweredPublished == Spec => []AnsweredMeansPublished
<1>1. Inv => AnsweredMeansPublished
  <2> SUFFICES ASSUME Inv, NEW c \in Callers, call[c].pc = "done", call[c].kind # "fence"
               PROVE  directory.version >= call[c].local.version
    BY DEF AnsweredMeansPublished, At
  <2>1. call[c].local.version <= directory.version
    BY Types DEF PlaceInv, Settled
  <2>2. directory.version \in Nat /\ call[c].local.version \in Nat
    BY Types DEF Row
  <2>3. QED BY <2>1, <2>2
<1>2. QED BY <1>1, InvHolds, PTL

(* What a step of a state that satisfies Inv does to the two rows. *)
LEMMA StepAdvances ==
  ASSUME Inv, Inv', [Next]_vars
  PROVE  /\ directory'.version >= directory.version /\ directory'.generation >= directory.generation
         /\ directory.lifecycle = "deleted" => directory'.lifecycle = "deleted"
         /\ cell.lifecycle = "deleted" => cell'.lifecycle = "deleted"
<1>1. /\ cell \in Row /\ directory \in Row /\ cell' \in Row /\ directory' \in Row
  BY DEF Inv, TypeOK
<1>2. ASSUME NEW c \in Callers, SetRow(c)
      PROVE  /\ Leq(directory, directory')
             /\ directory.lifecycle = "deleted" => directory'.lifecycle = "deleted"
  <2>1. CASE SameRow(c) /\ directory' = call[c].local
    BY <1>1, <1>2, <2>1, Types DEF SetRow, At, SameRow, PlaceInv, Leq
  <2>2. CASE UNCHANGED directory
    BY <1>1, <2>2 DEF Leq, Row
  <2>3. QED BY <1>2, <2>1, <2>2 DEF SetRow
<1>3. ASSUME NEW c \in Callers, Publish(c)
      PROVE  /\ Leq(directory, directory')
             /\ directory.lifecycle = "deleted" => directory'.lifecycle = "deleted"
  <2>1. /\ call[c].pc = "publish" /\ directory' = Published(c) /\ PlaceInv(c)
        /\ directory.version = call[c].space.version /\ directory.generation = call[c].space.generation
        /\ call[c].space \in Row /\ call[c].local \in Row
    BY <1>3, Types DEF Publish, At, Unpublished
  <2>2. Published(c).version = call[c].local.version /\ Published(c).generation = call[c].space.generation
    BY <2>1 DEF Published, Row
  <2>3. Leq(directory, directory')
    BY <1>1, <2>1, <2>2 DEF PlaceInv, Leq, Row
  <2>4. directory.lifecycle = call[c].space.lifecycle
    BY <2>1, SameVersion
  <2>5. QED BY <2>1, <2>3, <2>4 DEF PlaceInv
<1>4. ASSUME NEW c \in Callers, Begin(c) \/ RequestNext(c) \/ Throw(c) \/ Crash(c),
             ~SetRow(c), ~Publish(c)
      PROVE  UNCHANGED directory
  <2>1. CASE Begin(c) \/ Throw(c) \/ Crash(c)
    BY <2>1 DEF Begin, Request, Throw, Crash
  <2>2. CASE RequestNext(c)
    BY <1>4, <2>2 DEF RequestNext, Retry, Observe, Recover, Route, Claim, Locate, Repair, Compare,
       DecideChange, DecideDelete, DecideFence, DecideRevoke, Transition, RevokeKey, KeyRevoked,
       KeyGone, Fence, Erase, Inspect, Purge, Tombstone, ReadBack, Finish
  <2>3. QED BY <1>4, <2>1, <2>2
<1>5. /\ Leq(directory, directory')
      /\ directory.lifecycle = "deleted" => directory'.lifecycle = "deleted"
  <2>1. CASE UNCHANGED directory
    BY <1>1, <2>1 DEF Leq, Row
  <2>2. CASE \E c \in Callers : SetRow(c) \/ Publish(c)
    BY <1>2, <1>3, <2>2
  <2>3. CASE ExpireLease \/ UNCHANGED vars
    BY <2>1, <2>3 DEF ExpireLease, vars
  <2>4. QED BY <1>4, <2>1, <2>2, <2>3 DEF Next
<1>6. ASSUME cell.lifecycle = "deleted" PROVE cell'.lifecycle = "deleted"
  <2>1. CASE UNCHANGED cell
    BY <1>6, <2>1
  <2>2. ASSUME NEW c \in Callers, Repair(c) PROVE cell'.lifecycle = "deleted"
    BY <1>6, <2>1, <2>2 DEF Repair
  <2>3. ASSUME NEW c \in Callers, Transition(c) PROVE cell'.lifecycle = "deleted"
    <3>1. call[c].space.lifecycle # "deleted"
      BY <2>3, Types DEF Transition, At, PlaceInv
    <3>2. Stale(c)
      BY <1>6, <2>3, <3>1 DEF Transition, DecidedOn, Prior
    <3>3. QED BY <1>6, <3>2 DEF Stale
  <2>4. ASSUME NEW c \in Callers, Fence(c) PROVE cell'.lifecycle = "deleted"
    <3>1. CASE SetCell([cell EXCEPT !.generation = @ + 1])
      BY <1>1, <1>6, <3>1 DEF SetCell, Row
    <3>2. CASE Stale(c)
      BY <1>6, <3>2 DEF Stale
    <3>3. QED BY <2>4, <3>1, <3>2 DEF Fence, Commit
  <2>5. ASSUME NEW c \in Callers, RevokeKey(c) \/ Purge(c) PROVE cell'.lifecycle = "deleted"
    BY <1>6, <2>5 DEF RevokeKey, Purge, Stale
  <2>6. ASSUME NEW c \in Callers, Begin(c) \/ RequestNext(c) \/ Throw(c) \/ Crash(c),
               ~Repair(c), ~Transition(c), ~Fence(c), ~RevokeKey(c), ~Purge(c)
        PROVE  UNCHANGED cell
    <3>1. CASE Begin(c) \/ Throw(c) \/ Crash(c)
      BY <3>1 DEF Begin, Request, Throw, Crash
    <3>2. CASE RequestNext(c)
      BY <2>6, <3>2 DEF RequestNext, Retry, Observe, Recover, Route, Claim, Locate, Compare, SetRow,
         DecideChange, DecideDelete, DecideFence, DecideRevoke, KeyRevoked,
         KeyGone, Erase, Inspect, Tombstone, Publish, ReadBack, Finish
    <3>3. QED BY <2>6, <3>1, <3>2
  <2>7. CASE ExpireLease \/ UNCHANGED vars
    BY <2>1, <2>7 DEF ExpireLease, vars
  <2>8. QED BY <2>1, <2>2, <2>3, <2>4, <2>5, <2>6, <2>7 DEF Next
<1>7. QED BY <1>1, <1>5, <1>6 DEF Leq, Row

(* No publication, reconciliation or fence, however late, moves the directory
   back or revives a deleted space. *)
THEOREM DirectoryAdvances == Spec => DirectoryOnlyAdvances
<1>1. Inv /\ Inv' /\ [Next]_vars =>
        [/\ directory'.version >= directory.version /\ directory'.generation >= directory.generation
         /\ directory.lifecycle = "deleted" => directory'.lifecycle = "deleted"
         /\ cell.lifecycle = "deleted" => cell'.lifecycle = "deleted"]_vars
  BY StepAdvances
<1>2. QED BY <1>1, InvHolds, PTL DEF Spec, DirectoryOnlyAdvances
=============================================================================
