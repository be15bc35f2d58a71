---------------------------- MODULE DispatchLocks ----------------------------
(******************************************************************************)
(* The row locks a dispatch claim (outbox.ts claim), a projection's           *)
(* completion (index.ts completeProjection) and a space's purge (spaces.ts    *)
(* purgeSpace, migration 049) take, statement by statement.  A space has one  *)
(* outbox row, one projection head and one rotation row; a lock is held to    *)
(* the end of its transaction and what a purge deletes is gone at its commit. *)
(******************************************************************************)
EXTENDS Naturals, FiniteSets

CONSTANTS Claims, Completions,  \* transactions that may run at once
          Spaces,      \* space ids, in their order
          FirstLives,  \* lifecycles a space may start in
          MaxSteps     \* bounds lifecycle changes and new rows

Purges == {<<"purge", s>> : s \in Spaces}

ASSUME DispatchLocksAssumption ==
  /\ Spaces \subseteq Nat \ {0} /\ MaxSteps \in Nat
  /\ Claims \cap Completions = {} /\ (Claims \cup Completions) \cap Purges = {}

Sessions == Claims \union Completions \union Purges

VARIABLES life, row, head, rotation,  \* committed rows of each space
          session, locks,  \* each transaction's step, and the <<session, kind, space, mode>> locks held
          steps

vars == <<life, row, head, rotation, session, locks, steps>>

Ended == [pc |-> "idle", todo |-> {}, seen |-> {}, on |-> 0]

Init ==
  /\ life \in [Spaces -> FirstLives] /\ row \in [Spaces -> {"due", "none"}]
  /\ head = [s \in Spaces |-> FALSE] /\ rotation \in [Spaces -> BOOLEAN]
  /\ session = [t \in Sessions |-> Ended] /\ locks = {} /\ steps = 0

Open(s) == life[s] \in {"active", "readOnly"}
(* "key" is FOR KEY SHARE, "share" FOR SHARE, "write" an update that keeps the key, "update" a deletion or FOR UPDATE. *)
Conflict(m, n) == "update" \in {m, n} \/ {m, n} = {"share", "write"}
Holders(t, kind, s, mode) == {l[1] : l \in {k \in locks : k[1] # t /\ k[2] = kind /\ k[3] = s /\ Conflict(k[4], mode)}}
Free(t, kind, s, mode) == Holders(t, kind, s, mode) = {}
Take(t, kind, s, mode) == Free(t, kind, s, mode) /\ locks' = locks \union {<<t, kind, s, mode>>}
Goto(t, x) == session' = [session EXCEPT ![t] = x]
Finish(t) == Goto(t, Ended) /\ locks' = {l \in locks : l[1] # t}
At(t, pc) == session[t].pc = pc
To(t, pc) == Goto(t, [session[t] EXCEPT !.pc = pc])
Lowest(t) == CHOOSE s \in session[t].todo : \A q \in session[t].todo : s <= q

-----------------------------------------------------------------------------
(* A claim: the cursor, its scanned spaces, its due rows, the rotation of the spaces served. *)

(* Wrong: no space is locked before the rows. *)
FencedNone(scanned) == {}
(* Spaces are locked before any outbox row, the open ones only. *)
Fenced(scanned) == {s \in scanned : Open(s)}

\* SKIP LOCKED: while another claim holds the cursor this one ends at once.
Cursor(c) ==
  /\ At(c, "idle") /\ Take(c, "cursor", 0, "update")
  /\ LET scanned == {s \in Spaces : row[s] # "none"}
     IN Goto(c, [Ended EXCEPT !.pc = "fence", !.todo = Fenced(scanned), !.seen = scanned])
  /\ UNCHANGED <<life, row, head, rotation, steps>>
\* In the order of their ids; one whose lifecycle changed meanwhile is left out.
Fence(c) ==
  /\ At(c, "fence") /\ session[c].todo # {}
  /\ Goto(c, [session[c] EXCEPT !.todo = @ \ {Lowest(c)}])
  /\ Free(c, "space", Lowest(c), "key")
  /\ locks' = IF Open(Lowest(c)) THEN locks \union {<<c, "space", Lowest(c), "key">>} ELSE locks
  /\ UNCHANGED <<life, row, head, rotation, steps>>
\* A fresh snapshot of the scanned spaces that are open and their due rows, passing over those others have locked.
Lease(c) ==
  LET picked == {s \in session[c].seen : row[s] = "due" /\ Open(s) /\ Free(c, "row", s, "update")} IN
  /\ At(c, "fence") /\ session[c].todo = {}
  /\ row' = [s \in Spaces |-> IF s \in picked THEN "leased" ELSE row[s]]
  /\ locks' = locks \union {<<c, "row", s, "update">> : s \in picked}
  /\ Goto(c, [Ended EXCEPT !.pc = "rotate", !.todo = picked])
  /\ UNCHANGED <<life, head, rotation, steps>>
\* An insert checks the space's row under FOR KEY SHARE; an update takes the rotation row.
Rotate(c) ==
  /\ At(c, "rotate") /\ session[c].todo # {} /\ LET s == Lowest(c) IN
       /\ IF rotation[s] THEN Free(c, "rotation", s, "update") ELSE Free(c, "space", s, "key")
       /\ locks' = locks \union {<<c, "rotation", s, "update">>} \union (IF rotation[s] THEN {} ELSE {<<c, "space", s, "key">>})
       /\ rotation' = [rotation EXCEPT ![s] = TRUE]
       /\ Goto(c, [session[c] EXCEPT !.todo = @ \ {s}])
  /\ UNCHANGED <<life, row, head, steps>>
Served(c) == At(c, "rotate") /\ session[c].todo = {} /\ Finish(c) /\ UNCHANGED <<life, row, head, rotation, steps>>

-----------------------------------------------------------------------------
(* A completion: the scope's fence, the lease, the head. *)

(* checkScope locks the space to the end of the transaction. *)
Scope(t, s) == Take(t, "space", s, "share")

Admit(t, s) ==
  /\ At(t, "idle") /\ row[s] = "leased" /\ Open(s) /\ Scope(t, s)
  /\ Goto(t, [Ended EXCEPT !.pc = "lease", !.on = s]) /\ UNCHANGED <<life, row, head, rotation, steps>>
Hold(t) ==
  LET s == session[t].on IN
  /\ At(t, "lease")
  /\ \/ row[s] = "leased" /\ Take(t, "row", s, "update") /\ To(t, "head")
     \/ row[s] # "leased" /\ Finish(t)
  /\ UNCHANGED <<life, row, head, rotation, steps>>
MoveHead(t) == /\ At(t, "head") /\ Take(t, "head", session[t].on, "update") /\ To(t, "done")
               /\ UNCHANGED <<life, row, head, rotation, steps>>
Deliver(t) == /\ At(t, "done") /\ Finish(t) /\ row' = [row EXCEPT ![session[t].on] = "none"]
              /\ head' = [head EXCEPT ![session[t].on] = TRUE] /\ UNCHANGED <<life, rotation, steps>>

-----------------------------------------------------------------------------
(* A purge: the space, its heads, its rotation, its rows; their deletion commits at the end. *)

Purge(s) ==
  LET t == <<"purge", s>> IN
  /\ At(t, "idle") /\ life[s] = "deleting" /\ Take(t, "space", s, "update") /\ To(t, "heads")
  /\ UNCHANGED <<life, row, head, rotation, steps>>
Deletes == [heads |-> <<"head", "rotation">>, rotation |-> <<"rotation", "rows">>, rows |-> <<"row", "commit">>]
There(kind, s) == CASE kind = "head" -> head[s] [] kind = "rotation" -> rotation[s] [] kind = "row" -> row[s] # "none"
Delete(s) ==
  LET t == <<"purge", s>> pc == session[t].pc IN
  /\ pc \in DOMAIN Deletes /\ To(t, Deletes[pc][2])
  /\ IF There(Deletes[pc][1], s) THEN Take(t, Deletes[pc][1], s, "update") ELSE UNCHANGED locks
  /\ UNCHANGED <<life, row, head, rotation, steps>>
Purged(s) ==
  LET t == <<"purge", s>> gone(kind) == <<t, kind, s, "update">> \in locks IN
  /\ At(t, "commit") /\ Finish(t) /\ life' = [life EXCEPT ![s] = "deleted"]
  /\ head' = [head EXCEPT ![s] = @ /\ ~gone("head")] /\ rotation' = [rotation EXCEPT ![s] = @ /\ ~gone("rotation")]
  /\ row' = [row EXCEPT ![s] = IF gone("row") THEN "none" ELSE @] /\ UNCHANGED steps

\* The owner changes the lifecycle; only an archived or suspended space is deleted.
Change(s, to) ==
  /\ steps < MaxSteps /\ steps' = steps + 1 /\ Free("owner", "space", s, "write")
  /\ life[s] \in {"active", "readOnly", "suspended"} /\ to # life[s] /\ (to = "deleting" => life[s] # "active")
  /\ life' = [life EXCEPT ![s] = to]
  /\ UNCHANGED <<row, head, rotation, session, locks>>
\* A write of the space's record, under its scope's lock.
Write(s) ==
  /\ steps < MaxSteps /\ steps' = steps + 1 /\ life[s] = "active" /\ Free("writer", "space", s, "share")
  /\ row[s] = "none" /\ row' = [row EXCEPT ![s] = "due"] /\ UNCHANGED <<life, head, rotation, session, locks>>

Next ==
  \/ \E c \in Claims : Cursor(c) \/ Fence(c) \/ Lease(c) \/ Rotate(c) \/ Served(c)
  \/ \E t \in Completions : (\E s \in Spaces : Admit(t, s)) \/ Hold(t) \/ MoveHead(t) \/ Deliver(t)
  \/ \E s \in Spaces : Purge(s) \/ Delete(s) \/ Purged(s) \/ Write(s)
  \/ \E s \in Spaces, to \in {"active", "readOnly", "deleting"} : Change(s, to)

Spec == Init /\ [][Next]_vars

-----------------------------------------------------------------------------
(* The transactions a transaction's next statement waits for. *)
WaitsFor(t) ==
  LET x == session[t] IN
  CASE x.pc = "fence" /\ x.todo # {} -> Holders(t, "space", Lowest(t), "key")
    [] x.pc = "rotate" /\ x.todo # {} -> 
         IF rotation[Lowest(t)] THEN Holders(t, "rotation", Lowest(t), "update") ELSE Holders(t, "space", Lowest(t), "key")
    [] x.pc = "lease" -> Holders(t, "row", x.on, "update")
    [] x.pc = "head" -> Holders(t, "head", x.on, "update")
    [] x.pc \in DOMAIN Deletes -> IF There(Deletes[x.pc][1], t[2]) THEN Holders(t, Deletes[x.pc][1], t[2], "update") ELSE {}
    [] OTHER -> {}

(* A claim, a completion and an erasure wait for each other rather than deadlock. *)
NoWaitCycle == \A S \in SUBSET Sessions : S = {} \/ \E t \in S : WaitsFor(t) \intersect S = {}

(* Nothing of an erased space is left in the outbox, its heads or its rotation. *)
NothingLeft == \A s \in Spaces : life[s] = "deleted" => row[s] = "none" /\ ~head[s] /\ ~rotation[s]

(* No two transactions hold locks that conflict. *)
TypeOK == \A k, l \in locks : k[1] # l[1] /\ k[2] = l[2] /\ k[3] = l[3] => "update" \notin {k[4], l[4]}

(* Locks exclude, nobody waits in a circle, and a purge leaves nothing behind. *)
DispatchHolds == TypeOK /\ NoWaitCycle /\ NothingLeft
=============================================================================
