------------------------- MODULE DispatchLocksProofs -------------------------
(***************************************************************************)
(* Proofs about DispatchLocks, for any spaces, claims and completions and  *)
(* any bound: while no space is suspended, its transactions never wait for *)
(* each other in a circle, and a purge leaves nothing of its space.        *)
(*                                                                         *)
(* Everybody locks a space before its rows, so whoever holds a row keeps   *)
(* the space's purge out (Locked).  A purge therefore never waits once it  *)
(* holds its space, a claim only for a purge or, as one claim runs at a    *)
(* time, not at all, and a completion for somebody who does not wait: no   *)
(* chain of waits has two links, and none closes.                          *)
(***************************************************************************)
EXTENDS DispatchLocks, NaturalsInduction, WellFoundedInduction, TLAPS

Lives == {"active", "readOnly", "deleting", "deleted"}
Kinds == {"cursor", "space", "row", "head", "rotation"}
Modes == {"key", "share", "write", "update"}
Pcs == {"idle", "fence", "rotate", "lease", "head", "done", "heads", "rotation", "rows", "commit"}
Session_ == [pc : Pcs, todo : SUBSET Spaces, seen : SUBSET Spaces, on : Spaces \cup {0}]

Typed ==
  /\ life \in [Spaces -> Lives] /\ row \in [Spaces -> {"due", "leased", "none"}]
  /\ head \in [Spaces -> BOOLEAN] /\ rotation \in [Spaces -> BOOLEAN]
  /\ session \in [Sessions -> Session_]
  /\ locks \subseteq Sessions \X Kinds \X (Spaces \cup {0}) \X Modes

Has(t, kind, s, mode) == <<t, kind, s, mode>> \in locks
Of(t) == {l \in locks : l[1] = t}

(* A claim's locks before any row's. *)
Fences(l) ==
  \/ l[2] = "cursor" /\ l[3] = 0 /\ l[4] = "update"
  \/ l[2] = "space" /\ l[3] \in Spaces /\ l[4] = "key"

(* A claim: alone, its rows' spaces fenced, and so every open space it may still serve. *)
ClaimInv(c) ==
  /\ session[c].pc \in {"idle", "fence", "rotate"}
  /\ session[c].pc = "idle" => Of(c) = {}
  /\ session[c].pc # "idle" => Has(c, "cursor", 0, "update")
  /\ session[c].pc = "fence" =>
       \A s \in session[c].seen \ session[c].todo : Open(s) => Has(c, "space", s, "key")
  /\ session[c].pc = "rotate" => \A s \in session[c].todo : Has(c, "space", s, "key")
  /\ \A l \in Of(c) :
       \/ Fences(l)
       \/ /\ l[2] \in {"row", "rotation"} /\ l[3] \in Spaces /\ l[4] = "update"
          /\ session[c].pc = "rotate" /\ Has(c, "space", l[3], "key")

(* A completion: its space first, then the row, then the head. *)
CompletionInv(t) ==
  /\ session[t].pc \in {"idle", "lease", "head", "done"}
  /\ session[t].pc = "idle" => Of(t) = {}
  /\ session[t].pc # "idle" => session[t].on \in Spaces /\ Has(t, "space", session[t].on, "share")
  /\ session[t].pc \in {"head", "done"} => Has(t, "row", session[t].on, "update")
  /\ \A l \in Of(t) :
       /\ l[3] = session[t].on
       /\ \/ l[2] = "space" /\ l[4] = "share"
          \/ l[2] = "row" /\ l[4] = "update" /\ session[t].pc \in {"head", "done"}
          \/ l[2] = "head" /\ l[4] = "update" /\ session[t].pc = "done"

(* A purge: its space, and of the rows it has been through those that there are. *)
PurgeInv(s) ==
  LET t == <<"purge", s>> pc == session[t].pc IN
  /\ pc \in {"idle", "heads", "rotation", "rows", "commit"}
  /\ pc = "idle" => Of(t) = {}
  /\ pc # "idle" => life[s] = "deleting" /\ Has(t, "space", s, "update")
  /\ \A l \in Of(t) : l[2] \in {"space", "row", "head", "rotation"} /\ l[3] = s /\ l[4] = "update"
  /\ pc \in {"rotation", "rows", "commit"} /\ head[s] => Has(t, "head", s, "update")
  /\ pc \in {"rows", "commit"} /\ rotation[s] => Has(t, "rotation", s, "update")
  /\ pc = "commit" /\ row[s] # "none" => Has(t, "row", s, "update")

(* A space somebody has fenced is not yet erased. *)
FencedStands == \A l \in locks : l[2] = "space" /\ l[4] \in {"key", "share"} => life[l[3]] # "deleted"

Locked ==
  /\ Typed /\ TypeOK /\ FencedStands /\ NothingLeft
  /\ \A c \in Claims : ClaimInv(c)
  /\ \A t \in Completions : CompletionInv(t)
  /\ \A s \in Spaces : PurgeInv(s)

NoneSuspended == \A s \in Spaces : Open(s)

-----------------------------------------------------------------------------
LEMMA Names ==
  /\ \A s \in Spaces : <<"purge", s>> \in Sessions
  /\ \A t \in Claims \cup Completions : t \in Sessions /\ \A s \in Spaces : t # <<"purge", s>>
  /\ \A c \in Claims : c \notin Completions
BY DispatchLocksAssumption DEF Sessions, Purges

(* A set of numbers has a least one. *)
LEMMA Least ==
  ASSUME NEW T \in SUBSET Nat, T # {}
  PROVE  \E s \in T : \A q \in T : s <= q
<1> DEFINE Below == {p \in Nat \X Nat : p[1] < p[2]}
<1>1. IsWellFoundedOn(Below, Nat)
  BY NatLessThanWellFounded DEF OpToRel
<1>2. PICK s \in T : \A q \in T : <<q, s>> \notin Below
  <2> HIDE DEF Below
  <2> QED BY <1>1, WFMin
<1>3. \A q \in T : s <= q
  <2> SUFFICES ASSUME NEW q \in T PROVE s <= q
    OBVIOUS
  <2>1. <<q, s>> \in Nat \X Nat /\ <<q, s>>[1] = q /\ <<q, s>>[2] = s
    OBVIOUS
  <2>2. ~(q < s)
    BY <1>2, <2>1
  <2> QED BY <2>2
<1> QED BY <1>3

LEMMA LowestIn ==
  ASSUME NEW t \in Sessions, Typed, session[t].todo # {}
  PROVE  Lowest(t) \in session[t].todo /\ Lowest(t) \in Spaces
<1>1. session[t].todo \subseteq Nat /\ session[t].todo \subseteq Spaces
  BY DispatchLocksAssumption DEF Typed, Session_
<1> QED BY <1>1, Least DEF Lowest

LEMMA InitLocked == Init /\ NoneSuspended => Locked
<1> SUFFICES ASSUME Init, NoneSuspended PROVE Locked
  OBVIOUS
<1> USE DEF Init
<1>1. Typed
  BY DEF Typed, Lives, Session_, Pcs, NoneSuspended, Open, Ended
<1>2. \A t \in Sessions : session[t].pc = "idle" /\ Of(t) = {}
  BY DEF Ended, Of
<1>3. TypeOK /\ FencedStands
  BY DEF TypeOK, FencedStands
<1>4. NothingLeft
  BY DEF NothingLeft, NoneSuspended, Open
<1> QED BY <1>1, <1>2, <1>3, <1>4, Names DEF Locked, ClaimInv, CompletionInv, PurgeInv

-----------------------------------------------------------------------------
(* What a step leaves alone of the transactions that do not take it. *)
LEMMA ClaimStays ==
  ASSUME NEW c \in Claims, ClaimInv(c), session'[c] = session[c], Of(c)' = Of(c),
         \A s \in Spaces : Open(s)' => Open(s), Typed
  PROVE  ClaimInv(c)'
<1>1. \A kind, s, mode : Has(c, kind, s, mode) <=> Has(c, kind, s, mode)'
  <2>1. \A kind, s, mode : Has(c, kind, s, mode) <=> <<c, kind, s, mode>> \in Of(c)
    BY DEF Has, Of
  <2>2. \A kind, s, mode : Has(c, kind, s, mode)' <=> <<c, kind, s, mode>> \in Of(c)'
    BY DEF Has, Of
  <2> QED BY <2>1, <2>2
<1>2. session[c].seen \subseteq Spaces
  BY Names DEF Typed, Session_
<1> QED BY <1>1, <1>2 DEF ClaimInv, Fences

LEMMA CompletionStays ==
  ASSUME NEW t \in Completions, CompletionInv(t), session'[t] = session[t], Of(t)' = Of(t)
  PROVE  CompletionInv(t)'
<1>1. \A kind, s, mode : Has(t, kind, s, mode) <=> Has(t, kind, s, mode)'
  <2>1. \A kind, s, mode : Has(t, kind, s, mode) <=> <<t, kind, s, mode>> \in Of(t)
    BY DEF Has, Of
  <2>2. \A kind, s, mode : Has(t, kind, s, mode)' <=> <<t, kind, s, mode>> \in Of(t)'
    BY DEF Has, Of
  <2> QED BY <2>1, <2>2
<1> QED BY <1>1 DEF CompletionInv

LEMMA PurgeStays ==
  ASSUME NEW s \in Spaces, PurgeInv(s),
         session'[<<"purge", s>>] = session[<<"purge", s>>], Of(<<"purge", s>>)' = Of(<<"purge", s>>),
         session[<<"purge", s>>].pc = "idle"
           \/ /\ life'[s] = life[s] /\ (head'[s] => head[s]) /\ (rotation'[s] => rotation[s])
              /\ (row[s] = "none" => row'[s] = "none")
  PROVE  PurgeInv(s)'
<1> DEFINE t == <<"purge", s>>
<1>1. \A kind, q, mode : Has(t, kind, q, mode) <=> Has(t, kind, q, mode)'
  <2>1. \A kind, q, mode : Has(t, kind, q, mode) <=> <<t, kind, q, mode>> \in Of(t)
    BY DEF Has, Of
  <2>2. \A kind, q, mode : Has(t, kind, q, mode)' <=> <<t, kind, q, mode>> \in Of(t)'
    BY DEF Has, Of
  <2> QED BY <2>1, <2>2
<1> QED BY <1>1 DEF PurgeInv

(* While somebody holds a lock of the space, no purge of it is under way. *)
LEMMA FencedOut ==
  ASSUME Locked, NEW s \in Spaces, NEW l \in locks, l[2] = "space", l[3] = s, l[1] # <<"purge", s>>
  PROVE  session[<<"purge", s>>].pc = "idle"
<1> SUFFICES ASSUME session[<<"purge", s>>].pc # "idle" PROVE FALSE
  OBVIOUS
<1>1. <<<<"purge", s>>, "space", s, "update">> \in locks
  BY DEF Locked, PurgeInv, Has
<1> DEFINE k == <<<<"purge", s>>, "space", s, "update">>
<1>2. k[1] # l[1] /\ k[2] = l[2] /\ k[3] = l[3] /\ k[4] = "update"
  OBVIOUS
<1> QED BY <1>1, <1>2 DEF Locked, TypeOK

(* Only one claim runs at a time. *)
LEMMA OneClaim ==
  ASSUME Locked, NEW c \in Claims, NEW d \in Claims, session[c].pc # "idle", session[d].pc # "idle"
  PROVE  c = d
<1> DEFINE k == <<c, "cursor", 0, "update">>
           l == <<d, "cursor", 0, "update">>
<1>1. k \in locks /\ l \in locks
  BY DEF Locked, ClaimInv, Has
<1>2. k[1] = c /\ l[1] = d /\ k[2] = l[2] /\ k[3] = l[3] /\ k[4] = "update"
  OBVIOUS
<1> QED BY <1>1, <1>2 DEF Locked, TypeOK

(* A lock that was free conflicts with nobody's. *)
LEMMA Granted ==
  ASSUME Locked, NEW t \in Sessions, NEW kind, NEW s, NEW mode, Free(t, kind, s, mode),
         locks' \subseteq locks \cup {<<t, kind, s, mode>>}
  PROVE  TypeOK'
<1> DEFINE new == <<t, kind, s, mode>>
<1>1. new[1] = t /\ new[2] = kind /\ new[3] = s /\ new[4] = mode
  OBVIOUS
<1>2. \A l \in locks : l[1] # t /\ l[2] = kind /\ l[3] = s => ~Conflict(l[4], mode)
  BY DEF Free, Holders
<1>3. \A m : Conflict(m, mode) <=> "update" \in {m, mode} \/ {m, mode} = {"share", "write"}
  BY DEF Conflict
<1> QED BY <1>1, <1>2, <1>3 DEF Locked, TypeOK

(* A transaction's step changes its own locks only, and the rows of no space being purged. *)
Alone(u) ==
  /\ \E x \in Session_ : session' = [session EXCEPT ![u] = x]
  /\ \A l : l[1] # u => (l \in locks <=> l \in locks')

LEMMA OthersStay ==
  ASSUME Locked, NEW u \in Sessions, Alone(u), life' = life,
         \A s \in Spaces : \/ u = <<"purge", s>> \/ session[<<"purge", s>>].pc = "idle"
                           \/ /\ (head'[s] => head[s]) /\ (rotation'[s] => rotation[s])
                              /\ (row[s] = "none" => row'[s] = "none")
  PROVE  /\ \A c \in Claims \ {u} : ClaimInv(c)'
         /\ \A t \in Completions \ {u} : CompletionInv(t)'
         /\ \A s \in Spaces : u # <<"purge", s>> => PurgeInv(s)'
<1>1. \A t \in Sessions \ {u} : session'[t] = session[t] /\ Of(t)' = Of(t)
  BY DEF Locked, Typed, Alone, Of
<1>2. \A s \in Spaces : Open(s)' => Open(s)
  BY DEF Open
<1>3. ASSUME NEW c \in Claims \ {u} PROVE ClaimInv(c)'
  BY <1>1, <1>2, Names, ClaimStays DEF Locked
<1>4. ASSUME NEW t \in Completions \ {u} PROVE CompletionInv(t)'
  BY <1>1, Names, CompletionStays DEF Locked
<1>5. ASSUME NEW s \in Spaces, u # <<"purge", s>> PROVE PurgeInv(s)'
  <2>1. session'[<<"purge", s>>] = session[<<"purge", s>>] /\ Of(<<"purge", s>>)' = Of(<<"purge", s>>)
    BY <1>1, <1>5, Names
  <2> QED BY <1>5, <2>1, PurgeStays DEF Locked
<1> QED BY <1>3, <1>4, <1>5

(* Taking one lock. *)
LEMMA TakesOne ==
  ASSUME NEW u, NEW new, new[1] = u, locks' = locks \cup {new}
  PROVE  (\A l : l[1] # u => (l \in locks <=> l \in locks')) /\ Of(u)' = Of(u) \cup {new}
BY DEF Of

-----------------------------------------------------------------------------
(* A claim's steps. *)
LEMMA CursorStep == ASSUME Locked, NEW c \in Claims, Cursor(c) PROVE Locked'
<1> DEFINE scanned == {s \in Spaces : row[s] # "none"}
           x == [Ended EXCEPT !.pc = "fence", !.todo = Fenced(scanned), !.seen = scanned]
           new == <<c, "cursor", 0, "update">>
<1>0. c \in Sessions /\ session[c].pc = "idle" /\ Of(c) = {}
  BY Names DEF Cursor, At, Locked, ClaimInv
<1>1. x \in Session_ /\ x.pc = "fence" /\ x.todo = Fenced(scanned) /\ x.seen = scanned
  BY DEF Ended, Fenced, Session_, Pcs
<1>2. /\ session' = [session EXCEPT ![c] = x] /\ locks' = locks \cup {new}
      /\ Free(c, "cursor", 0, "update") /\ UNCHANGED <<life, row, head, rotation>>
  BY DEF Cursor, Take, Goto
<1>9. new[2] # "space" /\ new \in Sessions \X Kinds \X (Spaces \cup {0}) \X Modes
  BY <1>0 DEF Kinds, Modes
<1>10. \A s \in scanned \ Fenced(scanned) : ~Open(s)
  BY DEF Fenced
<1> HIDE DEF x, scanned
<1>3. Typed'
  BY <1>1, <1>2, <1>9 DEF Locked, Typed
<1>4. TypeOK'
  BY <1>0, <1>2, Granted
<1>5. FencedStands' /\ NothingLeft'
  BY <1>2, <1>9 DEF Locked, FencedStands, NothingLeft
<1>6. Alone(c) /\ Of(c)' = {new}
  <2>1. new[1] = c /\ locks' = locks \cup {new}
    BY <1>2
  <2> HIDE DEF new
  <2>2. (\A l : l[1] # c => (l \in locks <=> l \in locks')) /\ Of(c)' = Of(c) \cup {new}
    BY <1>2, <2>1, TakesOne
  <2> QED BY <1>0, <1>1, <1>2, <2>2 DEF Alone
<1>7. ClaimInv(c)'
  <2>1. session'[c] = x
    BY <1>0, <1>2 DEF Locked, Typed
  <2>3. Has(c, "cursor", 0, "update")'
    BY <1>2 DEF Has
  <2>4. \A s \in session'[c].seen \ session'[c].todo : ~Open(s)'
    BY <1>1, <1>2, <1>10, <2>1 DEF Open
  <2> QED BY <1>1, <2>1, <1>6, <2>3, <2>4 DEF ClaimInv, Fences
<1> QED BY <1>0, <1>2, <1>3, <1>4, <1>5, <1>6, <1>7, OthersStay, Names DEF Locked

LEMMA FenceStep == ASSUME Locked, NEW c \in Claims, Fence(c) PROVE Locked'
<1>0. c \in Sessions /\ session[c].pc = "fence" /\ session[c] \in Session_ /\ session[c].todo # {}
  BY Names DEF Fence, At, Locked, Typed
<1>1. PICK s \in Spaces : s = Lowest(c) /\ s \in session[c].todo
  BY <1>0, LowestIn DEF Locked
<1>2. PICK x \in Session_ : x = [session[c] EXCEPT !.todo = @ \ {s}]
  BY <1>0 DEF Session_
<1> DEFINE new == <<c, "space", s, "key">>
<1>3. /\ session' = [session EXCEPT ![c] = x] /\ Free(c, "space", s, "key")
      /\ UNCHANGED <<life, row, head, rotation>>
      /\ locks' = IF Open(s) THEN locks \cup {new} ELSE locks
  BY <1>1, <1>2 DEF Fence, Goto
<1>4. Typed'
  <2>1. new \in Sessions \X Kinds \X (Spaces \cup {0}) \X Modes
    BY <1>0, <1>1 DEF Kinds, Modes
  <2> QED BY <1>2, <1>3, <2>1 DEF Locked, Typed
<1>5. TypeOK'
  BY <1>0, <1>3, Granted
<1>6. FencedStands' /\ NothingLeft'
  <2>1. new[3] = s
    OBVIOUS
  <2> HIDE DEF new
  <2> QED BY <1>3, <2>1 DEF Locked, FencedStands, NothingLeft, Open
<1>7. Alone(c) /\ Of(c)' \subseteq Of(c) \cup {new}
  <2>1. new[1] = c
    OBVIOUS
  <2> HIDE DEF new
  <2> QED BY <1>2, <1>3, <2>1 DEF Alone, Of
<1>8. ClaimInv(c)'
  <2>1. session'[c] = x /\ x.pc = "fence" /\ x.todo = session[c].todo \ {s} /\ x.seen = session[c].seen
    BY <1>0, <1>2, <1>3 DEF Locked, Typed, Session_
  <2>2. locks \subseteq locks' /\ (Open(s) => new \in locks')
    BY <1>3
  <2>3. ClaimInv(c)
    BY DEF Locked
  <2>4. \A l \in Of(c)' : Fences(l)
    <3>1. \A l \in Of(c) : Fences(l)
      BY <1>0, <2>3 DEF ClaimInv
    <3>2. Fences(new)
      BY DEF Fences
    <3> QED BY <1>7, <3>1, <3>2 DEF Fences
  <2>5. <<c, "cursor", 0, "update">> \in locks'
    BY <1>0, <2>2, <2>3 DEF ClaimInv, Has
  <2>6. \A q \in session'[c].seen \ session'[c].todo : life'[q] \in {"active", "readOnly"} =>
          <<c, "space", q, "key">> \in locks'
    BY <1>0, <1>3, <2>1, <2>2, <2>3 DEF ClaimInv, Has, Open
  <2> QED BY <2>1, <2>4, <2>5, <2>6 DEF ClaimInv, Fences, Has, Open
<1> QED BY <1>0, <1>3, <1>4, <1>5, <1>6, <1>7, <1>8, OthersStay, Names DEF Locked

(* The rows a claim leases are of spaces it holds. *)
LEMMA LeaseStep == ASSUME Locked, NEW c \in Claims, Lease(c) PROVE Locked'
<1>0. c \in Sessions /\ session[c].pc = "fence" /\ session[c] \in Session_ /\ session[c].todo = {}
  BY Names DEF Lease, At, Locked, Typed
<1>1. PICK picked \in SUBSET Spaces :
        picked = {s \in session[c].seen : row[s] = "due" /\ Open(s) /\ Free(c, "row", s, "update")}
  BY <1>0 DEF Session_
<1>2. PICK x \in Session_ : x = [Ended EXCEPT !.pc = "rotate", !.todo = picked]
  BY <1>1 DEF Session_, Ended, Pcs
<1>3. /\ session' = [session EXCEPT ![c] = x] /\ UNCHANGED <<life, head, rotation>>
      /\ row' = [s \in Spaces |-> IF s \in picked THEN "leased" ELSE row[s]]
      /\ locks' = locks \cup {<<c, "row", s, "update">> : s \in picked}
  BY <1>1, <1>2 DEF Lease, Goto
<1>4. \A s \in picked : row[s] = "due" /\ Open(s) /\ Free(c, "row", s, "update") /\ Has(c, "space", s, "key")
  BY <1>0, <1>1 DEF Locked, ClaimInv
<1>5. \A l \in locks' : l \in locks \/ (l[1] = c /\ l[2] = "row" /\ l[3] \in picked /\ l[4] = "update")
  <2> SUFFICES ASSUME NEW l \in locks', l \notin locks
               PROVE  l[1] = c /\ l[2] = "row" /\ l[3] \in picked /\ l[4] = "update"
    OBVIOUS
  <2>1. locks' = locks \cup {<<c, "row", s, "update">> : s \in picked}
    BY <1>3
  <2>2. PICK s \in picked : l = <<c, "row", s, "update">>
    BY <2>1
  <2> QED BY <2>2
<1>6. Typed'
  <2>1. \A s \in picked : <<c, "row", s, "update">> \in Sessions \X Kinds \X (Spaces \cup {0}) \X Modes
    BY <1>0 DEF Kinds, Modes
  <2> QED BY <1>2, <1>3, <2>1 DEF Locked, Typed
<1>7. TypeOK'
  <2>1. \A s \in picked : \A l \in locks : l[1] # c /\ l[2] = "row" => l[3] # s \/ ~Conflict(l[4], "update")
    BY <1>4 DEF Free, Holders
  <2>2. \A m : Conflict(m, "update")
    BY DEF Conflict
  <2> QED BY <1>5, <2>1, <2>2 DEF Locked, TypeOK
<1>8. FencedStands' /\ NothingLeft'
  BY <1>3, <1>4, <1>5 DEF Locked, FencedStands, NothingLeft, Open
<1>9. Alone(c)
  BY <1>2, <1>3, <1>5 DEF Alone
<1>10. ClaimInv(c)'
  <2>1. session'[c] = x /\ x.pc = "rotate" /\ x.todo = picked
    BY <1>0, <1>2, <1>3 DEF Locked, Typed, Ended
  <2>2. locks \subseteq locks' /\ ClaimInv(c)
    BY <1>3 DEF Locked
  <2>3. <<c, "cursor", 0, "update">> \in locks' /\ \A s \in picked : <<c, "space", s, "key">> \in locks'
    BY <1>0, <1>4, <2>2 DEF ClaimInv, Has
  <2>4. \A l \in Of(c)' :
          \/ Fences(l)
          \/ l[2] = "row" /\ l[3] \in picked /\ l[4] = "update"
    <3>1. \A l \in Of(c) : Fences(l)
      BY <1>0, <2>2 DEF ClaimInv, Has
    <3> QED BY <1>5, <3>1 DEF Of, Fences
  <2> QED BY <2>1, <2>3, <2>4 DEF ClaimInv, Fences, Has
<1>11. \A s \in Spaces : row[s] = "none" => row'[s] = "none"
  BY <1>3, <1>4
<1> QED BY <1>0, <1>3, <1>6, <1>7, <1>8, <1>9, <1>10, <1>11, OthersStay, Names DEF Locked

(* A claim locks the rotation of a space it holds, which no purge is then deleting. *)
LEMMA RotateStep == ASSUME Locked, NEW c \in Claims, Rotate(c) PROVE Locked'
<1>0. c \in Sessions /\ session[c].pc = "rotate" /\ session[c] \in Session_ /\ session[c].todo # {}
  BY Names DEF Rotate, At, Locked, Typed
<1>1. PICK s \in Spaces : s = Lowest(c) /\ s \in session[c].todo
  BY <1>0, LowestIn DEF Locked
<1>2. PICK x \in Session_ : x = [session[c] EXCEPT !.todo = @ \ {s}]
  BY <1>0 DEF Session_
<1> DEFINE new == <<c, "rotation", s, "update">>
           key == <<c, "space", s, "key">>
<1>3. ClaimInv(c) /\ key \in locks
  BY <1>0, <1>1 DEF Locked, ClaimInv, Has
<1>4. /\ session' = [session EXCEPT ![c] = x] /\ UNCHANGED <<life, row, head>>
      /\ rotation' = [rotation EXCEPT ![s] = TRUE]
      /\ locks' = locks \cup {new}
  BY <1>1, <1>2, <1>3 DEF Rotate, Goto
<1>5. session[<<"purge", s>>].pc = "idle" /\ life[s] # "deleted"
  <2>1. key[1] = c /\ key[2] = "space" /\ key[3] = s /\ key[4] = "key"
    OBVIOUS
  <2> HIDE DEF key
  <2> QED BY <1>3, <2>1, FencedOut, Names DEF Locked, FencedStands
<1>6. Free(c, "rotation", s, "update")
  <2> SUFFICES ASSUME NEW l \in locks, l[1] # c, l[2] = "rotation", l[3] = s PROVE FALSE
    BY DEF Free, Holders
  <2>1. l[1] \in Sessions /\ l \in Of(l[1])
    BY DEF Locked, Typed, Of
  <2>2. CASE l[1] \in Claims
    <3>1. ClaimInv(l[1]) /\ session[l[1]].pc # "idle"
      BY <2>1, <2>2 DEF Locked, ClaimInv
    <3> QED BY <1>0, <2>2, <3>1, OneClaim
  <2>3. CASE l[1] \in Completions
    BY <2>1, <2>3 DEF Locked, CompletionInv
  <2>4. CASE \E q \in Spaces : l[1] = <<"purge", q>>
    <3>1. PICK q \in Spaces : l[1] = <<"purge", q>>
      BY <2>4
    <3>2. PurgeInv(q) /\ l \in Of(<<"purge", q>>)
      BY <2>1, <3>1 DEF Locked
    <3>3. l[3] = q /\ session[<<"purge", q>>].pc # "idle"
      BY <3>2 DEF PurgeInv
    <3> QED BY <1>5, <3>3
  <2> QED BY <2>1, <2>2, <2>3, <2>4 DEF Sessions, Purges
<1>7. Typed'
  <2>1. new \in Sessions \X Kinds \X (Spaces \cup {0}) \X Modes
    BY <1>0 DEF Kinds, Modes
  <2> QED BY <1>2, <1>4, <2>1 DEF Locked, Typed
<1>8. TypeOK'
  BY <1>0, <1>4, <1>6, Granted
<1>9. FencedStands' /\ NothingLeft'
  <2>1. new[2] = "rotation"
    OBVIOUS
  <2> HIDE DEF new
  <2> QED BY <1>4, <1>5, <2>1 DEF Locked, Typed, FencedStands, NothingLeft
<1>10. Alone(c) /\ Of(c)' = Of(c) \cup {new}
  <2>1. new[1] = c
    OBVIOUS
  <2> HIDE DEF new
  <2> QED BY <1>2, <1>4, <2>1, TakesOne DEF Alone
<1>11. ClaimInv(c)'
  <2>1. session'[c] = x /\ x.pc = "rotate" /\ x.todo = session[c].todo \ {s}
    BY <1>0, <1>2, <1>4 DEF Locked, Typed, Session_
  <2>2. Of(c)' = Of(c) \cup {new} /\ locks \subseteq locks'
    BY <1>4, <1>10
  <2>3. new[2] = "rotation" /\ new[3] = s /\ new[4] = "update"
    OBVIOUS
  <2>4. <<c, "cursor", 0, "update">> \in locks' /\ \A q \in session'[c].todo : <<c, "space", q, "key">> \in locks'
    BY <1>0, <1>3, <2>1, <2>2 DEF ClaimInv, Has
  <2> HIDE DEF new
  <2>5. ASSUME NEW l \in Of(c)'
        PROVE  Fences(l) \/ (/\ l[2] \in {"row", "rotation"} /\ l[3] \in Spaces /\ l[4] = "update"
                             /\ <<c, "space", l[3], "key">> \in locks')
    <3>1. CASE l = new
      BY <1>3, <2>2, <2>3, <3>1
    <3>2. CASE l \in Of(c)
      BY <1>3, <2>2, <3>2 DEF ClaimInv, Has
    <3> QED BY <2>2, <3>1, <3>2
  <2>6. session'[c].pc = "rotate"
    BY <2>1
  <2>7. \A l \in Of(c)' : Fences(l)' \/ (l[2] \in {"row", "rotation"} /\ l[3] \in Spaces /\ l[4] = "update"
                                      /\ Has(c, "space", l[3], "key")')
    BY <2>5 DEF Fences, Has
  <2> QED BY <2>4, <2>6, <2>7 DEF ClaimInv, Has
<1>12. \A q \in Spaces : session[<<"purge", q>>].pc = "idle" \/ (rotation'[q] => rotation[q])
  BY <1>4, <1>5 DEF Locked, Typed
<1> QED BY <1>0, <1>4, <1>7, <1>8, <1>9, <1>10, <1>11, <1>12, OthersStay, Names DEF Locked

(* A transaction that ends gives up what it held. *)
LEMMA Ends ==
  ASSUME Locked, NEW t \in Claims \cup Completions, Finish(t)
  PROVE  /\ session' \in [Sessions -> Session_] /\ TypeOK' /\ Alone(t)
         /\ locks' \subseteq locks
         /\ t \in Claims => ClaimInv(t)'
         /\ t \in Completions => CompletionInv(t)'
<1>0. t \in Sessions /\ Ended \in Session_ /\ Ended.pc = "idle"
  BY Names DEF Session_, Ended, Pcs
<1>1. session' = [session EXCEPT ![t] = Ended] /\ locks' = {l \in locks : l[1] # t}
  BY DEF Finish, Goto
<1>2. session'[t] = Ended /\ Of(t)' = {}
  BY <1>0, <1>1 DEF Locked, Typed, Of
<1> QED BY <1>0, <1>1, <1>2 DEF Locked, Typed, TypeOK, Alone, ClaimInv, CompletionInv

LEMMA ServedStep == ASSUME Locked, NEW c \in Claims, Served(c) PROVE Locked'
<1>1. Finish(c) /\ UNCHANGED <<life, row, head, rotation>>
  BY DEF Served
<1>2. locks' \subseteq locks /\ Typed' /\ TypeOK' /\ Alone(c) /\ ClaimInv(c)'
  BY <1>1, Ends DEF Locked, Typed
<1>3. FencedStands' /\ NothingLeft'
  BY <1>1, <1>2 DEF Locked, FencedStands, NothingLeft
<1> QED BY <1>1, <1>2, <1>3, OthersStay, Names DEF Locked

-----------------------------------------------------------------------------
(* A completion's steps. *)
LEMMA AdmitStep == ASSUME Locked, NEW t \in Completions, NEW s \in Spaces, Admit(t, s) PROVE Locked'
<1>0. t \in Sessions /\ session[t].pc = "idle" /\ Of(t) = {}
  BY Names DEF Admit, At, Locked, CompletionInv
<1>1. PICK x \in Session_ : x = [Ended EXCEPT !.pc = "lease", !.on = s]
  BY DEF Ended, Session_, Pcs
<1> DEFINE new == <<t, "space", s, "share">>
<1>2. /\ session' = [session EXCEPT ![t] = x] /\ UNCHANGED <<life, row, head, rotation>>
      /\ Free(t, "space", s, "share") /\ locks' = locks \cup {new} /\ Open(s)
  BY <1>1 DEF Admit, Goto, Scope, Take
<1>4. Typed'
  <2>1. new \in Sessions \X Kinds \X (Spaces \cup {0}) \X Modes
    BY <1>0 DEF Kinds, Modes
  <2> QED BY <1>2, <2>1 DEF Locked, Typed
<1>5. TypeOK'
  BY <1>0, <1>2, Granted
<1>6. FencedStands' /\ NothingLeft'
  <2>1. new[3] = s
    OBVIOUS
  <2> HIDE DEF new
  <2> QED BY <1>2, <2>1 DEF Locked, FencedStands, NothingLeft, Open
<1>7. Alone(t) /\ Of(t)' = {new}
  <2>1. new[1] = t
    OBVIOUS
  <2> HIDE DEF new
  <2>2. (\A l : l[1] # t => (l \in locks <=> l \in locks')) /\ Of(t)' = Of(t) \cup {new}
    BY <1>2, <2>1, TakesOne
  <2> QED BY <1>0, <1>1, <1>2, <2>2 DEF Alone
<1>8. CompletionInv(t)'
  <2>1. session'[t] = x /\ x.pc = "lease" /\ x.on = s
    BY <1>0, <1>1, <1>2 DEF Locked, Typed, Ended
  <2>3. new[2] = "space" /\ new[3] = s /\ new[4] = "share" /\ new \in locks'
    BY <1>2
  <2> QED BY <1>7, <2>1, <2>3 DEF CompletionInv, Has
<1> QED BY <1>0, <1>2, <1>4, <1>5, <1>6, <1>7, <1>8, OthersStay, Names DEF Locked

(* The row, then the head, of the space a completion holds. *)
LEMMA HoldStep == ASSUME Locked, NEW t \in Completions, Hold(t) PROVE Locked'
<1>0. t \in Sessions /\ session[t].pc = "lease" /\ session[t] \in Session_
  BY Names DEF Hold, At, Locked, Typed
<1>1. PICK s \in Spaces : s = session[t].on /\ <<t, "space", s, "share">> \in locks
  BY <1>0 DEF Locked, CompletionInv, Has
<1> DEFINE new == <<t, "row", s, "update">>
<1>2. CASE Finish(t)
  <2>1. UNCHANGED <<life, row, head, rotation>>
    BY DEF Hold
  <2>2. locks' \subseteq locks /\ Typed' /\ TypeOK' /\ Alone(t) /\ CompletionInv(t)'
    BY <1>2, <2>1, Ends DEF Locked, Typed
  <2>3. FencedStands' /\ NothingLeft'
    BY <2>1, <2>2 DEF Locked, FencedStands, NothingLeft
  <2> QED BY <1>0, <2>1, <2>2, <2>3, OthersStay, Names DEF Locked
<1>3. CASE ~Finish(t)
  <2>1. PICK x \in Session_ : x = [session[t] EXCEPT !.pc = "head"]
    BY <1>0 DEF Session_, Pcs
  <2>2. /\ session' = [session EXCEPT ![t] = x] /\ UNCHANGED <<life, row, head, rotation>>
        /\ Free(t, "row", s, "update") /\ locks' = locks \cup {new}
    BY <1>1, <1>3, <2>1 DEF Hold, To, Goto, Take
  <2>4. Typed'
    <3>1. new \in Sessions \X Kinds \X (Spaces \cup {0}) \X Modes
      BY <1>0 DEF Kinds, Modes
    <3> QED BY <2>1, <2>2, <3>1 DEF Locked, Typed
  <2>5. TypeOK'
    BY <1>0, <2>2, Granted
  <2>6. FencedStands' /\ NothingLeft'
    <3>1. new[2] = "row"
      OBVIOUS
    <3> HIDE DEF new
    <3> QED BY <2>2, <3>1 DEF Locked, FencedStands, NothingLeft, Open
  <2>7. Alone(t) /\ Of(t)' = Of(t) \cup {new}
    <3>1. new[1] = t
      OBVIOUS
    <3> HIDE DEF new
    <3> QED BY <2>1, <2>2, <3>1, TakesOne DEF Alone
  <2>8. CompletionInv(t)'
    <3>1. session'[t] = x /\ x.pc = "head" /\ x.on = s
      BY <1>0, <1>1, <2>1, <2>2 DEF Locked, Typed, Session_
    <3>2. locks \subseteq locks'
      BY <2>2
    <3>3. new[2] = "row" /\ new[3] = s /\ new[4] = "update" /\ new \in locks'
      BY <2>2
    <3>4. \A l \in Of(t) : l[3] = s /\ l[2] = "space" /\ l[4] = "share"
      BY <1>0, <1>1 DEF Locked, CompletionInv
    <3> QED BY <1>1, <2>7, <3>1, <3>2, <3>3, <3>4 DEF CompletionInv, Has
  <2> QED BY <1>0, <2>2, <2>4, <2>5, <2>6, <2>7, <2>8, OthersStay, Names DEF Locked
<1> QED BY <1>2, <1>3

LEMMA MoveHeadStep == ASSUME Locked, NEW t \in Completions, MoveHead(t) PROVE Locked'
<1>0. t \in Sessions /\ session[t].pc = "head" /\ session[t] \in Session_
  BY Names DEF MoveHead, At, Locked, Typed
<1>1. PICK s \in Spaces : s = session[t].on
  BY <1>0 DEF Locked, CompletionInv
<1>2. PICK x \in Session_ : x = [session[t] EXCEPT !.pc = "done"]
  BY <1>0 DEF Session_, Pcs
<1> DEFINE new == <<t, "head", s, "update">>
<1>3. /\ session' = [session EXCEPT ![t] = x] /\ UNCHANGED <<life, row, head, rotation>>
      /\ Free(t, "head", s, "update") /\ locks' = locks \cup {new}
  BY <1>1, <1>2 DEF MoveHead, To, Goto, Take
<1>5. Typed'
  <2>1. new \in Sessions \X Kinds \X (Spaces \cup {0}) \X Modes
    BY <1>0 DEF Kinds, Modes
  <2> QED BY <1>2, <1>3, <2>1 DEF Locked, Typed
<1>6. TypeOK'
  BY <1>0, <1>3, Granted
<1>7. FencedStands' /\ NothingLeft'
  <2>1. new[2] = "head"
    OBVIOUS
  <2> HIDE DEF new
  <2> QED BY <1>3, <2>1 DEF Locked, FencedStands, NothingLeft, Open
<1>8. Alone(t) /\ Of(t)' = Of(t) \cup {new}
  <2>1. new[1] = t
    OBVIOUS
  <2> HIDE DEF new
  <2> QED BY <1>2, <1>3, <2>1, TakesOne DEF Alone
<1>9. CompletionInv(t)'
  <2>1. session'[t] = x /\ x.pc = "done" /\ x.on = s
    BY <1>0, <1>1, <1>2, <1>3 DEF Locked, Typed, Session_
  <2>2. locks \subseteq locks'
    BY <1>3
  <2>3. new[2] = "head" /\ new[3] = s /\ new[4] = "update"
    OBVIOUS
  <2>4. CompletionInv(t)
    BY DEF Locked
  <2> HIDE DEF new
  <2> QED BY <1>0, <1>1, <1>8, <2>1, <2>2, <2>3, <2>4 DEF CompletionInv, Has
<1> QED BY <1>0, <1>3, <1>5, <1>6, <1>7, <1>8, <1>9, OthersStay, Names DEF Locked

(* A delivery moves the head of a space that stands. *)
LEMMA DeliverStep == ASSUME Locked, NEW t \in Completions, Deliver(t) PROVE Locked'
<1>0. t \in Sessions /\ session[t].pc = "done" /\ session[t] \in Session_
  BY Names DEF Deliver, At, Locked, Typed
<1>1. PICK s \in Spaces : s = session[t].on /\ <<t, "space", s, "share">> \in locks
  BY <1>0 DEF Locked, CompletionInv, Has
<1>2. /\ Finish(t) /\ UNCHANGED <<life, rotation>>
      /\ row' = [row EXCEPT ![s] = "none"] /\ head' = [head EXCEPT ![s] = TRUE]
  BY <1>1 DEF Deliver
<1>3. locks' \subseteq locks /\ TypeOK' /\ Alone(t) /\ CompletionInv(t)'
  BY <1>2, Ends
<1>4. Typed'
  BY <1>2, <1>3, Ends DEF Locked, Typed
<1>5. session[<<"purge", s>>].pc = "idle" /\ life[s] # "deleted"
  <2> DEFINE key == <<t, "space", s, "share">>
  <2>1. key[1] = t /\ key[2] = "space" /\ key[3] = s /\ key[4] = "share" /\ key \in locks
    BY <1>1
  <2> HIDE DEF key
  <2> QED BY <2>1, FencedOut, Names DEF Locked, FencedStands
<1>6. FencedStands' /\ NothingLeft'
  BY <1>2, <1>3, <1>5 DEF Locked, Typed, FencedStands, NothingLeft
<1>7. \A q \in Spaces : session[<<"purge", q>>].pc = "idle"
                       \/ ((head'[q] => head[q]) /\ (row[q] = "none" => row'[q] = "none"))
  BY <1>2, <1>5 DEF Locked, Typed
<1> QED BY <1>0, <1>2, <1>3, <1>4, <1>6, <1>7, OthersStay, Names DEF Locked

-----------------------------------------------------------------------------
(* A purge's steps, which keep every other transaction's invariant. *)
LEMMA PurgeStep == ASSUME Locked, NEW s \in Spaces, Purge(s) PROVE Locked'
<1> DEFINE new == <<<<"purge", s>>, "space", s, "update">>
<1>0. PICK t \in Sessions : t = <<"purge", s>>
  BY Names
<1>1. session[t].pc = "idle" /\ session[t] \in Session_ /\ life[s] = "deleting" /\ Of(t) = {}
  BY <1>0 DEF Purge, At, Locked, Typed, PurgeInv
<1>2. PICK x \in Session_ : x = [session[t] EXCEPT !.pc = "heads"]
  BY <1>1 DEF Session_, Pcs
<1>3. /\ session' = [session EXCEPT ![t] = x] /\ UNCHANGED <<life, row, head, rotation>>
      /\ Free(t, "space", s, "update") /\ locks' = locks \cup {<<t, "space", s, "update">>}
  BY <1>0, <1>2 DEF Purge, To, Goto, Take
<1>4. new[1] = t /\ new[2] = "space" /\ new[3] = s /\ new[4] = "update" /\ locks' = locks \cup {new}
      /\ new \in Sessions \X Kinds \X (Spaces \cup {0}) \X Modes
  BY <1>0, <1>3 DEF Kinds, Modes
<1>5. TypeOK'
  BY <1>3, Granted
<1> HIDE DEF new
<1>6. Typed' /\ FencedStands' /\ NothingLeft'
  BY <1>2, <1>3, <1>4 DEF Locked, Typed, FencedStands, NothingLeft
<1>7. (\A l : l[1] # t => (l \in locks <=> l \in locks')) /\ Of(t)' = Of(t) \cup {new}
  BY <1>4, TakesOne
<1>8. Alone(t)
  BY <1>2, <1>3, <1>7 DEF Alone
<1>9. PurgeInv(s)'
  <2>1. session'[t] = x /\ x.pc = "heads"
    BY <1>1, <1>2, <1>3 DEF Locked, Typed, Session_
  <2>2. Of(t)' = {new} /\ new \in locks'
    BY <1>1, <1>4, <1>7
  <2> QED BY <1>0, <1>1, <1>3, <1>4, <2>1, <2>2 DEF PurgeInv, Has, new
<1>10. (\A c \in Claims : t # c) /\ (\A d \in Completions : t # d)
  BY <1>0, Names
<1> QED BY <1>0, <1>3, <1>5, <1>6, <1>8, <1>9, <1>10, OthersStay DEF Locked

LEMMA DeleteStep == ASSUME Locked, NEW s \in Spaces, Delete(s) PROVE Locked'
<1>0. PICK t \in Sessions : t = <<"purge", s>>
  BY Names
<1>1. /\ session[t] \in Session_ /\ PurgeInv(s)
      /\ session[t].pc \in {"heads", "rotation", "rows"} /\ life[s] = "deleting"
  <2>1. DOMAIN Deletes = {"heads", "rotation", "rows"}
    BY DEF Deletes
  <2> QED BY <1>0, <2>1 DEF Delete, Locked, Typed, PurgeInv
<1>2. PICK kind \in {"head", "rotation", "row"} :
        /\ kind = Deletes[session[t].pc][1]
        /\ Deletes[session[t].pc][2] =
             IF kind = "head" THEN "rotation" ELSE IF kind = "rotation" THEN "rows" ELSE "commit"
        /\ session[t].pc = IF kind = "head" THEN "heads" ELSE IF kind = "rotation" THEN "rotation" ELSE "rows"
  BY <1>1 DEF Deletes
<1>3. PICK x \in Session_ : x = [session[t] EXCEPT !.pc = Deletes[session[t].pc][2]]
  BY <1>1, <1>2 DEF Session_, Pcs
<1> DEFINE new == <<t, kind, s, "update">>
<1>4. /\ session' = [session EXCEPT ![t] = x] /\ UNCHANGED <<life, row, head, rotation>>
      /\ IF There(kind, s) THEN Free(t, kind, s, "update") /\ locks' = locks \cup {new} ELSE locks' = locks
  BY <1>0, <1>2, <1>3 DEF Delete, To, Goto, Take
<1>5. TypeOK'
  <2>1. CASE There(kind, s)
    BY <1>4, <2>1, Granted
  <2>2. CASE ~There(kind, s)
    BY <1>4, <2>2 DEF Locked, TypeOK
  <2> QED BY <2>1, <2>2
<1>6. new[1] = t /\ new[2] = kind /\ new[3] = s /\ new[4] = "update"
      /\ new \in Sessions \X Kinds \X (Spaces \cup {0}) \X Modes
  BY DEF Kinds, Modes
<1>7. locks' = (IF There(kind, s) THEN locks \cup {new} ELSE locks)
  BY <1>4
<1>8. /\ There("head", s) <=> head[s]
      /\ There("rotation", s) <=> rotation[s]
      /\ There("row", s) <=> row[s] # "none"
  BY DEF There, Locked, Typed
<1> HIDE DEF new
<1>9. Typed' /\ FencedStands' /\ NothingLeft'
  BY <1>3, <1>4, <1>6, <1>7 DEF Locked, Typed, FencedStands, NothingLeft
<1>10. Alone(t) /\ Of(t)' \subseteq Of(t) \cup {new}
  BY <1>3, <1>4, <1>6, <1>7 DEF Alone, Of
<1>11. PurgeInv(s)'
  <2>1. session'[t] = x /\ x.pc = Deletes[session[t].pc][2]
    BY <1>1, <1>3, <1>4 DEF Locked, Typed, Session_
  <2>2. locks \subseteq locks' /\ (There(kind, s) => new \in locks')
    BY <1>7
  <2>3. \A l \in Of(t)' : l[2] \in {"space", "row", "head", "rotation"} /\ l[3] = s /\ l[4] = "update"
    BY <1>0, <1>1, <1>6, <1>10 DEF PurgeInv
  <2>4. <<t, "space", s, "update">> \in locks'
    BY <1>0, <1>1, <2>2 DEF PurgeInv, Has
  <2>5. x.pc \in {"rotation", "rows", "commit"} /\ head[s] => <<t, "head", s, "update">> \in locks'
    BY <1>0, <1>1, <1>2, <1>8, <2>1, <2>2 DEF PurgeInv, Has, new
  <2>6. x.pc \in {"rows", "commit"} /\ rotation[s] => <<t, "rotation", s, "update">> \in locks'
    BY <1>0, <1>1, <1>2, <1>8, <2>1, <2>2 DEF PurgeInv, Has, new
  <2>7. x.pc = "commit" /\ row[s] # "none" => <<t, "row", s, "update">> \in locks'
    BY <1>0, <1>1, <1>2, <1>8, <2>1, <2>2 DEF PurgeInv, Has, new
  <2>8. x.pc \in {"rotation", "rows", "commit"}
    BY <1>2, <2>1
  <2> QED BY <1>0, <1>1, <1>4, <2>1, <2>3, <2>4, <2>5, <2>6, <2>7, <2>8 DEF PurgeInv, Has
<1>12. (\A c \in Claims : t # c) /\ (\A d \in Completions : t # d)
  BY <1>0, Names
<1> QED BY <1>0, <1>4, <1>5, <1>9, <1>10, <1>11, <1>12, OthersStay DEF Locked

(* What there was of a space when a purge went through it is locked, and goes with it. *)
LEMMA PurgedStep == ASSUME Locked, NEW s \in Spaces, Purged(s) PROVE Locked'
<1>0. PICK t \in Sessions : t = <<"purge", s>>
  BY Names
<1>1. session[t].pc = "commit" /\ PurgeInv(s) /\ Ended \in Session_ /\ Ended.pc = "idle"
  BY <1>0 DEF Purged, At, Locked, Session_, Ended, Pcs
<1>2. /\ session' = [session EXCEPT ![t] = Ended] /\ locks' = {l \in locks : l[1] # t}
      /\ life' = [life EXCEPT ![s] = "deleted"]
      /\ head' = [head EXCEPT ![s] = @ /\ ~Has(t, "head", s, "update")]
      /\ rotation' = [rotation EXCEPT ![s] = @ /\ ~Has(t, "rotation", s, "update")]
      /\ row' = [row EXCEPT ![s] = IF Has(t, "row", s, "update") THEN "none" ELSE @]
  BY <1>0 DEF Purged, Finish, Goto, Has
<1>3. ~head'[s] /\ ~rotation'[s] /\ row'[s] = "none" /\ life'[s] = "deleted"
  BY <1>0, <1>1, <1>2 DEF PurgeInv, Locked, Typed
<1>4. /\ \A q \in Spaces \ {s} : life'[q] = life[q] /\ head'[q] = head[q] /\ rotation'[q] = rotation[q] /\ row'[q] = row[q]
      /\ \A u \in Sessions \ {t} : session'[u] = session[u] /\ Of(u)' = Of(u)
      /\ session'[t] = Ended /\ Of(t)' = {}
  BY <1>2 DEF Locked, Typed, Of
<1>5. Typed'
  <2>1. head' \in [Spaces -> BOOLEAN] /\ rotation' \in [Spaces -> BOOLEAN]
    BY <1>2 DEF Locked, Typed
  <2> QED BY <1>1, <1>2, <2>1 DEF Locked, Typed, Lives
<1>6. TypeOK'
  BY <1>2 DEF Locked, TypeOK
<1>7. FencedStands'
  <2> SUFFICES ASSUME NEW l \in locks', l[2] = "space", l[4] \in {"key", "share"}
               PROVE  life'[l[3]] # "deleted"
    BY DEF FencedStands
  <2>1. l \in locks /\ l[1] # t /\ life[l[3]] # "deleted"
    BY <1>2 DEF Locked, FencedStands
  <2>2. l[3] # s
    BY <1>0, <1>1, <2>1, FencedOut
  <2> QED BY <1>2, <2>1, <2>2 DEF Locked, Typed
<1>8. NothingLeft'
  BY <1>3, <1>4 DEF Locked, NothingLeft
<1>9. \A q \in Spaces : Open(q)' => Open(q)
  BY <1>3, <1>4 DEF Open
<1>10. ASSUME NEW c \in Claims PROVE ClaimInv(c)'
  <2>1. c \in Sessions \ {t}
    BY <1>0, Names
  <2> QED BY <1>4, <1>9, <2>1, ClaimStays DEF Locked
<1>11. ASSUME NEW d \in Completions PROVE CompletionInv(d)'
  <2>1. d \in Sessions \ {t}
    BY <1>0, Names
  <2> QED BY <1>4, <2>1, CompletionStays DEF Locked
<1>12. ASSUME NEW q \in Spaces PROVE PurgeInv(q)'
  <2>1. CASE q = s
    BY <1>0, <1>1, <1>4, <2>1 DEF PurgeInv
  <2>2. CASE q # s
    <3>1. <<"purge", q>> \in Sessions \ {t}
      BY <1>0, <2>2, Names
    <3> QED BY <1>4, <2>2, <3>1, PurgeStays DEF Locked
  <2> QED BY <2>1, <2>2
<1> QED BY <1>5, <1>6, <1>7, <1>8, <1>10, <1>11, <1>12 DEF Locked

-----------------------------------------------------------------------------
(* The owner and the writers, who hold no lock between their steps. *)
LEMMA ChangeStep ==
  ASSUME Locked, NEW s \in Spaces, NEW to \in {"active", "readOnly", "deleting"}, Change(s, to)
  PROVE  Locked'
<1>1. /\ life[s] \in {"active", "readOnly"} /\ life' = [life EXCEPT ![s] = to]
      /\ UNCHANGED <<row, head, rotation, session, locks>>
  BY DEF Change, Locked, Typed, Lives
<1>2. life'[s] = to /\ \A q \in Spaces \ {s} : life'[q] = life[q]
  BY <1>1 DEF Locked, Typed
<1>3. Typed' /\ TypeOK' /\ NothingLeft'
  BY <1>1, <1>2 DEF Locked, Typed, Lives, TypeOK, NothingLeft
<1>4. FencedStands'
  BY <1>1, <1>2 DEF Locked, Typed, FencedStands
<1>5. \A t \in Sessions : session'[t] = session[t] /\ Of(t)' = Of(t)
  BY <1>1 DEF Of
<1>6. \A q \in Spaces : Open(q)' => Open(q)
  BY <1>1, <1>2 DEF Open
<1>7. ASSUME NEW c \in Claims PROVE ClaimInv(c)'
  BY <1>5, <1>6, Names, ClaimStays DEF Locked
<1>8. ASSUME NEW t \in Completions PROVE CompletionInv(t)'
  BY <1>5, Names, CompletionStays DEF Locked
<1>9. ASSUME NEW q \in Spaces PROVE PurgeInv(q)'
  <2>1. q = s => session[<<"purge", q>>].pc = "idle"
    BY <1>1 DEF Locked, PurgeInv
  <2> QED BY <1>1, <1>2, <1>5, <2>1, Names, PurgeStays DEF Locked
<1> QED BY <1>3, <1>4, <1>7, <1>8, <1>9 DEF Locked

LEMMA WriteStep == ASSUME Locked, NEW s \in Spaces, Write(s) PROVE Locked'
<1>1. /\ life[s] = "active" /\ row' = [row EXCEPT ![s] = "due"]
      /\ UNCHANGED <<life, head, rotation, session, locks>>
  BY DEF Write
<1>2. Typed' /\ TypeOK' /\ NothingLeft' /\ FencedStands'
  BY <1>1 DEF Locked, Typed, TypeOK, NothingLeft, FencedStands
<1>3. \A t \in Sessions : session'[t] = session[t] /\ Of(t)' = Of(t)
  BY <1>1 DEF Of
<1>4. \A q \in Spaces : Open(q)' => Open(q)
  BY <1>1 DEF Open
<1>5. ASSUME NEW c \in Claims PROVE ClaimInv(c)'
  BY <1>3, <1>4, Names, ClaimStays DEF Locked
<1>6. ASSUME NEW t \in Completions PROVE CompletionInv(t)'
  BY <1>3, Names, CompletionStays DEF Locked
<1>7. ASSUME NEW q \in Spaces PROVE PurgeInv(q)'
  <2>1. q = s => session[<<"purge", q>>].pc = "idle"
    BY <1>1 DEF Locked, PurgeInv
  <2>2. q # s => row'[q] = row[q]
    BY <1>1 DEF Locked, Typed
  <2> QED BY <1>1, <1>3, <2>1, <2>2, Names, PurgeStays DEF Locked
<1> QED BY <1>2, <1>5, <1>6, <1>7 DEF Locked

LEMMA NextLocked == Locked /\ [Next]_vars => Locked'
<1> SUFFICES ASSUME Locked, [Next]_vars PROVE Locked'
  OBVIOUS
<1>1. ASSUME NEW c \in Claims, Cursor(c) \/ Fence(c) \/ Lease(c) \/ Rotate(c) \/ Served(c) PROVE Locked'
  BY <1>1, CursorStep, FenceStep, LeaseStep, RotateStep, ServedStep
<1>2. ASSUME NEW t \in Completions, NEW s \in Spaces, Admit(t, s) PROVE Locked'
  BY <1>2, AdmitStep
<1>3. ASSUME NEW t \in Completions, Hold(t) \/ MoveHead(t) \/ Deliver(t) PROVE Locked'
  BY <1>3, HoldStep, MoveHeadStep, DeliverStep
<1>4. ASSUME NEW s \in Spaces, Purge(s) \/ Delete(s) \/ Purged(s) \/ Write(s) PROVE Locked'
  BY <1>4, PurgeStep, DeleteStep, PurgedStep, WriteStep
<1>5. ASSUME NEW s \in Spaces, NEW to \in {"active", "readOnly", "deleting"}, Change(s, to) PROVE Locked'
  BY <1>5, ChangeStep
<1>6. CASE UNCHANGED vars
  <2>1. UNCHANGED <<life, row, head, rotation, session, locks>>
    BY <1>6 DEF vars
  <2>2. \A t \in Sessions : session'[t] = session[t] /\ Of(t)' = Of(t)
    BY <2>1 DEF Of
  <2>3. \A s \in Spaces : Open(s)' => Open(s)
    BY <2>1 DEF Open
  <2>4. ASSUME NEW c \in Claims PROVE ClaimInv(c)'
    BY <2>2, <2>3, Names, ClaimStays DEF Locked
  <2>5. ASSUME NEW t \in Completions PROVE CompletionInv(t)'
    BY <2>2, Names, CompletionStays DEF Locked
  <2>6. ASSUME NEW s \in Spaces PROVE PurgeInv(s)'
    BY <2>1, <2>2, Names, PurgeStays DEF Locked
  <2>7. Typed' /\ TypeOK' /\ FencedStands' /\ NothingLeft'
    BY <2>1 DEF Locked, Typed, TypeOK, FencedStands, NothingLeft
  <2> QED BY <2>4, <2>5, <2>6, <2>7 DEF Locked
<1> QED BY <1>1, <1>2, <1>3, <1>4, <1>5, <1>6 DEF Next

-----------------------------------------------------------------------------
(* Who holds a row of a space holds the space. *)
LEMMA SpaceFirst ==
  ASSUME Locked, NEW l \in locks, l[2] \in {"row", "head", "rotation"}
  PROVE  /\ l[3] \in Spaces
         /\ l[1] # <<"purge", l[3]>> => session[<<"purge", l[3]>>].pc = "idle"
         /\ l[1] \in Claims => session[l[1]].pc = "rotate" /\ l[2] # "head"
         /\ l[1] \in Completions =>
              /\ session[l[1]].pc \in {"head", "done"} /\ l[3] = session[l[1]].on
              /\ l[2] = "head" => session[l[1]].pc = "done"
<1>1. l[1] \in Sessions /\ l \in Of(l[1])
  BY DEF Locked, Typed, Of
<1>2. CASE l[1] \in Claims
  <2>1. l[3] \in Spaces /\ session[l[1]].pc = "rotate" /\ <<l[1], "space", l[3], "key">> \in locks /\ l[2] # "head"
    BY <1>1, <1>2 DEF Locked, ClaimInv, Fences, Has
  <2>2. PICK k \in locks : k[1] = l[1] /\ k[2] = "space" /\ k[3] = l[3]
    BY <2>1
  <2> QED BY <1>2, <2>1, <2>2, FencedOut, Names
<1>3. CASE l[1] \in Completions
  <2>1. /\ l[3] = session[l[1]].on /\ l[3] \in Spaces /\ session[l[1]].pc \in {"head", "done"}
        /\ <<l[1], "space", l[3], "share">> \in locks
        /\ l[2] = "head" => session[l[1]].pc = "done"
    BY <1>1, <1>3 DEF Locked, CompletionInv, Has
  <2>2. PICK k \in locks : k[1] = l[1] /\ k[2] = "space" /\ k[3] = l[3]
    BY <2>1
  <2> QED BY <1>3, <2>1, <2>2, FencedOut, Names
<1>4. CASE \E s \in Spaces : l[1] = <<"purge", s>>
  <2>1. PICK s \in Spaces : l[1] = <<"purge", s>>
    BY <1>4
  <2>2. l[3] = s
    BY <1>1, <2>1 DEF Locked, PurgeInv
  <2> QED BY <2>1, <2>2, Names
<1> QED BY <1>1, <1>2, <1>3, <1>4 DEF Sessions, Purges

LEMMA Waits ==
  ASSUME NEW t
  PROVE  /\ session[t].pc = "fence" /\ session[t].todo # {} =>
               WaitsFor(t) = Holders(t, "space", Lowest(t), "key")
         /\ session[t].pc = "rotate" /\ session[t].todo # {} =>
               WaitsFor(t) = IF rotation[Lowest(t)] THEN Holders(t, "rotation", Lowest(t), "update")
                             ELSE Holders(t, "space", Lowest(t), "key")
         /\ session[t].pc = "lease" => WaitsFor(t) = Holders(t, "row", session[t].on, "update")
         /\ session[t].pc = "head" => WaitsFor(t) = Holders(t, "head", session[t].on, "update")
         /\ session[t].pc \in {"idle", "done"} => WaitsFor(t) = {}
         /\ session[t].pc \in {"fence", "rotate"} /\ session[t].todo = {} => WaitsFor(t) = {}
<1>1. DOMAIN Deletes = {"heads", "rotation", "rows"}
  BY DEF Deletes
<1> QED BY <1>1 DEF WaitsFor

LEMMA PurgesGoOn == ASSUME Locked, NEW s \in Spaces PROVE WaitsFor(<<"purge", s>>) = {}
<1>0. PICK t \in Sessions : t = <<"purge", s>> /\ t[2] = s
  BY Names
<1>1. session[t].pc \in {"idle", "heads", "rotation", "rows", "commit"}
  BY <1>0 DEF Locked, PurgeInv
<1>2. DOMAIN Deletes = {"heads", "rotation", "rows"}
      /\ \A pc \in DOMAIN Deletes : Deletes[pc][1] \in {"head", "rotation", "row"}
  BY DEF Deletes
<1>3. session[t].pc # "idle" => \A kind \in {"head", "rotation", "row"} : Holders(t, kind, s, "update") = {}
  <2> SUFFICES ASSUME session[t].pc # "idle", NEW l \in locks, l[1] # t, l[3] = s, l[2] \in {"head", "rotation", "row"}
               PROVE  FALSE
    BY DEF Holders
  <2> QED BY <1>0, SpaceFirst
<1> QED BY <1>0, <1>1, <1>2, <1>3 DEF WaitsFor

(* A claim that serves its rows is alone with their rotation. *)
LEMMA ClaimsServe == ASSUME Locked, NEW c \in Claims, session[c].pc = "rotate" PROVE WaitsFor(c) = {}
<1>1. CASE session[c].todo = {}
  BY <1>1, Waits
<1>2. CASE session[c].todo # {}
  <2>1. PICK s \in Spaces : s = Lowest(c) /\ s \in session[c].todo /\ <<c, "space", s, "key">> \in locks
    BY <1>2, LowestIn, Names DEF Locked, ClaimInv, Has
  <2>2. PICK k \in locks : k[1] = c /\ k[2] = "space" /\ k[3] = s
    BY <2>1
  <2>3. session[<<"purge", s>>].pc = "idle"
    BY <2>2, FencedOut, Names
  <2>4. Holders(c, "rotation", s, "update") = {}
    <3> SUFFICES ASSUME NEW l \in locks, l[1] # c, l[2] = "rotation", l[3] = s PROVE FALSE
      BY DEF Holders
    <3>1. l[1] \in Sessions /\ l \in Of(l[1])
      BY DEF Locked, Typed, Of
    <3>2. l[1] \notin Claims
      BY SpaceFirst, OneClaim
    <3>3. l[1] \notin Completions
      BY <3>1 DEF Locked, CompletionInv
    <3>4. PICK q \in Spaces : l[1] = <<"purge", q>>
      BY <3>1, <3>2, <3>3 DEF Sessions, Purges
    <3>5. l[3] = q /\ session[<<"purge", q>>].pc # "idle"
      BY <3>1, <3>4 DEF Locked, PurgeInv
    <3> QED BY <2>3, <3>5
  <2>5. Holders(c, "space", s, "key") = {}
    <3> SUFFICES ASSUME NEW l \in locks, l[1] # c, l[2] = "space", l[3] = s, Conflict(l[4], "key") PROVE FALSE
      BY DEF Holders
    <3>1. l[4] = "update"
      BY DEF Conflict
    <3> QED BY <2>2, <3>1 DEF Locked, TypeOK
  <2> QED BY <1>2, <2>1, <2>4, <2>5, Waits
<1> QED BY <1>1, <1>2

(* Nobody else holds the head of a row a completion holds. *)
LEMMA CompletionsDeliver ==
  ASSUME Locked, NEW t \in Completions, session[t].pc \in {"head", "done"} PROVE WaitsFor(t) = {}
<1>1. CASE session[t].pc = "done"
  BY <1>1, Waits
<1>2. CASE session[t].pc = "head"
  <2>1. PICK s \in Spaces : /\ s = session[t].on /\ <<t, "row", s, "update">> \in locks
                           /\ <<t, "space", s, "share">> \in locks
    BY <1>2 DEF Locked, CompletionInv, Has
  <2>2. PICK k \in locks : k[1] = t /\ k[2] = "row" /\ k[3] = s /\ k[4] = "update"
    BY <2>1
  <2>3. session[<<"purge", s>>].pc = "idle"
    BY <2>2, SpaceFirst, Names
  <2>4. Holders(t, "head", s, "update") = {}
    <3> SUFFICES ASSUME NEW l \in locks, l[1] # t, l[2] = "head", l[3] = s PROVE FALSE
      BY DEF Holders
    <3>1. l[1] \in Sessions /\ l \in Of(l[1]) /\ l[1] \notin Claims
      BY SpaceFirst DEF Locked, Typed, Of
    <3>2. CASE l[1] \in Completions
      <4>1. <<l[1], "row", s, "update">> \in locks
        BY <3>2, SpaceFirst DEF Locked, CompletionInv, Has
      <4>2. PICK j \in locks : j[1] = l[1] /\ j[2] = "row" /\ j[3] = s /\ j[4] = "update"
        BY <4>1
      <4> QED BY <2>2, <4>2 DEF Locked, TypeOK
    <3>3. CASE \E q \in Spaces : l[1] = <<"purge", q>>
      <4>1. PICK q \in Spaces : l[1] = <<"purge", q>>
        BY <3>3
      <4>2. l[3] = q /\ session[<<"purge", q>>].pc # "idle"
        BY <3>1, <4>1 DEF Locked, PurgeInv
      <4> QED BY <2>3, <4>2
    <3> QED BY <3>1, <3>2, <3>3 DEF Sessions, Purges
  <2> QED BY <1>2, <2>1, <2>4, Waits
<1> QED BY <1>1, <1>2

(* Whoever somebody waits for does not wait: no chain of waits has two links. *)
LEMMA ShortChains ==
  ASSUME Locked, NEW t \in Sessions, NEW u \in WaitsFor(t)
  PROVE  WaitsFor(u) = {}
<1>1. CASE t \in Claims
  <2>1. session[t].pc = "fence" /\ session[t].todo # {}
    BY <1>1, ClaimsServe, Waits DEF Locked, ClaimInv
  <2>2. PICK l \in locks : l[1] = u /\ l[2] = "space" /\ l[4] = "update"
    BY <2>1, Waits DEF Holders, Conflict
  <2>3. u \in Sessions /\ l \in Of(u)
    BY <2>2 DEF Locked, Typed, Of
  <2>4. u \notin Claims
    BY <2>2, <2>3 DEF Locked, ClaimInv, Fences
  <2>5. u \notin Completions
    BY <2>2, <2>3 DEF Locked, CompletionInv
  <2> QED BY <2>3, <2>4, <2>5, PurgesGoOn DEF Sessions, Purges
<1>2. CASE t \in Completions
  <2>1. session[t].pc = "lease"
    BY <1>2, CompletionsDeliver, Waits DEF Locked, CompletionInv
  <2>2. PICK l \in locks : l[1] = u /\ l[2] = "row"
    BY <2>1, Waits DEF Holders
  <2>3. u \in Sessions
    BY <2>2 DEF Locked, Typed
  <2> QED BY <2>2, <2>3, SpaceFirst, ClaimsServe, CompletionsDeliver, PurgesGoOn DEF Sessions, Purges
<1>3. CASE \E s \in Spaces : t = <<"purge", s>>
  BY <1>3, PurgesGoOn
<1> QED BY <1>1, <1>2, <1>3 DEF Sessions, Purges

LEMMA LockedNoCycle == Locked => NoWaitCycle
<1> SUFFICES ASSUME Locked, NEW S \in SUBSET Sessions, S # {}
             PROVE  \E t \in S : WaitsFor(t) \cap S = {}
  BY DEF NoWaitCycle
<1>1. PICK t \in S : TRUE
  OBVIOUS
<1>2. CASE WaitsFor(t) \cap S = {}
  BY <1>2
<1>3. CASE WaitsFor(t) \cap S # {}
  <2>1. PICK u \in S : u \in WaitsFor(t)
    BY <1>3
  <2>2. WaitsFor(u) = {}
    BY <2>1, ShortChains
  <2> QED BY <2>2
<1> QED BY <1>2, <1>3

-----------------------------------------------------------------------------
(* While no space is suspended: no two transactions hold locks that conflict. *)
THEOREM LocksExclude == Spec /\ NoneSuspended => []TypeOK
<1>1. Locked => TypeOK
  BY DEF Locked
<1> QED BY <1>1, InitLocked, NextLocked, PTL DEF Spec

(* Claims, completions and purges never wait for each other in a circle,      *)
(* however many run at once and whatever spaces they are about.               *)
THEOREM NoDeadlock == Spec /\ NoneSuspended => []NoWaitCycle
BY InitLocked, NextLocked, LockedNoCycle, PTL DEF Spec

(* A purge that ended left no row of its space in the outbox, its heads or    *)
(* its rotation, and no claim or completion puts one there afterwards.        *)
THEOREM PurgeIsFinal == Spec /\ NoneSuspended => []NothingLeft
<1>1. Locked => NothingLeft
  BY DEF Locked
<1> QED BY <1>1, InitLocked, NextLocked, PTL DEF Spec

(* The three at once: what the run of the suite checks on two claims, a       *)
(* completion and the purges of two spaces.                                   *)
THEOREM DispatchSafe == Spec /\ NoneSuspended => []DispatchHolds
BY LocksExclude, NoDeadlock, PurgeIsFinal, PTL DEF DispatchHolds
=============================================================================
