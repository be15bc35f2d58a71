------------------------------- MODULE Search --------------------------------
(****************************************************************************)
(* One search while authority changes under it (PostgresRetrievalSearch):   *)
(* a plan of what the caller may read, candidate lists read in snapshots of *)
(* their own, then a reread under share locks that decides what is returned.*)
(* A claim is a Ref that cites collections; every Ref matches the query.    *)
(****************************************************************************)
EXTENDS Naturals, FiniteSets, FiniteSetsExt

CONSTANTS CollOf, Cites, \* of each Ref: its collection, the collections it cites
          Canonical, \* Refs whose text is read only when a page holds them
          Lexical, Vector, Exact, \* collections by what their generations enable
          Bound, Limit, \* candidates considered, hits returned
          KeyEnds, SourceEnds, \* when the key, and its grants to read sources, end
          MaxTime, MaxRev, MaxChanges

VARIABLES owner, \* whether the caller is a session of the owner
          clock,
          auth, \* what authority holds: the space, collections, grants and policies
          rev, \* the revision of each Ref, 0 once deleted
          chunk, \* the revision each generation holds of each Ref
          call, \* the search
          since, \* when each Ref last changed: before it was planned, reread, or after
          late, \* whether policy narrowed after the admission in hand was read
          changes

vars == <<owner, clock, auth, rev, chunk, call, since, late, changes>>

Refs == DOMAIN CollOf
Colls == 1..Max({CollOf[x] : x \in Refs} \cup UNION {Cites[x] : x \in Refs})
Gens == 1..2
Kind(x) == IF Cites[x] = {} THEN "record" ELSE "claim"
Pairs == {<<c, k>> : c \in Colls, k \in {"record", "claim", "source"}}

SearchAssumption ==
  /\ DOMAIN Cites = Refs /\ Canonical \subseteq {x \in Refs : Kind(x) = "record"}
  /\ {Lexical, Vector, Exact} \subseteq SUBSET Colls
  /\ {Bound, Limit, KeyEnds, SourceEnds, MaxTime, MaxRev, MaxChanges} \subseteq Nat
  /\ Limit \in 1..Bound

NoCall == [pc |-> "idle", evidence |-> {}, reads |-> {}, gens |-> [c \in Colls |-> 0],
           relied |-> {}, worst |-> [c \in Colls |-> "current"], todo |-> {}, used |-> {},
           sent |-> {}, until |-> 0, found |-> {}, full |-> FALSE, approximate |-> FALSE,
           access |-> {}, now |-> [c \in Colls |-> 0], seen |-> [x \in Refs |-> 0],
           kept |-> {}, texts |-> {}, rejected |-> FALSE, hits |-> {}, locked |-> {}]

Init ==
  /\ owner \in BOOLEAN /\ clock = 0
  /\ auth \in [open : {TRUE}, live : {Colls}, grants : {Pairs}, allowed : {Colls},
               active : [Colls -> 0..1]]
  /\ rev = [x \in Refs |-> 1]
  /\ chunk = [g \in Gens |-> [x \in Refs |-> IF g = 1 /\ auth.active[CollOf[x]] = 1 THEN 1 ELSE 0]]
  /\ call = NoCall /\ since = [x \in Refs |-> "same"] /\ late = FALSE /\ changes = 0

-----------------------------------------------------------------------------
(* What the caller may read now. *)
Ends(p) == IF p[2] = "source" THEN SourceEnds ELSE KeyEnds
Granted(p) == p \in auth.grants /\ p[1] \in auth.live /\ clock < Ends(p) /\ clock < KeyEnds
MayRead(p) == IF owner THEN p[1] \in auth.live ELSE Granted(p)

(* claimVisible: a claim is a candidate only when all it cites is live and readable. *)
Visible(x, evidence) == Cites[x] \subseteq auth.live \cap evidence
Planned == {p[1] : p \in call.reads}
Indexed == {c \in Planned : call.gens[c] # 0}
PairOf(x) == <<CollOf[x], Kind(x)>>

(* Work the caller could see is due for the collection. *)
Behind(c) ==
  \E x \in Refs :
    /\ CollOf[x] = c /\ PairOf(x) \in call.reads /\ Visible(x, call.evidence)
    /\ chunk[auth.active[c]][x] # rev[x]

(* observeStates: the worst that was seen stays. *)
Observed(cs, worst) ==
  [c \in Colls |-> IF c \in cs /\ c \in Indexed /\ worst[c] = "current" /\ Behind(c)
                   THEN "pending" ELSE worst[c]]

At(pc) == call.pc = pc
To(pc) == call' = [call EXCEPT !.pc = pc]
Untouched == UNCHANGED <<owner, clock, auth, rev, chunk, since, late, changes>>
Refused == To("refused") /\ Untouched

(* The search is refused, or fails when a statement of its own does. *)
Fails == call.pc \in {"evidence", "plan", "states", "lexical", "lock", "generations",
                      "observe", "reread", "cited", "page", "assert", "commit"} /\ Refused

-----------------------------------------------------------------------------
(* The plan: three statements of one transaction. *)
Evidence ==
  /\ At("idle") /\ auth.open
  /\ call' = [call EXCEPT !.pc = "plan", !.evidence =
        IF owner THEN Colls ELSE {c \in Colls : Granted(<<c, "source">>)}]
  /\ since' = [x \in Refs |-> "same"] /\ late' = FALSE
  /\ UNCHANGED <<owner, clock, auth, rev, chunk, changes>>

(* dependencies: all that the response follows from. *)
Relied(reads, gens) ==
  reads \cup IF \E p \in reads : p[2] = "claim" /\ gens[p[1]] # 0
             THEN {<<c, "source">> : c \in call.evidence} ELSE {}
Plan ==
  /\ At("plan")
  /\ LET reads == {p \in {PairOf(x) : x \in Refs} : MayRead(p)}
         gens == [c \in Colls |-> IF \E p \in reads : p[1] = c THEN auth.active[c] ELSE 0]
     IN  /\ owner \/ reads # {}
         /\ call' = [call EXCEPT !.pc = "states", !.reads = reads, !.gens = gens,
              !.relied = Relied(reads, gens), !.todo = {c \in Vector \cap auth.allowed : gens[c] # 0}]
  /\ Untouched
PlanNothing == At("plan") /\ ~owner /\ (\A x \in Refs : ~Granted(PairOf(x))) /\ Refused

NextStage(todo) == IF todo = {} THEN "lexical" ELSE "check"
States ==
  /\ At("states") /\ Untouched
  /\ call' = [call EXCEPT !.pc = NextStage(call.todo),
       !.worst = Observed(Planned, [c \in Colls |-> IF c \in Planned /\ call.gens[c] = 0
                                                    THEN "unindexed" ELSE "current"])]

-----------------------------------------------------------------------------
(* One group, a collection with its embedder, at a time. *)
Group == Min(call.todo)
Skip == call' = [call EXCEPT !.todo = call.todo \ {Group}, !.pc = NextStage(call.todo \ {Group})]

(* assertCurrent: everything relied on is held by a key that has not ended; the *)
(* deadline is measured from before the read, so it is never later than theirs. *)
Earliest(relied) == Min({KeyEnds} \cup {Ends(p) : p \in IF owner THEN {} ELSE relied})
Current(relied) == owner \/ \A p \in relied : Granted(p)
Asserts(relied, next) ==
  \E early \in 0..1 :
    /\ clock < KeyEnds /\ Current(relied) /\ Earliest(relied) >= early
    /\ call' = [call EXCEPT !.pc = next, !.until = Earliest(relied) - early, !.relied = relied]
Lapsed == clock >= call.until

Check == At("check") /\ Asserts(call.relied, "admit") /\ Untouched
CheckDenied == At("check") /\ (clock >= KeyEnds \/ ~Current(call.relied)) /\ Refused

(* admission: is the query still allowed to leave for this collection's region? *)
Admitted(c) ==
  auth.open /\ c \in auth.live /\ auth.active[c] = call.gens[c] /\ c \in auth.allowed
Admit ==
  /\ At("admit") /\ late' = FALSE
  /\ IF Admitted(Group) THEN To("send") ELSE Skip
  /\ UNCHANGED <<owner, clock, auth, rev, chunk, since, changes>>
Send ==
  /\ At("send") /\ ~Lapsed /\ Untouched
  /\ call' = [call EXCEPT !.pc = "embedding", !.sent = @ \cup {Group}]
SendDenied == At("send") /\ Lapsed /\ Refused
Embed == At("embedding") /\ To("nearest") /\ Untouched

(* A read or a call of the group fails, or the budget of all groups is spent. *)
GroupFails ==
  /\ call.pc \in {"check", "admit", "embedding", "nearest"} /\ Untouched
  /\ Skip \/ call' = [call EXCEPT !.todo = {}, !.pc = "lexical"]

-----------------------------------------------------------------------------
(* Candidates: chunks of what is live and readable in the snapshot they are read in. *)
Listed(cs, list) ==
  {[list |-> list, ref |-> x, rev |-> rev[x], gen |-> call.gens[CollOf[x]]] :
     x \in {x \in Refs : /\ CollOf[x] \in cs \cap Indexed \cap auth.live /\ PairOf(x) \in call.reads
                         /\ rev[x] # 0 /\ chunk[call.gens[CollOf[x]]][x] = rev[x]
                         /\ Visible(x, call.evidence)}}
Least(a, b) == IF a < b THEN a ELSE b
Top(n, items) == {s \in SUBSET items : Cardinality(s) = Least(n, Cardinality(items))}

Nearest ==
  /\ At("nearest") /\ Untouched
  /\ \E list \in IF Group \in Exact THEN Top(Bound, Listed({Group}, "vector"))
                 ELSE UNION {Top(n, Listed({Group}, "vector")) : n \in 0..Bound} :
       LET rest == call.todo \ {Group} IN
       call' = [call EXCEPT !.pc = NextStage(rest), !.todo = rest, !.used = @ \cup {Group},
            !.found = @ \cup list, !.full = @ \/ Cardinality(list) >= Bound,
            !.approximate = @ \/ (Cardinality(list) < Bound /\ Group \notin Exact),
            !.worst = Observed({Group}, @)]

(* The lexical list, and the best Refs of both. *)
LexicalList ==
  /\ At("lexical") /\ Untouched
  /\ \E list \in Top(Bound, Listed(Lexical, "lexical")) :
       LET found == call.found \cup list
           refs == {hit.ref : hit \in found}
       IN  \E considered \in Top(Bound, refs) :
             call' = [call EXCEPT !.pc = "lock", !.found = {hit \in found : hit.ref \in considered},
                  !.full = @ \/ Cardinality(list) >= Bound \/ Cardinality(refs) > Bound,
                  !.worst = Observed(Lexical, @)]

-----------------------------------------------------------------------------
(* The reread. lockScope: the space, and the key's grants or the owner's collections. *)
LockScope ==
  /\ At("lock") /\ auth.open /\ (owner \/ clock < KeyEnds)
  /\ LET access == IF owner THEN {<<c, k>> : c \in Planned \cap auth.live, k \in {"record", "claim", "source"}}
                   ELSE {p \in Pairs : Granted(p)}
     IN  /\ owner \/ call.relied \subseteq access
         /\ call' = [call EXCEPT !.pc = "generations", !.access = access,
                                 !.locked = {p[1] : p \in access}]
  /\ Untouched
LockDenied ==
  /\ At("lock") /\ Refused
  /\ ~auth.open \/ (~owner /\ (clock >= KeyEnds \/ \E p \in call.relied : ~Granted(p)))

(* activeGenerations: share locked through commit. *)
ActiveGenerations ==
  /\ At("generations") /\ Untouched
  /\ call' = [call EXCEPT !.pc = "observe", !.now = [c \in Colls |-> IF c \in Planned THEN auth.active[c] ELSE 0]]
Moved(c) == call.now[c] # call.gens[c]
Observe ==
  /\ At("observe") /\ Untouched
  /\ LET worst == Observed(Planned, call.worst)
     IN  call' = [call EXCEPT !.pc = "reread", !.worst =
           [c \in Colls |-> IF c \in Indexed /\ Moved(c) /\ worst[c] = "current" THEN "pending" ELSE worst[c]]]

(* reread: every candidate in one statement, at the revision authority holds now. *)
Reread == At("reread") /\ call' = [call EXCEPT !.pc = "cited", !.seen = rev] /\ Untouched

(* Wrong: a citation of a generation that was replaced since. *)
HoldsAnyGeneration(hit) == call.seen[hit.ref] = hit.rev

(* citedCollections, and what of each candidate still holds: only citations in the  *)
(* active generation of exactly what authority holds, and only under the read rule. *)
Holds(hit) == call.now[CollOf[hit.ref]] = hit.gen /\ call.seen[hit.ref] = hit.rev
ReadRule(x) ==
  /\ PairOf(x) \in call.access /\ Cites[x] \subseteq auth.live
  /\ owner \/ \A c \in Cites[x] : <<c, "source">> \in call.access
Validate ==
  /\ At("cited") /\ Untouched
  /\ LET considered == {hit.ref : hit \in call.found}
         kept == {hit \in call.found : call.seen[hit.ref] # 0 /\ Holds(hit) /\ ReadRule(hit.ref)}
     IN  call' = [call EXCEPT !.pc = "page", !.kept = kept,
           !.rejected = considered # {hit.ref : hit \in kept},
           !.locked = @ \cup UNION {Cites[x] : x \in considered}]

(* The page. A canonical record's text is read now, or its citation is dropped and *)
(* the page is taken again.                                                        *)
Page ==
  /\ At("page") /\ Untouched
  /\ \E page \in Top(Limit, {hit.ref : hit \in call.kept}) :
       LET wanted == (page \cap Canonical) \ call.texts
           gone == {x \in wanted : rev[x] # call.seen[x]}
       IN  call' = IF gone = {}
             THEN [call EXCEPT !.pc = "assert", !.hits = {hit \in call.kept : hit.ref \in page}]
             ELSE [call EXCEPT !.kept = {hit \in @ : hit.ref \notin gone}, !.rejected = TRUE,
                               !.texts = @ \cup (wanted \ gone)]

ReliedInTheEnd == call.relied \cup {<<c, "source">> : c \in UNION {Cites[hit.ref] : hit \in call.hits}}
Assert == At("assert") /\ Asserts(ReliedInTheEnd, "commit") /\ Untouched
AssertDenied == At("assert") /\ (clock >= KeyEnds \/ ~Current(ReliedInTheEnd)) /\ Refused
Commit == At("commit") /\ call' = [call EXCEPT !.pc = "committed", !.locked = {}] /\ Untouched

(* Locks fence revocation, not time: expired access answers nothing. *)
Answer == At("committed") /\ To(IF Lapsed THEN "refused" ELSE "answered") /\ Untouched

(* Coverage from what actually ran, and the claim that nothing more is there. *)
Searched(c) == c \in Lexical \cup call.used
Exhausted ==
  /\ ~call.full /\ ~call.approximate
  /\ \A c \in Planned : /\ c \in Indexed /\ Searched(c) /\ call.worst[c] = "current"
                        /\ c \in Vector => c \in call.used
Returned == {hit.ref : hit \in call.hits}

Searching ==
  \/ Evidence \/ Plan \/ PlanNothing \/ States
  \/ Check \/ CheckDenied \/ Admit \/ Send \/ SendDenied \/ Embed \/ GroupFails \/ Nearest
  \/ LexicalList \/ LockScope \/ LockDenied \/ ActiveGenerations \/ Observe \/ Reread
  \/ Validate \/ Page \/ Assert \/ AssertDenied \/ Commit \/ Answer \/ Fails

-----------------------------------------------------------------------------
(* The others. What the search holds share locked, they wait for. *)
Running == call.pc \notin {"answered", "refused"}
Rereading == call.pc \in {"generations", "observe", "reread", "cited", "page", "assert", "commit"}
GenerationsHeld == call.pc \in {"observe", "reread", "cited", "page", "assert", "commit"}
Read == call.pc \in {"cited", "page", "assert", "commit", "committed"}

Changes == Running /\ changes < MaxChanges /\ changes' = changes + 1
Sets(a) == auth' = a /\ UNCHANGED <<owner, clock, rev, chunk, call, since>>

Write(x, r) ==
  /\ Changes /\ CollOf[x] \in auth.live /\ rev[x] # 0 /\ r <= MaxRev /\ rev' = [rev EXCEPT ![x] = r]
  /\ since' = [since EXCEPT ![x] = IF Read THEN "after" ELSE "before"]
  /\ UNCHANGED <<owner, clock, auth, chunk, call, late>>
Project(x) ==
  LET g == auth.active[CollOf[x]] IN
  /\ Running /\ g # 0 /\ chunk[g][x] # rev[x] /\ chunk' = [chunk EXCEPT ![g][x] = rev[x]]
  /\ UNCHANGED <<owner, clock, auth, rev, call, since, late, changes>>
Cutover(c) ==
  /\ Changes /\ c \in auth.live /\ auth.active[c] # 2 /\ ~(GenerationsHeld /\ c \in Planned)
  /\ auth' = [auth EXCEPT !.active[c] = 2]
  /\ chunk' = [chunk EXCEPT ![2] = [x \in Refs |-> IF CollOf[x] = c THEN rev[x] ELSE @[x]]]
  /\ UNCHANGED <<owner, clock, rev, call, since, late>>
Prune(c) ==
  /\ Running /\ auth.active[c] = 2 /\ \E x \in Refs : CollOf[x] = c /\ chunk[1][x] # 0
  /\ chunk' = [chunk EXCEPT ![1] = [x \in Refs |-> IF CollOf[x] = c THEN 0 ELSE @[x]]]
  /\ UNCHANGED <<owner, clock, auth, rev, call, since, late, changes>>
Narrow(c) ==
  /\ Changes /\ c \in auth.allowed /\ Sets([auth EXCEPT !.allowed = @ \ {c}])
  /\ late' = (late \/ (At("send") /\ c = Group))
Revoke(p) ==
  /\ Changes /\ ~owner /\ ~Rereading /\ p \in auth.grants /\ Sets([auth EXCEPT !.grants = @ \ {p}])
  /\ UNCHANGED late
Delete(c) ==
  /\ Changes /\ c \in auth.live \ call.locked /\ Sets([auth EXCEPT !.live = @ \ {c}]) /\ UNCHANGED late
Fence == Changes /\ auth.open /\ ~Rereading /\ Sets([auth EXCEPT !.open = FALSE]) /\ UNCHANGED late
Tick ==
  /\ Running /\ clock < MaxTime /\ clock' = clock + 1
  /\ UNCHANGED <<owner, auth, rev, chunk, call, since, late, changes>>

Next ==
  \/ Searching \/ Fence \/ Tick
  \/ \E x \in Refs : Write(x, rev[x] + 1) \/ Write(x, 0) \/ Project(x)
  \/ \E c \in Colls : Cutover(c) \/ Prune(c) \/ Narrow(c) \/ Delete(c)
  \/ \E p \in {PairOf(x) : x \in Refs} \cup {<<c, "source">> : c \in UNION {Cites[x] : x \in Refs}} :
       Revoke(p)

Spec == Init /\ [][Next]_vars
-----------------------------------------------------------------------------
TypeOK ==
  /\ clock \in 0..MaxTime /\ auth.live \subseteq Colls /\ auth.grants \subseteq Pairs
  /\ \A x \in Refs : rev[x] \in 0..MaxRev /\ since[x] \in {"same", "before", "after"}
  /\ call.sent \subseteq Vector /\ call.used \subseteq call.sent /\ Cardinality(Returned) <= Limit

(* When a search commits, its space is open as admitted, every grant its answer *)
(* follows from is held, and every hit is of the generation that is active, in  *)
(* live collections down to the ones its claim cites.                           *)
HeldAtCommit ==
  At("commit") =>
    /\ auth.open /\ (owner \/ call.relied \subseteq {p \in auth.grants : p[1] \in auth.live})
    /\ \A hit \in call.hits :
         /\ auth.active[CollOf[hit.ref]] = hit.gen
         /\ {CollOf[hit.ref]} \cup Cites[hit.ref] \subseteq auth.live

(* A hit is of the revision its Ref has, unless that changed after the reread. *)
HitsAreFresh ==
  \A hit \in call.hits : hit.rev # 0 /\ (since[hit.ref] # "after" => rev[hit.ref] = hit.rev)

(* A page that is short because the search is exhausted misses no readable Ref *)
(* that stayed as it was while the search ran.                                 *)
ExhaustedIsAll ==
  At("answered") /\ Cardinality(Returned) < Limit /\ Exhausted =>
    \A x \in Refs : (/\ since[x] = "same" /\ rev[x] # 0 /\ PairOf(x) \in call.reads
                     /\ CollOf[x] \in auth.live /\ Visible(x, call.evidence))
                    => x \in Returned

(* A query leaves for an embedder only where policy allowed it when its        *)
(* admission was read, and neither it nor an answer goes out once anything the *)
(* search relies on has ended.                                                 *)
SentOnlyWhile ==
  /\ call.sent' # call.sent => Group \in auth.allowed \/ late
  /\ call.sent' # call.sent \/ (call.pc' = "answered" /\ call.pc # "answered") =>
       clock < Earliest(call.relied)
===============================================================================
