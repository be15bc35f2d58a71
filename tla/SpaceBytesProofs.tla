-------------------------- MODULE SpaceBytesProofs --------------------------
(***************************************************************************)
(* Proofs about the bytes the suite of the control plane (MCSpaces) keeps  *)
(* and erases, whatever its constants are.                                 *)
(*                                                                         *)
(* Texts and uploads.  Bytes leave the store only under attempts that      *)
(* failed, and failed attempts stay failed: so a delete that is late or    *)
(* repeated, a tick, a sweep or a revocation cannot touch what a commit    *)
(* relies on, although the commit looked at the store before its           *)
(* transaction.  What a step may do to an attempt is one of six changes    *)
(* (Change); an action is shown to make only these, to move one call to a  *)
(* place that fits it (CallOK) and to remove only what failed, and that    *)
(* keeps the invariant.                                                    *)
(*                                                                         *)
(* Removals.  A key that a removal deleted is in the store again only as   *)
(* written late and unseen, or found by the sweep, which counts it; so a   *)
(* removal whose count is still the erasure's records what is so           *)
(* (OriginalErasure!Inv).                                                  *)
(*                                                                         *)
(* Spaces.  A tick records the request it read only if no purge and no     *)
(* finding came since, and then its empty listing still says that no       *)
(* stored key was seen (SpaceErasure!Inv).                                 *)
(***************************************************************************)
EXTENDS MCSpaces, Sequences, FiniteSetTheorems, TLAPS

----------------------------------------------------------------------------
(* Texts and uploads: SourceUploads, by its own names. *)

AllCalls == Calls \union Reconcilers

Places == {"idle", "stage", "staging", "verify", "ensure", "promote", "promoting", "present",
           "commit", "abandon", "unpromote", "unstage", "record", "done"}

(* The types of TypeOK. *)
Types ==
    /\ grant \in [AllGrants -> Grant]
    /\ attempt \in [Calls -> Attempt]
    /\ source \in [SourceIds -> Calls \union {None}]
    /\ store \subseteq Keys /\ deleting \subseteq Keys /\ writing \subseteq Keys \X Calls
    /\ call \in [AllCalls -> Call]

(* What the ledger and the store say of an attempt: deletes that may still land
   are of failed ones, and a committed one has its bytes and its source. *)
AttemptOK(a) ==
    /\ attempt[a].state # "none" => attempt[a].grant \in AllGrants
    /\ attempt[a].state \in {"verified", "committed"} => attempt[a].digest
    /\ attempt[a].removed => attempt[a].state \in {"committed", "failed"}
    /\ Original(a) \in deleting => attempt[a].state = "failed"
    /\ attempt[a].state = "committed" => Original(a) \in store /\ source[SourceOf(attempt[a].grant)] = a

SourceOK(s) ==
    source[s] # None => /\ attempt[source[s]].state = "committed"
                        /\ SourceOf(attempt[source[s]].grant) = s

(* What a call's place says: whoever deletes an original deletes a failed
   attempt's, and whoever is about to commit has seen bytes that are still there
   unless the attempt has failed since. *)
CallOK(c) ==
    /\ call[c].pc \notin {"idle", "done"} => call[c].at \in Calls
    /\ call[c].pc \in {"stage", "staging", "verify", "ensure", "promote", "promoting", "present", "commit"}
         => c \in Calls
    /\ call[c].pc \in {"stage", "staging", "verify"} => call[c].at = c
    /\ call[c].pc = "unpromote" => attempt[call[c].at].state = "failed"
    /\ call[c].pc = "commit" => Original(call[c].at) \in store \/ attempt[call[c].at].state = "failed"
    /\ call[c].answer # None => attempt[call[c].answer].state = "committed"
    /\ c \in Calls /\ call[c].pc = "idle" => attempt[c].state = "none" /\ ~attempt[c].digest

Inv ==
    /\ Types
    /\ \A a \in Calls : AttemptOK(a)
    /\ \A s \in SourceIds : SourceOK(s)
    /\ \A c \in AllCalls : CallOK(c)

----------------------------------------------------------------------------
(* What a step may do *)

Kept(a) ==
    /\ attempt'[a].state = attempt[a].state /\ attempt'[a].grant = attempt[a].grant
    /\ attempt'[a].digest = attempt[a].digest /\ attempt'[a].removed = attempt[a].removed

Opens(a) ==
    /\ attempt[a].state = "none" /\ ~attempt[a].digest
    /\ call[a].pc = "idle" /\ call'[a].pc # "idle"
    /\ attempt'[a].state \in {"receiving", "verified"} /\ attempt'[a].grant \in AllGrants
    /\ attempt'[a].state = "verified" => attempt'[a].digest
    /\ ~attempt'[a].removed

Fails(a) ==
    /\ attempt[a].state \in {"receiving", "verified"} /\ attempt'[a].state = "failed"
    /\ attempt'[a].grant = attempt[a].grant /\ attempt'[a].digest = attempt[a].digest
    /\ attempt'[a].removed = attempt[a].removed

Verifies(a) ==
    /\ attempt[a].state = "receiving" /\ attempt'[a].state = "verified"
    /\ attempt'[a].grant = attempt[a].grant /\ attempt'[a].digest
    /\ attempt'[a].removed = attempt[a].removed

Commits(a) ==
    /\ attempt[a].state = "verified" /\ attempt'[a].state = "committed"
    /\ attempt'[a].grant = attempt[a].grant /\ attempt'[a].digest = attempt[a].digest
    /\ source[SourceOf(attempt[a].grant)] = None
    /\ source' = [source EXCEPT ![SourceOf(attempt[a].grant)] = a]
    /\ Original(a) \in store

Cleans(a) ==
    /\ attempt[a].state \in {"committed", "failed"} /\ attempt'[a].state = attempt[a].state
    /\ attempt'[a].grant = attempt[a].grant /\ attempt'[a].digest = attempt[a].digest
    /\ attempt'[a].removed

Change(a) == Kept(a) \/ Opens(a) \/ Fails(a) \/ Verifies(a) \/ Commits(a) \/ Cleans(a)

(* Only a failed attempt's original goes, or is about to. *)
StoreStep ==
    \A a \in Calls : /\ Original(a) \in store /\ Original(a) \notin store' => attempt[a].state = "failed"
                     /\ Original(a) \in deleting' => Original(a) \in deleting \/ attempt[a].state = "failed"

GrantStep == \A g \in AllGrants : grant[g].ended # "no" => grant'[g].ended = grant[g].ended

CallStep == \A c \in AllCalls : call'[c] = call[c] \/ CallOK(c)'

Step ==
    /\ Types' /\ StoreStep /\ GrantStep /\ CallStep
    /\ \A a \in Calls : Change(a)
    /\ source' = source \/ \E a \in Calls : Commits(a)

----------------------------------------------------------------------------
(* A step of this kind keeps the invariant *)

LEMMA NoneApart == None \notin Calls /\ None \notin Grants /\ None \notin AllGrants
  BY UploadsAssumption DEF UploadsAssumption, AllGrants

LEMMA SourceOfGrant == ASSUME NEW g \in AllGrants PROVE SourceOf(g) \in SourceIds
  BY DEF AllGrants, SourceOf, SourceIds

(* Who has failed, and who has committed, has done so for good. *)
LEMMA EndedStays ==
  ASSUME NEW a \in Calls, Change(a)
  PROVE  /\ attempt[a].state = "failed" => attempt'[a].state = "failed"
         /\ attempt[a].state = "committed" => /\ attempt'[a].state = "committed"
                                              /\ attempt'[a].grant = attempt[a].grant
         /\ attempt[a].digest => attempt'[a].digest
  BY DEF Change, Kept, Opens, Fails, Verifies, Commits, Cleans

LEMMA KeepsAttempts ==
  ASSUME Inv, Step, NEW a \in Calls
  PROVE  AttemptOK(a)'
<1>1. AttemptOK(a) /\ Change(a) /\ attempt[a] \in Attempt
  BY DEF Inv, Step, Types
<1>2. /\ attempt'[a].state # "none" => attempt'[a].grant \in AllGrants
      /\ attempt'[a].state \in {"verified", "committed"} => attempt'[a].digest
      /\ attempt'[a].removed => attempt'[a].state \in {"committed", "failed"}
  BY <1>1 DEF AttemptOK, Change, Kept, Opens, Fails, Verifies, Commits, Cleans
<1>3. Original(a) \in deleting' => attempt'[a].state = "failed"
  <2>1. Original(a) \in deleting' => attempt[a].state = "failed"
    BY <1>1 DEF Step, StoreStep, AttemptOK
  <2> QED BY <2>1, <1>1, EndedStays
<1>4. attempt'[a].state = "committed" => Original(a) \in store'
  <2>1. attempt'[a].state = "committed" => attempt[a].state # "failed" /\ Original(a) \in store
    BY <1>1 DEF AttemptOK, Change, Kept, Opens, Fails, Verifies, Commits, Cleans
  <2> QED BY <2>1 DEF Step, StoreStep
<1>5. ASSUME attempt'[a].state = "committed"
      PROVE  source'[SourceOf(attempt'[a].grant)] = a
  <2>1. attempt[a].state = "committed" \/ Commits(a)
    BY <1>1, <1>5 DEF Change, Kept, Opens, Fails, Verifies, Commits, Cleans
  <2>2. CASE Commits(a)
    <3>1. attempt[a].grant \in AllGrants
      BY <2>2, <1>1 DEF Commits, AttemptOK
    <3>2. SourceOf(attempt[a].grant) \in DOMAIN source
      BY <3>1, SourceOfGrant DEF Inv, Types
    <3> QED BY <2>2, <3>2 DEF Commits
  <2>3. CASE attempt[a].state = "committed"
    <3>1. /\ attempt'[a].grant = attempt[a].grant
          /\ source[SourceOf(attempt[a].grant)] = a
      BY <2>3, <1>1, EndedStays DEF AttemptOK
    <3>2. ASSUME NEW b \in Calls, Commits(b)
          PROVE  source'[SourceOf(attempt[a].grant)] = a
      <4>1. SourceOf(attempt[b].grant) # SourceOf(attempt[a].grant)
        BY <3>1, <3>2, NoneApart DEF Commits
      <4> QED BY <4>1, <3>1, <3>2 DEF Commits, Inv, Types
    <3> QED BY <3>1, <3>2 DEF Step
  <2> QED BY <2>1, <2>2, <2>3
<1> QED BY <1>2, <1>3, <1>4, <1>5 DEF AttemptOK

LEMMA KeepsSources ==
  ASSUME Inv, Step, NEW s \in SourceIds
  PROVE  SourceOK(s)'
<1>1. SourceOK(s) /\ source[s] \in Calls \union {None}
  BY DEF Inv, Types
<1>2. CASE source'[s] = source[s]
  <2>1. SUFFICES ASSUME source[s] # None
        PROVE  attempt'[source[s]].state = "committed" /\ SourceOf(attempt'[source[s]].grant) = s
    BY <1>2 DEF SourceOK
  <2>2. source[s] \in Calls /\ Change(source[s]) /\ attempt[source[s]].state = "committed"
    BY <1>1, <2>1 DEF SourceOK, Step
  <2>3. attempt'[source[s]].state = "committed" /\ attempt'[source[s]].grant = attempt[source[s]].grant
    BY <2>2, EndedStays
  <2> QED BY <2>1, <2>3, <1>1 DEF SourceOK
<1>3. ASSUME NEW a \in Calls, Commits(a), source'[s] # source[s]
      PROVE  SourceOK(s)'
  <2>1. s = SourceOf(attempt[a].grant) /\ source'[s] = a
    BY <1>3 DEF Commits, Inv, Types
  <2> QED BY <2>1, <1>3 DEF Commits, SourceOK
<1> QED BY <1>2, <1>3 DEF Step

LEMMA KeepsCalls ==
  ASSUME Inv, Step, NEW c \in AllCalls
  PROVE  CallOK(c)'
<1>1. CallOK(c) /\ call[c] \in Call
  BY DEF Inv, Types
<1>2. SUFFICES ASSUME call'[c] = call[c] PROVE CallOK(c)'
  BY DEF Step, CallStep
<1>3. ASSUME NEW a \in Calls
      PROVE  /\ attempt[a].state = "failed" => attempt'[a].state = "failed"
             /\ attempt[a].state = "committed" => attempt'[a].state = "committed"
  BY EndedStays, <1>3 DEF Step
<1>4. call[c].pc = "unpromote" => attempt'[call[c].at].state = "failed"
  BY <1>1, <1>3 DEF CallOK
<1>5. call[c].pc = "commit" => Original(call[c].at) \in store' \/ attempt'[call[c].at].state = "failed"
  <2>1. SUFFICES ASSUME call[c].pc = "commit"
        PROVE  Original(call[c].at) \in store' \/ attempt'[call[c].at].state = "failed"
    OBVIOUS
  <2>2. call[c].at \in Calls
    BY <1>1, <2>1 DEF CallOK
  <2> QED BY <1>1, <1>3, <2>1, <2>2 DEF CallOK, Step, StoreStep
<1>6. call[c].answer # None => attempt'[call[c].answer].state = "committed"
  BY <1>1, <1>3 DEF CallOK, Call
<1>7. c \in Calls /\ call[c].pc = "idle" => attempt'[c].state = "none" /\ ~attempt'[c].digest
  BY <1>1, <1>2 DEF CallOK, Step, Change, Kept, Opens, Fails, Verifies, Commits, Cleans
<1> QED BY <1>1, <1>2, <1>4, <1>5, <1>6, <1>7 DEF CallOK

LEMMA StepKeeps == ASSUME Inv, Step PROVE Inv'
  <1>1. Types' BY DEF Step
  <1>2. \A a \in Calls : AttemptOK(a)' BY KeepsAttempts
  <1>3. \A s \in SourceIds : SourceOK(s)' BY KeepsSources
  <1>4. \A c \in AllCalls : CallOK(c)' BY KeepsCalls
  <1> QED BY <1>1, <1>2, <1>3, <1>4 DEF Inv

----------------------------------------------------------------------------
(* How a call moves *)

Others(c) == call' \in [AllCalls -> Call] /\ \A d \in AllCalls \ {c} : call'[d] = call[d]

LEMMA GotoMoves ==
  ASSUME Types, NEW c \in AllCalls, NEW pc \in Places, Goto(c, pc)
  PROVE  /\ Others(c) /\ call'[c].pc = pc
         /\ call'[c].at = call[c].at /\ call'[c].answer = call[c].answer
  BY DEF Goto, Types, Others, Call, Places

LEMMA ToAbandonMoves ==
  ASSUME Types, NEW c \in AllCalls, NEW settle \in BOOLEAN, ToAbandon(c, settle)
  PROVE  /\ Others(c) /\ call'[c].pc = "abandon"
         /\ call'[c].at = call[c].at /\ call'[c].answer = call[c].answer
  BY DEF ToAbandon, Types, Others, Call

LEMMA NoCallTyped == NoCall \in Call /\ NoCall.pc = "idle" /\ NoCall.answer = None
  BY DEF NoCall, Call

LEMMA AnsweredTyped ==
  ASSUME NEW x \in Calls \union {None}
  PROVE  Answered(x) \in Call /\ Answered(x).pc = "done" /\ Answered(x).answer = x
  BY DEF Answered, NoCall, Call

LEMMA SetMoves ==
  ASSUME Types, NEW c \in AllCalls, NEW r \in Call, call' = [call EXCEPT ![c] = r]
  PROVE  Others(c) /\ call'[c] = r
  BY DEF Types, Others

LEMMA OverMoves ==
  ASSUME Types, NEW c \in AllCalls, Over(c)
  PROVE  /\ Others(c) /\ call'[c].answer \in {None, call[c].answer}
         /\ call'[c].pc = IF c \in Reconcilers THEN "idle" ELSE "done"
<1>1. call[c].answer \in Calls \union {None}
  BY DEF Types, Call
<1>2. CASE c \in Reconcilers
  <2>1. call' = [call EXCEPT ![c] = NoCall]
    BY <1>2 DEF Over
  <2> QED BY <2>1, <1>2, SetMoves, NoCallTyped
<1>3. CASE c \notin Reconcilers
  <2>1. call' = [call EXCEPT ![c] = Answered(call[c].answer)]
    BY <1>3 DEF Over
  <2> QED BY <2>1, <1>1, <1>3, SetMoves, AnsweredTyped
<1> QED BY <1>2, <1>3

(* The answer a call has stays one of a committed attempt; what is left to see of a
   call that moved is whether its new place fits it. *)
LEMMA Fits ==
  ASSUME Inv, NEW c \in AllCalls, Others(c), \A a \in Calls : Change(a),
         call'[c].answer \in {None, call[c].answer},
         c \in Calls => call'[c].pc # "idle",
         call'[c].pc \notin {"idle", "done"} => call'[c].at \in Calls,
         call'[c].pc \in {"stage", "staging", "verify", "ensure", "promote", "promoting",
                          "present", "commit"} => c \in Calls,
         call'[c].pc \in {"stage", "staging", "verify"} => call'[c].at = c,
         call'[c].pc = "unpromote" => attempt'[call'[c].at].state = "failed",
         call'[c].pc = "commit" => Original(call'[c].at) \in store'
                                   \/ attempt'[call'[c].at].state = "failed"
  PROVE  CallStep
<1>1. CallOK(c) /\ call[c] \in Call
  BY DEF Inv, Types
<1>2. call'[c].answer # None => attempt'[call'[c].answer].state = "committed"
  BY <1>1, EndedStays DEF CallOK, Call
<1>3. CallOK(c)'
  BY <1>2 DEF CallOK
<1> QED BY <1>3 DEF CallStep, Others

LEMMA SameAttempts == ASSUME attempt' = attempt PROVE \A a \in Calls : Change(a)
  BY DEF Change, Kept

LEMMA SameGrants == ASSUME grant' = grant PROVE GrantStep
  BY DEF GrantStep

LEMMA SameStore == ASSUME store' = store, deleting' = deleting PROVE StoreStep
  BY DEF StoreStep

(* An attempt is replaced by another. *)
LEMMA SetAttempt ==
  ASSUME Types, NEW a \in Calls, NEW r \in Attempt, attempt' = [attempt EXCEPT ![a] = r]
  PROVE  /\ attempt' \in [Calls -> Attempt] /\ attempt'[a] = r
         /\ \A b \in Calls \ {a} : Kept(b)
  BY DEF Types, Kept

LEMMA FailedTyped ==
  ASSUME Types, NEW a \in Calls
  PROVE  /\ Failed(a) \in Attempt
         /\ Failed(a).grant = attempt[a].grant /\ Failed(a).digest = attempt[a].digest
         /\ Failed(a).removed = attempt[a].removed
         /\ Failed(a).state = IF Live(a) THEN "failed" ELSE attempt[a].state
  BY DEF Types, Failed, Live, Attempt

LEMMA FailsOne ==
  ASSUME Types, NEW a \in Calls, attempt' = [attempt EXCEPT ![a] = Failed(a)]
  PROVE  /\ attempt' \in [Calls -> Attempt] /\ \A b \in Calls : Kept(b) \/ Fails(b)
         /\ attempt'[a].state = IF Live(a) THEN "failed" ELSE attempt[a].state
<1>1. /\ attempt' \in [Calls -> Attempt] /\ attempt'[a] = Failed(a)
      /\ \A b \in Calls \ {a} : Kept(b)
  BY FailedTyped, SetAttempt
<1> QED BY <1>1, FailedTyped DEF Kept, Fails, Live

----------------------------------------------------------------------------
(* Grants and their clock *)

LEMMA CreateUploadStep == ASSUME Inv, NEW g \in Grants, CreateUpload(g) PROVE Step
<1>1. grant' \in [AllGrants -> Grant] /\ GrantStep
  BY DEF CreateUpload, Inv, Types, Grant, AllGrants, GrantStep
<1> QED BY <1>1, SameAttempts, SameStore DEF CreateUpload, Inv, Types, Step, CallStep

LEMMA TickStep == ASSUME Inv, NEW g \in AllGrants, Tick(g) PROVE Step
<1>1. grant' \in [AllGrants -> Grant] /\ GrantStep
  BY DEF Tick, Inv, Types, Grant, GrantStep
<1> QED BY <1>1, SameAttempts, SameStore DEF Tick, Inv, Types, Step, CallStep

----------------------------------------------------------------------------
(* Failing *)

LEMMA AbandonStep == ASSUME Inv, NEW c \in AllCalls, Abandon(c) PROVE Step
<1> DEFINE a == call[c].at
           fails == call[c].settle /\ Live(a)
<1>1. /\ CallOK(c) /\ a \in Calls /\ Types /\ AttemptOK(a) /\ call[c].pc = "abandon"
      /\ attempt[a] \in Attempt /\ call[c] \in Call
  BY DEF Inv, Abandon, At, CallOK, Types
<1>2. /\ attempt' \in [Calls -> Attempt] /\ \A b \in Calls : Kept(b) \/ Fails(b)
      /\ fails => attempt'[a].state = "failed"
      /\ ~fails => attempt' = attempt
  <2>1. CASE fails
    BY <2>1, <1>1, FailsOne DEF Abandon
  <2>2. CASE ~fails
    BY <2>2, <1>1 DEF Abandon, Types, Kept
  <2> QED BY <2>1, <2>2
<1>3. grant' \in [AllGrants -> Grant] /\ GrantStep
  BY <1>1 DEF Abandon, Types, Grant, GrantStep
<1>4. /\ Others(c) /\ call'[c].answer \in {None, call[c].answer}
      /\ \/ call'[c].pc = "unpromote" /\ call'[c].at = a /\ attempt'[a].state = "failed"
         \/ call'[c].pc = "unstage" /\ call'[c].at = a
         \/ call'[c].pc = IF c \in Reconcilers THEN "idle" ELSE "done"
  <2>1. CASE (fails \/ attempt[a].state = "failed") /\ ~attempt[a].removed
    <3>1. attempt'[a].state = "failed"
      BY <2>1, <1>2
    <3>2. Goto(c, IF attempt[a].digest THEN "unpromote" ELSE "unstage")
      BY <2>1 DEF Abandon
    <3> QED BY <3>1, <3>2, <1>1, GotoMoves DEF Places
  <2>2. CASE ~((fails \/ attempt[a].state = "failed") /\ ~attempt[a].removed)
    BY <2>2, <1>1, OverMoves DEF Abandon
  <2> QED BY <2>1, <2>2
<1>5. \A b \in Calls : Change(b)
  BY <1>2 DEF Change
<1>6. CallStep
  BY <1>4, <1>5, <1>1, Fits, UploadsAssumption DEF UploadsAssumption
<1>7. source' = source /\ store' = store /\ deleting' = deleting /\ writing' = writing
  BY DEF Abandon
<1> QED BY <1>1, <1>2, <1>3, <1>4, <1>5, <1>6, <1>7, SameStore DEF Step, Types, Others

LEMMA UnpromoteStep == ASSUME Inv, NEW c \in AllCalls, Unpromote(c) PROVE Step
<1> DEFINE a == call[c].at
<1>1. /\ CallOK(c) /\ a \in Calls /\ Types /\ call[c].pc = "unpromote"
      /\ attempt[a].state = "failed"
  BY DEF Inv, Unpromote, At, CallOK
<1>2. /\ Others(c) /\ call'[c].answer \in {None, call[c].answer}
      /\ \/ call'[c].pc = "unstage" /\ call'[c].at = a
         \/ call'[c].pc = IF c \in Reconcilers THEN "idle" ELSE "done"
  BY <1>1, GotoMoves, OverMoves DEF Unpromote, Places
<1>3. CallStep
  BY <1>1, <1>2, Fits, SameAttempts, UploadsAssumption DEF Unpromote, UploadsAssumption
<1>4. /\ store' \subseteq store /\ store \ store' \subseteq {Original(a)}
      /\ deleting' \subseteq deleting \union {Original(a)}
  BY DEF Unpromote
<1>5. Original(a) \in Keys /\ \A b \in Calls : Original(b) = Original(a) => b = a
  BY <1>1 DEF Original, Keys
<1>6. StoreStep /\ store' \subseteq Keys /\ deleting' \subseteq Keys
  BY <1>1, <1>4, <1>5 DEF StoreStep, Types
<1>7. grant' = grant /\ attempt' = attempt /\ source' = source /\ writing' = writing
  BY DEF Unpromote
<1> QED BY <1>1, <1>2, <1>3, <1>6, <1>7, SameAttempts, SameGrants DEF Step, Types, Others

LEMMA UnstageStep == ASSUME Inv, NEW c \in AllCalls, Unstage(c) PROVE Step
<1> DEFINE a == call[c].at
<1>1. CallOK(c) /\ a \in Calls /\ Types /\ call[c].pc = "unstage"
  BY DEF Inv, Unstage, At, CallOK
<1>2. /\ Others(c) /\ call'[c].answer \in {None, call[c].answer}
      /\ \/ call'[c].pc = "record" /\ call'[c].at = a
         \/ call'[c].pc = IF c \in Reconcilers THEN "idle" ELSE "done"
  BY <1>1, GotoMoves, OverMoves DEF Unstage, Places
<1>3. CallStep
  BY <1>1, <1>2, Fits, SameAttempts, UploadsAssumption DEF Unstage, UploadsAssumption
<1>4. /\ store' \subseteq store /\ store \ store' \subseteq {Staging(a)}
      /\ deleting' \subseteq deleting \union {Staging(a)}
  BY DEF Unstage
<1>5. Staging(a) \in Keys /\ \A b \in Calls : Original(b) # Staging(a)
  BY <1>1 DEF Original, Staging, Keys
<1>6. StoreStep /\ store' \subseteq Keys /\ deleting' \subseteq Keys
  BY <1>1, <1>4, <1>5 DEF StoreStep, Types
<1>7. grant' = grant /\ attempt' = attempt /\ source' = source /\ writing' = writing
  BY DEF Unstage
<1> QED BY <1>1, <1>2, <1>3, <1>6, <1>7, SameAttempts, SameGrants DEF Step, Types, Others

LEMMA RecordStep == ASSUME Inv, NEW c \in AllCalls, Record(c) PROVE Step
<1> DEFINE a == call[c].at
           gone == attempt[a].state = "committed"
                   \/ (attempt[a].state = "failed" /\ (~attempt[a].digest \/ call[c].kind = "reconcile"))
<1>1. /\ CallOK(c) /\ a \in Calls /\ Types /\ call[c].pc = "record" /\ attempt[a] \in Attempt
  BY DEF Inv, Record, At, CallOK, Types
<1>2. /\ attempt' \in [Calls -> Attempt] /\ \A b \in Calls \ {a} : Kept(b)
      /\ attempt'[a].state = attempt[a].state /\ attempt'[a].grant = attempt[a].grant
      /\ attempt'[a].digest = attempt[a].digest
      /\ attempt'[a].removed = (attempt[a].removed \/ gone)
  BY <1>1 DEF Record, Types, Attempt, Kept
<1>3. \A b \in Calls : Change(b)
  <2>1. Kept(a) \/ Cleans(a)
    <3>1. CASE gone
      BY <3>1, <1>2 DEF Cleans
    <3>2. CASE ~gone
      BY <3>2, <1>1, <1>2 DEF Kept, Attempt
    <3> QED BY <3>1, <3>2
  <2> QED BY <2>1, <1>2 DEF Change
<1>4. /\ Others(c) /\ call'[c].answer \in {None, call[c].answer}
      /\ call'[c].pc = IF c \in Reconcilers THEN "idle" ELSE "done"
  BY <1>1, OverMoves DEF Record
<1>5. CallStep
  BY <1>4, <1>3, Fits, UploadsAssumption DEF UploadsAssumption
<1>6. grant' = grant /\ source' = source /\ store' = store /\ deleting' = deleting /\ writing' = writing
  BY DEF Record
<1> QED BY <1>1, <1>2, <1>3, <1>4, <1>5, <1>6, SameStore, SameGrants DEF Step, Types, Others

----------------------------------------------------------------------------
(* Uploading *)

LEMMA BeginUploadStep ==
  ASSUME Inv, NEW c \in Calls, NEW g \in Grants, BeginUpload(c, g)
  PROVE  Step
<1> DEFINE r == [NoAttempt EXCEPT !.grant = g, !.state = "receiving"]
           n == [NoCall EXCEPT !.kind = "upload", !.at = c, !.pc = "stage"]
<1>1. c \in AllCalls /\ Types /\ CallOK(c) /\ call[c].pc = "idle" /\ g \in AllGrants
  BY DEF Inv, BeginUpload, At, AllCalls, AllGrants
<1>2. /\ r \in Attempt /\ r.grant = g /\ r.state = "receiving" /\ ~r.removed
      /\ n \in Call /\ n.pc = "stage" /\ n.at = c /\ n.answer = None
  BY <1>1 DEF NoAttempt, Attempt, NoCall, Call
<1> HIDE DEF r, n
<1>3. /\ attempt' \in [Calls -> Attempt] /\ attempt'[c] = r
      /\ \A b \in Calls \ {c} : Kept(b)
  BY <1>1, <1>2, SetAttempt DEF BeginUpload, r
<1>4. Others(c) /\ call'[c] = n
  BY <1>1, <1>2, SetMoves DEF BeginUpload, n
<1>5. \A b \in Calls : Change(b)
  BY <1>1, <1>2, <1>3, <1>4 DEF Change, Opens, CallOK
<1>6. CallStep
  BY <1>1, <1>2, <1>4, <1>5, Fits
<1>7. grant' = grant /\ source' = source /\ store' = store /\ deleting' = deleting /\ writing' = writing
  BY DEF BeginUpload
<1> QED BY <1>1, <1>3, <1>4, <1>5, <1>6, <1>7, SameStore, SameGrants DEF Step, Types, Others

LEMMA PutStep == ASSUME Inv, NEW c \in AllCalls, Put(c) PROVE Step
<1>1. PICK w \in Writes :
        /\ At(c, w[1])
        /\ IF GrantOf(call[c].at).window = "open"
           THEN writing' = writing \union {<<<<w[3], call[c].at>>, c>>} /\ Goto(c, w[2])
           ELSE ToAbandon(c, TRUE) /\ UNCHANGED writing
  BY DEF Put
<1>2. /\ w[2] \in {"staging", "promoting"} /\ w[3] \in {"staging", "original"}
      /\ w[2] = "staging" => call[c].pc = "stage"
      /\ call[c].pc \in {"stage", "promote"}
  BY <1>1 DEF Writes, At
<1>3. Types /\ c \in Calls /\ call[c].at \in Calls /\ (call[c].pc = "stage" => call[c].at = c)
  BY <1>2 DEF Inv, CallOK
<1>4. /\ Others(c) /\ call'[c].answer = call[c].answer /\ call'[c].at = call[c].at
      /\ call'[c].pc \in {w[2], "abandon"}
  BY <1>1, <1>2, <1>3, GotoMoves, ToAbandonMoves DEF Places
<1>5. CallStep
  BY <1>2, <1>3, <1>4, Fits, SameAttempts DEF Put
<1>6. writing' \subseteq Keys \X Calls
  <2>1. PICK k \in Keys : k = <<w[3], call[c].at>>
    BY <1>2, <1>3 DEF Keys
  <2>2. writing \subseteq Keys \X Calls
    BY <1>3 DEF Types
  <2>3. writing' = writing \/ writing' = writing \union {<<k, c>>}
    BY <2>1, <1>1
  <2> QED BY <2>2, <2>3, <1>3
<1>7. grant' = grant /\ attempt' = attempt /\ source' = source /\ store' = store /\ deleting' = deleting
  BY DEF Put
<1> QED BY <1>3, <1>4, <1>5, <1>6, <1>7, SameAttempts, SameStore, SameGrants DEF Step, Types, Others

LEMMA PutAnsweredStep == ASSUME Inv, NEW c \in AllCalls, PutAnswered(c) PROVE Step
<1>1. PICK w \in Writes :
        /\ At(c, w[2])
        /\ \/ /\ store' = store \union {<<w[3], call[c].at>>}
              /\ writing' = writing \ {<<<<w[3], call[c].at>>, c>>}
              /\ Goto(c, IF w[2] = "staging" THEN "verify" ELSE "present")
           \/ /\ writing' \subseteq writing /\ store' = store
              /\ \E settle \in {TRUE, call[c].kind = "upload"} : ToAbandon(c, settle)
  BY DEF PutAnswered
<1>2. /\ w[2] \in {"staging", "promoting"} /\ w[3] \in {"staging", "original"}
      /\ call[c].pc = w[2]
  BY <1>1 DEF Writes, At
<1>3. Types /\ c \in Calls /\ call[c].at \in Calls /\ (w[2] = "staging" => call[c].at = c)
  BY <1>2 DEF Inv, CallOK
<1>4. /\ Others(c) /\ call'[c].answer = call[c].answer /\ call'[c].at = call[c].at
      /\ call'[c].pc \in {"verify", "present", "abandon"}
      /\ call'[c].pc = "verify" => w[2] = "staging"
  <2>1. CASE Goto(c, IF w[2] = "staging" THEN "verify" ELSE "present")
    BY <2>1, <1>2, <1>3, GotoMoves DEF Places
  <2>2. CASE \E settle \in {TRUE, call[c].kind = "upload"} : ToAbandon(c, settle)
    BY <2>2, <1>3, ToAbandonMoves
  <2> QED BY <2>1, <2>2, <1>1
<1>5. CallStep
  BY <1>2, <1>3, <1>4, Fits, SameAttempts DEF PutAnswered
<1>6. /\ writing' \subseteq writing /\ store \subseteq store' /\ store' \subseteq Keys
  <2>1. <<w[3], call[c].at>> \in Keys
    BY <1>2, <1>3 DEF Keys
  <2>2. store \subseteq Keys
    BY <1>3 DEF Types
  <2> QED BY <2>1, <2>2, <1>1
<1>7. grant' = grant /\ attempt' = attempt /\ source' = source /\ deleting' = deleting
  BY DEF PutAnswered
<1>8. StoreStep
  BY <1>6, <1>7 DEF StoreStep
<1> QED BY <1>3, <1>4, <1>5, <1>6, <1>7, <1>8, SameAttempts, SameGrants DEF Step, Types, Others

LEMMA VerifyStep == ASSUME Inv, NEW c \in AllCalls, Verify(c) PROVE Step
<1>1. /\ Types /\ c \in Calls /\ call[c].at = c /\ call[c].pc = "verify" /\ attempt[c] \in Attempt
  BY DEF Inv, CallOK, Verify, At, Types
<1> DEFINE r == [attempt[c] EXCEPT !.state = "verified", !.digest = TRUE]
<1>2. /\ attempt' \in [Calls -> Attempt]
      /\ \A b \in Calls : Kept(b) \/ Fails(b) \/ Verifies(b)
  <2>1. CASE attempt' = attempt
    BY <2>1, <1>1 DEF Types, Kept
  <2>2. CASE attempt' = [attempt EXCEPT ![c] = Failed(c)]
    BY <2>2, <1>1, FailsOne
  <2>3. CASE attempt[c].state = "receiving" /\ attempt' = [attempt EXCEPT ![c] = r]
    <3>1. /\ r \in Attempt /\ r.state = "verified" /\ r.digest /\ r.grant = attempt[c].grant
          /\ r.removed = attempt[c].removed
      BY <1>1 DEF Attempt
    <3> HIDE DEF r
    <3>2. /\ attempt' \in [Calls -> Attempt] /\ attempt'[c] = r
          /\ \A b \in Calls \ {c} : Kept(b)
      BY <1>1, <3>1, <2>3, SetAttempt
    <3> QED BY <2>3, <3>1, <3>2 DEF Verifies
  <2>4. \/ attempt' = attempt \/ attempt' = [attempt EXCEPT ![c] = Failed(c)]
        \/ attempt[c].state = "receiving" /\ attempt' = [attempt EXCEPT ![c] = r]
    BY <1>1 DEF Verify, Types
  <2> QED BY <2>1, <2>2, <2>3, <2>4
<1>3. /\ Others(c) /\ call'[c].answer \in {None, call[c].answer}
      /\ call'[c].pc \in {"abandon", "unstage", "done"}
      /\ call'[c].pc # "done" => call'[c].at = c
  <2>1. CASE Over(c)
    BY <2>1, <1>1, OverMoves, UploadsAssumption DEF UploadsAssumption
  <2>2. CASE ToAbandon(c, TRUE)
    BY <2>2, <1>1, ToAbandonMoves
  <2>3. CASE Goto(c, "unstage")
    BY <2>3, <1>1, GotoMoves DEF Places
  <2> QED BY <2>1, <2>2, <2>3 DEF Verify
<1>4. \A b \in Calls : Change(b)
  BY <1>2 DEF Change
<1>5. CallStep
  BY <1>1, <1>3, <1>4, Fits
<1>6. grant' = grant /\ source' = source /\ store' = store /\ deleting' = deleting /\ writing' = writing
  BY DEF Verify
<1> QED BY <1>1, <1>2, <1>3, <1>4, <1>5, <1>6, SameStore, SameGrants DEF Step, Types, Others

----------------------------------------------------------------------------
(* Finalizing *)

LEMMA FinalizeStep ==
  ASSUME Inv, NEW c \in Calls, NEW a \in Calls, Finalize(c, a)
  PROVE  Step
<1> DEFINE kept == [NoCall EXCEPT !.kind = "finalize", !.at = a]
           n == [kept EXCEPT !.pc = "ensure"]
<1>1. c \in AllCalls /\ Types
  BY DEF Inv, AllCalls
<1>2. n \in Call /\ n.pc = "ensure" /\ n.at = a /\ n.answer = None
  BY DEF NoCall, Call
<1> HIDE DEF n
<1>3. attempt' = attempt /\ grant' = grant /\ source' = source /\ store' = store /\ deleting' = deleting /\ writing' = writing
  BY DEF Finalize
<1>4. \A b \in Calls : Change(b)
  BY <1>3, SameAttempts
<1>5. CASE Replayed(a) /\ call' = [call EXCEPT ![c] = Answered(a)]
  <2>1. Others(c) /\ call'[c].pc = "done" /\ call'[c].answer = a
    BY <1>1, <1>5, AnsweredTyped, SetMoves
  <2>2. attempt'[a].state = "committed"
    BY <1>3, <1>5 DEF Replayed
  <2>3. CallOK(c)'
    BY <2>1, <2>2 DEF CallOK
  <2> QED BY <1>1, <1>3, <1>4, <2>1, <2>3, SameStore, SameGrants DEF Step, Types, Others, CallStep
<1>6. CASE call' = [call EXCEPT ![c] = n]
  <2>1. Others(c) /\ call'[c] = n
    BY <1>1, <1>2, <1>6, SetMoves
  <2>2. CallStep
    BY <1>1, <1>2, <1>4, <2>1, Fits
  <2> QED BY <1>1, <1>3, <1>4, <2>1, <2>2, SameStore, SameGrants DEF Step, Types, Others
<1> QED BY <1>5, <1>6 DEF Finalize, n

LEMMA IngestTextStep == ASSUME Inv, NEW c \in Texts, IngestText(c) PROVE Step
<1> DEFINE r == [NoAttempt EXCEPT !.grant = c, !.state = "verified", !.digest = TRUE]
           n == [NoCall EXCEPT !.kind = "text", !.at = c, !.pc = "ensure"]
<1>1. /\ c \in Calls /\ c \in AllCalls /\ c \in AllGrants /\ Types /\ CallOK(c) /\ call[c].pc = "idle"
  BY UploadsAssumption DEF UploadsAssumption, Inv, AllCalls, AllGrants, IngestText, At
<1>2. /\ r \in Attempt /\ r.grant = c /\ r.state = "verified" /\ r.digest /\ ~r.removed
      /\ n \in Call /\ n.pc = "ensure" /\ n.at = c /\ n.answer = None
  BY <1>1 DEF NoAttempt, Attempt, NoCall, Call
<1> HIDE DEF r, n
<1>3. source' = source /\ store' = store /\ deleting' = deleting /\ writing' = writing
  BY DEF IngestText
<1>4. CASE source["text"] # None
  <2>1. /\ call' = [call EXCEPT ![c] = Answered(source["text"])]
        /\ attempt' = attempt /\ grant' = grant
    BY <1>4 DEF IngestText
  <2>2. source["text"] \in Calls /\ attempt[source["text"]].state = "committed"
    BY <1>4 DEF Inv, Types, SourceIds, SourceOK
  <2>3. Others(c) /\ call'[c].pc = "done" /\ call'[c].answer = source["text"]
    <3>1. PICK x \in Calls : x = source["text"]
      BY <2>2
    <3>2. Answered(x) \in Call /\ Answered(x).pc = "done" /\ Answered(x).answer = x
      BY AnsweredTyped
    <3> QED BY <1>1, <2>1, <3>1, <3>2, SetMoves
  <2>4. CallOK(c)'
    BY <2>1, <2>2, <2>3 DEF CallOK
  <2> QED BY <1>1, <1>3, <2>1, <2>3, <2>4, SameAttempts, SameStore, SameGrants
          DEF Step, Types, Others, CallStep
<1>5. CASE source["text"] = None
  <2>1. /\ grant' = [grant EXCEPT ![c].window = "open"]
        /\ attempt' = [attempt EXCEPT ![c] = r]
        /\ call' = [call EXCEPT ![c] = n]
    BY <1>5 DEF IngestText, r, n
  <2>2. grant' \in [AllGrants -> Grant] /\ GrantStep
    BY <1>1, <2>1 DEF Types, Grant, GrantStep
  <2>3. /\ attempt' \in [Calls -> Attempt] /\ attempt'[c] = r
        /\ \A b \in Calls \ {c} : Kept(b)
    BY <1>1, <1>2, <2>1, SetAttempt
  <2>4. Others(c) /\ call'[c] = n
    BY <1>1, <1>2, <2>1, SetMoves
  <2>5. \A b \in Calls : Change(b)
    BY <1>1, <1>2, <2>3, <2>4 DEF Change, Opens, CallOK
  <2>6. CallStep
    BY <1>1, <1>2, <2>4, <2>5, Fits
  <2> QED BY <1>1, <1>3, <2>2, <2>3, <2>4, <2>5, <2>6, SameStore DEF Step, Types, Others
<1> QED BY <1>4, <1>5

LEMMA EnsureStep == ASSUME Inv, NEW c \in AllCalls, Ensure(c) PROVE Step
<1>1. /\ Types /\ c \in Calls /\ call[c].at \in Calls /\ call[c].pc = "ensure"
  BY DEF Inv, CallOK, Ensure, At
<1>2. /\ Others(c) /\ call'[c].answer = call[c].answer /\ call'[c].at = call[c].at
      /\ call'[c].pc \in {"present", "promote", "abandon"}
  BY <1>1, GotoMoves, ToAbandonMoves DEF Ensure, Places
<1>3. UNCHANGED <<grant, attempt, source, store, writing, deleting>>
  BY DEF Ensure
<1>4. CallStep
  BY <1>1, <1>2, <1>3, Fits, SameAttempts
<1> QED BY <1>1, <1>2, <1>3, <1>4, SameAttempts, SameStore, SameGrants DEF Step, Types, Others

(* The bytes seen before the transaction are what CallOK remembers of "commit". *)
LEMMA PresentStep == ASSUME Inv, NEW c \in AllCalls, Present(c) PROVE Step
<1>1. /\ Types /\ c \in Calls /\ call[c].at \in Calls /\ call[c].pc = "present"
  BY DEF Inv, CallOK, Present, At
<1>2. /\ Others(c) /\ call'[c].answer = call[c].answer /\ call'[c].at = call[c].at
      /\ \/ call'[c].pc = "commit" /\ Original(call[c].at) \in store
         \/ call'[c].pc = "abandon"
  <2>1. CASE Original(call[c].at) \in store /\ Goto(c, "commit")
    BY <2>1, <1>1, GotoMoves DEF Places
  <2>2. CASE \E settle \in {FALSE, GrantOf(call[c].at).window # "open"} : ToAbandon(c, settle)
    BY <2>2, <1>1, ToAbandonMoves
  <2> QED BY <2>1, <2>2 DEF Present
<1>3. UNCHANGED <<grant, attempt, source, store, writing, deleting>>
  BY DEF Present
<1>4. CallStep
  BY <1>1, <1>2, <1>3, Fits, SameAttempts
<1> QED BY <1>1, <1>2, <1>3, <1>4, SameAttempts, SameStore, SameGrants DEF Step, Types, Others

LEMMA CommitStep == ASSUME Inv, NEW c \in AllCalls, Commit(c) PROVE Step
<1> DEFINE a == call[c].at
           g == attempt[a].grant
           s == SourceOf(g)
<1>1. /\ Types /\ c \in Calls /\ a \in Calls /\ call[c].pc = "commit" /\ CallOK(c) /\ AttemptOK(a)
      /\ attempt[a] \in Attempt /\ call[c] \in Call
  BY DEF Inv, CallOK, Commit, At, Types
<1>2. store' = store /\ deleting' = deleting /\ writing' = writing
  BY DEF Commit
<1>3. ASSUME Usable(g), attempt[a].state = "verified", Free(c, s),
             source' = [source EXCEPT ![s] = a],
             attempt' = [attempt EXCEPT ![a].state = "committed", ![a].removed = (call[c].kind = "text")],
             grant' = [grant EXCEPT ![g].ended = "finalized"],
             \/ call' = [call EXCEPT ![c] = IF call[c].kind = "text" THEN Answered(a)
                                            ELSE [@ EXCEPT !.pc = "unstage", !.answer = a]]
             \/ ToAbandon(c, FALSE)
      PROVE  Step
  <2>1. g \in AllGrants /\ s \in SourceIds
    BY <1>1, <1>3, SourceOfGrant DEF AttemptOK
  <2>2. source' \in [SourceIds -> Calls \union {None}]
    BY <1>1, <1>3, <2>1 DEF Types
  <2>3. /\ attempt' \in [Calls -> Attempt] /\ \A b \in Calls \ {a} : Kept(b)
        /\ attempt'[a].state = "committed" /\ attempt'[a].grant = g
        /\ attempt'[a].digest = attempt[a].digest
    BY <1>1, <1>3 DEF Types, Attempt, Kept
  <2>4. Commits(a)
    BY <1>1, <1>3, <2>3 DEF Commits, CallOK, Free
  <2>5. \A b \in Calls : Change(b)
    BY <2>3, <2>4 DEF Change
  <2>6. grant' \in [AllGrants -> Grant] /\ GrantStep
    BY <1>1, <1>3, <2>1 DEF Types, Grant, GrantStep, Usable
  <2>7. /\ Others(c) /\ call'[c].answer \in {a, call[c].answer}
        /\ \/ call'[c].pc = "done"
           \/ call'[c].pc \in {"unstage", "abandon"} /\ call'[c].at = a
    <3>1. CASE ToAbandon(c, FALSE)
      BY <3>1, <1>1, ToAbandonMoves
    <3>2. CASE call[c].kind = "text" /\ call' = [call EXCEPT ![c] = Answered(a)]
      <4>1. Answered(a) \in Call /\ Answered(a).pc = "done" /\ Answered(a).answer = a
        BY <1>1, AnsweredTyped
      <4>2. call' = [call EXCEPT ![c] = Answered(a)]
        BY <3>2
      <4> HIDE DEF a
      <4> QED BY <4>1, <4>2, <1>1, SetMoves
    <3>3. CASE call' = [call EXCEPT ![c] = [@ EXCEPT !.pc = "unstage", !.answer = a]]
      BY <3>3, <1>1 DEF Types, Others, Call
    <3> QED BY <3>1, <3>2, <3>3, <1>3
  <2>8. CallOK(c)'
    <3>1. call[c].answer # None => attempt'[call[c].answer].state = "committed"
      BY <1>1, <2>5, EndedStays DEF CallOK, Call
    <3> QED BY <3>1, <2>7, <2>3, <1>1 DEF CallOK
  <2>9. source' = source \/ \E b \in Calls : Commits(b)
    BY <2>4, <1>1
  <2> QED BY <1>1, <1>2, <2>2, <2>3, <2>5, <2>6, <2>7, <2>8, <2>9, SameStore
          DEF Step, Types, Others, CallStep
<1>4. ASSUME UNCHANGED <<grant, attempt, source>>, Others(c), CallOK(c)'
      PROVE  Step
  BY <1>1, <1>2, <1>4, SameAttempts, SameStore, SameGrants DEF Step, Types, Others, CallStep
<1>5. CASE Replayed(a) /\ call' = [call EXCEPT ![c] = Answered(a)] /\ UNCHANGED <<grant, attempt, source>>
  <2>1. Others(c) /\ call'[c].pc = "done" /\ call'[c].answer = a
    <3>1. Answered(a) \in Call /\ Answered(a).pc = "done" /\ Answered(a).answer = a
      BY <1>1, AnsweredTyped
    <3>2. call' = [call EXCEPT ![c] = Answered(a)]
      BY <1>5
    <3> HIDE DEF a
    <3> QED BY <3>1, <3>2, <1>1, SetMoves
  <2>2. CallOK(c)'
    BY <2>1, <1>1, <1>5 DEF CallOK, Replayed
  <2> QED BY <2>1, <2>2, <1>4, <1>5
<1>6. CASE /\ call' = [call EXCEPT ![c].pc = "abandon", ![c].settle = TRUE, ![c].answer =
                         IF Usable(g) /\ attempt[a].state = "verified" THEN source[s] ELSE None]
           /\ UNCHANGED <<grant, attempt, source>>
  <2> DEFINE x == IF Usable(g) /\ attempt[a].state = "verified" THEN source[s] ELSE None
  <2>1. x # None => x \in Calls /\ attempt[x].state = "committed"
    <3>1. attempt[a].state = "verified" => s \in SourceIds
      BY <1>1, SourceOfGrant DEF AttemptOK
    <3>2. s \in SourceIds /\ source[s] # None => source[s] \in Calls /\ attempt[source[s]].state = "committed"
      BY DEF Inv, Types, SourceOK
    <3> QED BY <3>1, <3>2
  <2>2. x \in Calls \union {None}
    BY <2>1
  <2>3. call' = [call EXCEPT ![c].pc = "abandon", ![c].settle = TRUE, ![c].answer = x]
    BY <1>6
  <2> HIDE DEF x
  <2>4. Others(c) /\ call'[c].pc = "abandon" /\ call'[c].at = a /\ call'[c].answer = x
    BY <2>2, <2>3, <1>1 DEF Types, Others, Call
  <2>5. CallOK(c)'
    BY <2>1, <2>4, <1>1, <1>6 DEF CallOK
  <2> QED BY <2>4, <2>5, <1>4, <1>6
<1>7. CASE (\E settle \in BOOLEAN : ToAbandon(c, settle)) /\ UNCHANGED <<grant, attempt, source>>
  <2>1. Others(c) /\ call'[c].pc = "abandon" /\ call'[c].at = a /\ call'[c].answer = call[c].answer
    BY <1>1, <1>7, ToAbandonMoves
  <2>2. CallOK(c)'
    BY <2>1, <1>1, <1>7 DEF CallOK
  <2> QED BY <2>1, <2>2, <1>4, <1>7
<1> QED BY <1>3, <1>5, <1>6, <1>7 DEF Commit

----------------------------------------------------------------------------
(* Revocation, reconciliation, the sweep and what lands late *)

LEMMA RevokeStep ==
  ASSUME Inv, NEW c \in Calls, NEW g \in Grants, Revoke(c, g)
  PROVE  Step
<1>1. c \in AllCalls /\ Types /\ g \in AllGrants
  BY DEF Inv, AllCalls, AllGrants
<1>2. attempt' = [a \in Calls |-> IF attempt[a].grant = g /\ attempt[a].state \in {"receiving", "verified"}
                                  THEN Failed(a) ELSE attempt[a]]
  BY DEF Revoke
<1>3. /\ attempt' \in [Calls -> Attempt] /\ \A b \in Calls : Kept(b) \/ Fails(b)
      /\ \A b \in Calls : attempt[b].grant = g /\ attempt[b].state = "verified" => attempt'[b].state = "failed"
  BY <1>1, <1>2, FailedTyped DEF Types, Kept, Fails, Live
<1>4. \A b \in Calls : Change(b)
  BY <1>3 DEF Change
<1>5. /\ Others(c) /\ call'[c].answer = None
      /\ \/ call'[c].pc = "unpromote" /\ call'[c].at \in Calls /\ attempt'[call'[c].at].state = "failed"
         \/ call'[c].pc = "done"
  <2>1. CASE call' = [call EXCEPT ![c] = Answered(None)]
    BY <2>1, <1>1, AnsweredTyped, SetMoves
  <2>2. ASSUME NEW a \in Calls, attempt[a].grant = g, attempt[a].state = "verified",
               call' = [call EXCEPT ![c] = [NoCall EXCEPT !.kind = "revoke", !.at = a, !.pc = "unpromote"]]
        PROVE  Others(c) /\ call'[c].answer = None /\ call'[c].pc = "unpromote" /\ call'[c].at = a
    <3> DEFINE n == [NoCall EXCEPT !.kind = "revoke", !.at = a, !.pc = "unpromote"]
    <3>1. n \in Call /\ n.pc = "unpromote" /\ n.at = a /\ n.answer = None
      BY DEF NoCall, Call
    <3>2. call' = [call EXCEPT ![c] = n]
      BY <2>2
    <3> HIDE DEF n
    <3> QED BY <1>1, <3>1, <3>2, SetMoves
  <2>3. \/ call' = [call EXCEPT ![c] = Answered(None)]
        \/ \E a \in Calls :
             /\ attempt[a].grant = g /\ attempt[a].state = "verified"
             /\ call' = [call EXCEPT ![c] = [NoCall EXCEPT !.kind = "revoke", !.at = a, !.pc = "unpromote"]]
    BY DEF Revoke
  <2> QED BY <2>1, <2>2, <2>3, <1>3
<1>6. CallStep
  BY <1>1, <1>4, <1>5, Fits
<1>7. grant' \in [AllGrants -> Grant] /\ GrantStep
  BY <1>1 DEF Revoke, Types, Grant, GrantStep
<1>8. source' = source /\ store' = store /\ deleting' = deleting /\ writing' = writing
  BY DEF Revoke
<1> QED BY <1>1, <1>3, <1>4, <1>5, <1>6, <1>7, <1>8, SameStore DEF Step, Types, Others

LEMMA ReconcileStep ==
  ASSUME Inv, NEW c \in Reconcilers, NEW a \in Calls, Reconcile(c, a)
  PROVE  Step
<1> DEFINE n == [NoCall EXCEPT !.kind = "reconcile", !.at = a,
                   !.pc = IF attempt'[a].state = "failed" /\ attempt[a].digest THEN "unpromote" ELSE "unstage"]
<1>1. c \in AllCalls /\ c \notin Calls /\ Types
  BY UploadsAssumption DEF UploadsAssumption, Inv, AllCalls
<1>2. /\ attempt' \in [Calls -> Attempt] /\ \A b \in Calls : Kept(b) \/ Fails(b)
  BY <1>1, FailsOne DEF Reconcile
<1>3. \A b \in Calls : Change(b)
  BY <1>2 DEF Change
<1>4. /\ n \in Call /\ n.at = a /\ n.answer = None
      /\ n.pc = "unstage" \/ (n.pc = "unpromote" /\ attempt'[a].state = "failed")
  BY DEF NoCall, Call
<1>5. call' = [call EXCEPT ![c] = n]
  BY DEF Reconcile
<1> HIDE DEF n
<1>6. Others(c) /\ call'[c] = n
  BY <1>1, <1>4, <1>5, SetMoves
<1>7. CallStep
  BY <1>1, <1>3, <1>4, <1>6, Fits
<1>8. grant' = grant /\ source' = source /\ store' = store /\ deleting' = deleting /\ writing' = writing
  BY DEF Reconcile
<1> QED BY <1>1, <1>2, <1>3, <1>6, <1>7, <1>8, SameStore, SameGrants DEF Step, Types, Others

(* What leaves the ledger and the calls alone is judged by the store only. *)
LEMMA StoreOnly ==
  ASSUME Inv, UNCHANGED <<grant, attempt, source, call>>,
         store' \subseteq Keys, deleting' \subseteq Keys, writing' \subseteq Keys \X Calls,
         StoreStep
  PROVE  Step
  BY SameAttempts, SameGrants DEF Inv, Types, Step, CallStep

LEMMA SweepStep == ASSUME Inv, NEW k \in Keys, Sweep(k) PROVE Step
<1>1. Types /\ store' \subseteq store /\ store \ store' \subseteq {k} /\ deleting' \subseteq deleting \union {k}
  BY DEF Sweep, Inv
<1>2. \A a \in Calls : Original(a) = k => attempt[a].state = "failed"
  BY DEF Sweep, Ended, Original
<1>3. StoreStep
  BY <1>1, <1>2 DEF StoreStep
<1> QED BY <1>1, <1>3, StoreOnly DEF Sweep, Types

LEMMA DeleteLandsStep == ASSUME Inv, NEW k \in Keys, DeleteLands(k) PROVE Step
<1>1. Types /\ k \in deleting /\ deleting' \subseteq deleting /\ store' \subseteq store /\ store \ store' \subseteq {k}
  BY DEF DeleteLands, Inv
<1>2. \A a \in Calls : Original(a) = k => attempt[a].state = "failed"
  BY <1>1 DEF Inv, AttemptOK
<1>3. StoreStep
  BY <1>1, <1>2 DEF StoreStep
<1> QED BY <1>1, <1>3, StoreOnly DEF DeleteLands, Types

LEMMA WriteLandsStep == ASSUME Inv, NEW w \in Keys \X Calls, WriteLands(w) PROVE Step
<1>1. /\ Types /\ w[1] \in Keys /\ writing' \subseteq writing /\ deleting' = deleting
      /\ store \subseteq store' /\ store' \subseteq store \union {w[1]}
  BY DEF WriteLands, Inv
<1>2. StoreStep
  BY <1>1 DEF StoreStep
<1> QED BY <1>1, <1>2, StoreOnly DEF WriteLands, Types

----------------------------------------------------------------------------
(* The whole specification *)

LEMMA NextIsStep == ASSUME Inv, Next PROVE Step
<1>1. ASSUME NEW g \in Grants, CreateUpload(g) PROVE Step
  BY <1>1, CreateUploadStep
<1>2. ASSUME NEW g \in AllGrants, Tick(g) PROVE Step
  BY <1>2, TickStep
<1>3. ASSUME NEW c \in Calls, NEW g \in Grants, BeginUpload(c, g) \/ Revoke(c, g) PROVE Step
  BY <1>3, BeginUploadStep, RevokeStep
<1>4. ASSUME NEW c \in Calls, NEW a \in Calls, Finalize(c, a) PROVE Step
  BY <1>4, FinalizeStep
<1>5. ASSUME NEW c \in Texts, IngestText(c) PROVE Step
  BY <1>5, IngestTextStep
<1>6. ASSUME NEW c \in Calls, PutAnswered(c) PROVE Step
  BY <1>6, PutAnsweredStep DEF AllCalls
<1>7. ASSUME NEW c \in AllCalls, Steps(c) PROVE Step
  BY <1>7, PutStep, VerifyStep, EnsureStep, PresentStep, CommitStep, AbandonStep, UnpromoteStep,
     UnstageStep, RecordStep DEF Steps
<1>8. ASSUME NEW c \in Reconcilers, NEW a \in Calls, Reconcile(c, a) PROVE Step
  BY <1>8, ReconcileStep
<1>9. ASSUME NEW k \in Keys, Sweep(k) \/ DeleteLands(k) PROVE Step
  BY <1>9, SweepStep, DeleteLandsStep
<1>10. ASSUME NEW w \in Keys \X Calls, WriteLands(w) PROVE Step
  BY <1>10, WriteLandsStep
<1> QED BY <1>1, <1>2, <1>3, <1>4, <1>5, <1>6, <1>7, <1>8, <1>9, <1>10 DEF Next, AllCalls

LEMMA StutterIsStep == ASSUME Inv, UNCHANGED vars PROVE Step
  BY SameAttempts, SameGrants, SameStore DEF vars, Inv, Types, Step, CallStep

LEMMA InitInv == Init => Inv
<1> SUFFICES ASSUME Init PROVE Inv
  OBVIOUS
<1>1. NoAttempt \in Attempt /\ NoAttempt.state = "none" /\ ~NoAttempt.digest /\ ~NoAttempt.removed
  BY DEF NoAttempt, Attempt
<1>2. /\ grant \in [AllGrants -> Grant] /\ attempt \in [Calls -> Attempt]
      /\ \A a \in Calls : attempt[a] = NoAttempt
  BY <1>1 DEF Init, Grant
<1>3. /\ source \in [SourceIds -> Calls \union {None}] /\ \A s \in SourceIds : source[s] = None
      /\ store = {} /\ deleting = {} /\ writing = {}
  BY DEF Init
<1>4. call \in [AllCalls -> Call] /\ \A c \in AllCalls : call[c] = NoCall
  BY NoCallTyped DEF Init, AllCalls
<1>5. \A a \in Calls : AttemptOK(a)
  BY <1>1, <1>2, <1>3 DEF AttemptOK
<1>6. \A c \in AllCalls : CallOK(c)
  BY <1>1, <1>2, <1>4, NoCallTyped DEF CallOK
<1> QED BY <1>2, <1>3, <1>4, <1>5, <1>6 DEF Inv, Types, SourceOK

(* The unique constraint: two committed attempts of one grant are one, for both
   are what the grant's source names. *)
LEMMA InvHolds == Inv => SourcesHold
<1> SUFFICES ASSUME Inv PROVE SourcesHold
  OBVIOUS
<1>1. \A a \in Calls : /\ attempt[a].state \in {"verified", "committed"} => attempt[a].digest
                       /\ attempt[a].state = "committed" =>
                            Original(a) \in store /\ source[SourceOf(attempt[a].grant)] = a
  BY DEF Inv, AttemptOK
<1>2. SourceHasBytes /\ OneSource
  BY <1>1 DEF SourceHasBytes, OneSource
<1>3. AnsweredIsCommitted
  <2>1. \A c \in AllCalls : call[c].answer # None => attempt[call[c].answer].state = "committed"
    BY DEF Inv, CallOK
  <2> QED BY <2>1 DEF AnsweredIsCommitted, Inv, Types, AllCalls
<1>4. TypeOK
  BY <1>1 DEF TypeOK, Inv, Types, AllCalls
<1> QED BY <1>2, <1>3, <1>4 DEF SourcesHold

(* A step of the allowed kind moves the ledger forward. *)
LEMMA StepForward == ASSUME Inv, Step PROVE LedgerForward
<1>1. ASSUME NEW a \in Calls
      PROVE  /\ attempt[a].state \in {"committed", "failed"} => attempt'[a].state = attempt[a].state
             /\ attempt[a].digest => attempt'[a].digest
             /\ attempt[a].removed => attempt'[a].removed
  <2>1. AttemptOK(a) /\ Change(a)
    BY DEF Inv, Step
  <2> QED BY <2>1 DEF AttemptOK, Change, Kept, Opens, Fails, Verifies, Commits, Cleans
<1> QED BY <1>1 DEF LedgerForward, Step, GrantStep

LEMMA Inductive == Spec => []Inv
<1>1. Inv /\ [Next]_vars => Inv'
  BY NextIsStep, StutterIsStep, StepKeeps
<1> QED BY <1>1, InitInv, PTL DEF Spec

(* Whatever revocations, late writes and deletes, ticks and sweeps run beside a
   finalization, and at whatever step a call stops: a committed source has its
   bytes, is the one source of its identity, and is what every answer names. *)
THEOREM SourcesSafe == Spec => []SourcesHold
  BY Inductive, InvHolds, PTL

(* No update the calls and ticks make moves the ledger back: what has ended stays
   as it is, and a digest and a removal are set once. *)
THEOREM LedgerMoves == Spec => LedgerStays
<1>1. Inv /\ [Next]_vars => [LedgerForward]_vars
  BY NextIsStep, StepForward
<1> QED BY <1>1, Inductive, PTL DEF Spec, LedgerStays

----------------------------------------------------------------------------
(* Removals: a deleted source's bytes, the part "removals" of the suite. *)

(* The constants are as OriginalErasure assumes. *)
LEMMA RemoveConstants == Removing!ErasureAssumption
  BY SuiteAssumption


(* A key without its place: a sequence of the same keys that holds each once. *)
LEMMA RemoveWithoutKey ==
  ASSUME NEW s \in Seq(Removing!Keys), Removing!Once(s), NEW k
  PROVE  /\ Removing!Without(s, k) \in Seq(Removing!Keys) /\ Removing!Once(Removing!Without(s, k))
         /\ \A i \in DOMAIN Removing!Without(s, k) : Removing!Without(s, k)[i] # k
<1>1. CASE k \notin Removing!ToSet(s)
  BY <1>1 DEF Removing!Without, Removing!ToSet
<1>2. CASE k \in Removing!ToSet(s)
  <2> DEFINE p == Removing!Position(s, k)
  <2>1. p \in DOMAIN s /\ s[p] = k
    BY <1>2 DEF Removing!Position, Removing!ToSet
  <2>2. DOMAIN s = 1 .. Len(s) /\ Len(s) \in Nat /\ Len(s) >= 1 /\ p \in 1 .. Len(s) /\ Len(s) - 1 \in Nat
    BY <2>1
  <2> DEFINE w == [i \in 1 .. (Len(s) - 1) |-> s[IF i < p THEN i ELSE i + 1]]
  <2>3. Removing!Without(s, k) = w
    BY <1>2 DEF Removing!Without
  <2> HIDE DEF p
  <2>4. \A i \in 1 .. (Len(s) - 1) : (IF i < p THEN i ELSE i + 1) \in DOMAIN s /\ (IF i < p THEN i ELSE i + 1) # p
    BY <2>2
  <2>5. \A i \in 1 .. (Len(s) - 1) : w[i] \in Removing!Keys
    BY <2>4
  <2>6. w \in Seq(Removing!Keys)
    BY <2>2, <2>5
  <2>7. DOMAIN w = 1 .. (Len(s) - 1)
    OBVIOUS
  <2>8. \A i \in DOMAIN w : w[i] # k
    BY <2>1, <2>4, <2>7 DEF Removing!Once
  <2>9. Removing!Once(w)
    <3> SUFFICES ASSUME NEW i \in DOMAIN w, NEW j \in DOMAIN w, w[i] = w[j]
                 PROVE  i = j
      BY DEF Removing!Once
    <3>1. i \in 1 .. (Len(s) - 1) /\ j \in 1 .. (Len(s) - 1)
      BY <2>7
    <3> HIDE DEF w
    <3>2. (IF i < p THEN i ELSE i + 1) = (IF j < p THEN j ELSE j + 1)
      BY <2>4, <3>1 DEF Removing!Once, w
    <3> QED
      BY <2>2, <3>1, <3>2
  <2> QED
    BY <2>3, <2>6, <2>8, <2>9
<1> QED
  BY <1>1, <1>2

(* A key deferred anew is deferred once. *)
LEMMA RemoveAppendKey ==
  ASSUME NEW s \in Seq(Removing!Keys), Removing!Once(s), NEW k \in Removing!Keys, \A i \in DOMAIN s : s[i] # k
  PROVE  Append(s, k) \in Seq(Removing!Keys) /\ Removing!Once(Append(s, k))
<1>1. /\ Append(s, k) \in Seq(Removing!Keys) /\ DOMAIN Append(s, k) = 1 .. (Len(s) + 1)
      /\ DOMAIN s = 1 .. Len(s) /\ Len(s) \in Nat
      /\ \A i \in 1 .. Len(s) : Append(s, k)[i] = s[i]
      /\ Append(s, k)[Len(s) + 1] = k
  OBVIOUS
<1>2. Removing!Once(Append(s, k))
  <2> SUFFICES ASSUME NEW i \in DOMAIN Append(s, k), NEW j \in DOMAIN Append(s, k), Append(s, k)[i] = Append(s, k)[j]
               PROVE  i = j
    BY DEF Removing!Once
  <2>1. (i \in 1 .. Len(s) \/ i = Len(s) + 1) /\ (j \in 1 .. Len(s) \/ j = Len(s) + 1)
    BY <1>1
  <2> QED
    BY <1>1, <2>1 DEF Removing!Once
<1> QED
  BY <1>1, <1>2

(* An erasure's row is what its fields are. *)
LEMMA RemoveRow ==
  ASSUME Removing!TypeOK
  PROVE  /\ s4.observed \in 0 .. SourceFinds /\ s4.found \subseteq Removing!Keys
         /\ s4.at \in 0 .. SourceFinds \union {None} /\ s4.removed \in BOOLEAN
         /\ s4.deferred \in Seq(Removing!Keys) /\ Removing!Once(s4.deferred)
         /\ s4.removed => s4.found = {} /\ s4.at = s4.observed
         /\ None \notin Nat /\ None \notin 0 .. SourceFinds /\ SourceFinds \in Nat /\ Removing!Original \in Removing!Keys
  BY RemoveConstants DEF Removing!TypeOK, Removing!Erasure, Removing!ErasureAssumption,
    Removing!Original, Removing!Promoted, Removing!Keys

----------------------------------------------------------------------------
(* At first nothing is recorded, and nothing removed. *)
LEMMA RemoveInitInv ==
  ASSUME Removing!Init
  PROVE  Removing!Inv
<1>0. /\ 0 \in 0 .. SourceFinds /\ Removing!Original \in Removing!Keys /\ Landing \subseteq Removing!Keys /\ 0 \in 0 .. SourceStops
      /\ None \notin Nat
  BY RemoveConstants DEF Removing!ErasureAssumption, Removing!Original, Removing!Promoted,
    Removing!Keys
<1>1. Removing!NoRemoval \in Removing!Removal
  BY <1>0 DEF Removing!NoRemoval, Removing!Removal
<1>2. s4 \in Removing!Erasure
  BY <1>0 DEF Removing!Init, Removing!Erasure
<1>3. Removing!Once(s4.deferred)
  BY DEF Removing!Init, Removing!Once
<1>4. Removing!TypeOK
  BY <1>0, <1>1, <1>2, <1>3 DEF Removing!Init, Removing!TypeOK
<1>5. Removing!ErasedMeansGone /\ Removing!Listed /\ Removing!Started /\ Removing!Counted /\ Removing!Recorded
  BY <1>0 DEF Removing!Init, Removing!ErasedMeansGone, Removing!Listed, Removing!Started,
    Removing!Counted, Removing!Recorded
<1>6. \A r \in Removals : Removing!RemovalOK(s8[r])
  BY DEF Removing!Init, Removing!RemovalOK, Removing!NoRemoval
<1> QED
  BY <1>4, <1>5, <1>6 DEF Removing!Inv

----------------------------------------------------------------------------
(* What a step may do to what a removal relies on: time goes on, and a key comes
   back only as written late, or found and counted. *)
RemoveBeside ==
    /\ s1 => s1' /\ (s2 => s2')
    /\ s4.observed <= s4'.observed
    /\ s1 /\ s2 =>
        \A k \in s5' \ s7' :
           \/ k \in s5 \ s7 /\ (k \in s4.found => k \in s4'.found)
           \/ k \in s4'.found /\ s4.observed < s4'.observed

(* A removal's record is that of its type. *)
LEMMA RemoveRemovalTyped ==
  ASSUME Removing!TypeOK, NEW r \in Removals
  PROVE  s8[r] \in Removing!Removal
  BY DEF Removing!TypeOK

(* It leaves every other removal right. *)
LEMMA RemoveBesideOthers ==
  ASSUME Removing!Inv, RemoveBeside, Removing!TypeOK', NEW m \in Removing!Removal, Removing!RemovalOK(m)
  PROVE  Removing!RemovalOK(m)'
<1> SUFFICES ASSUME m.pc # "idle"
             PROVE  /\ s1' /\ s2' /\ m.observed <= s4'.observed
                    /\ \A k \in m.done \intersect (s5' \ s7') : k \in s4'.found /\ m.observed < s4'.observed
  BY DEF Removing!RemovalOK
<1>1. m.observed \in Nat /\ s4.observed \in Nat /\ s4'.observed \in Nat
  BY DEF Removing!Inv, Removing!TypeOK, Removing!Removal, Removing!Erasure
<1>2. s1 /\ s2 /\ m.observed <= s4.observed
  BY DEF Removing!RemovalOK
<1>3. s1' /\ s2' /\ m.observed <= s4'.observed
  BY <1>1, <1>2 DEF RemoveBeside
<1>4. ASSUME NEW k \in m.done \intersect (s5' \ s7')
      PROVE  k \in s4'.found /\ m.observed < s4'.observed
  <2>1. CASE k \in s5 \ s7 /\ (k \in s4.found => k \in s4'.found)
    <3>1. k \in s4.found /\ m.observed < s4.observed
      BY <1>4, <2>1 DEF Removing!RemovalOK
    <3> QED
      BY <1>1, <2>1, <3>1 DEF RemoveBeside
  <2>2. CASE k \in s4'.found /\ s4.observed < s4'.observed
    BY <1>1, <1>2, <2>2
  <2> QED
    BY <1>2, <1>4, <2>1, <2>2 DEF RemoveBeside
<1> QED
  BY <1>3, <1>4

(* A step of the world. *)
LEMMA RemoveWorldKeeps ==
  ASSUME Removing!Inv, RemoveBeside, s8' = s8, Removing!TypeOK', Removing!ErasedMeansGone', Removing!Listed', Removing!Started', Removing!Counted', Removing!Recorded'
  PROVE  Removing!Inv'
<1>1. \A r \in Removals : s8[r] \in Removing!Removal /\ Removing!RemovalOK(s8[r])
  BY RemoveRemovalTyped DEF Removing!Inv
<1>2. \A r \in Removals : Removing!RemovalOK(s8[r])'
  <2> TAKE r \in Removals
  <2> DEFINE m == s8[r]
  <2>1. PICK n : n = s8[r]
    OBVIOUS
  <2>2. n \in Removing!Removal /\ Removing!RemovalOK(n) /\ s8'[r] = n
    BY <1>1, <2>1
  <2>3. Removing!RemovalOK(n)'
    BY <2>2, RemoveBesideOthers
  <2> QED
    BY <2>2, <2>3 DEF Removing!RemovalOK
<1> QED
  BY <1>2 DEF Removing!Inv

(* A step of one removal. *)
LEMMA RemoveOneKeeps ==
  ASSUME Removing!Inv, RemoveBeside, NEW r \in Removals, NEW new \in Removing!Removal, Removing!Set(r, new),
         Removing!TypeOK', Removing!ErasedMeansGone', Removing!Listed', Removing!Started', Removing!Counted', Removing!Recorded', Removing!RemovalOK(new)'
  PROVE  Removing!Inv'
<1>1. \A q \in Removals : s8[q] \in Removing!Removal /\ Removing!RemovalOK(s8[q])
  BY RemoveRemovalTyped DEF Removing!Inv
<1>2. \A q \in Removals : s8'[q] = IF q = r THEN new ELSE s8[q]
  BY DEF Removing!Set, Removing!Inv, Removing!TypeOK
<1>3. \A q \in Removals : Removing!RemovalOK(s8[q])'
  <2> TAKE q \in Removals
  <2>1. PICK n : n = s8[q]
    OBVIOUS
  <2>2. n \in Removing!Removal /\ Removing!RemovalOK(n)
    BY <1>1, <2>1
  <2>3. Removing!RemovalOK(n)'
    BY <2>2, RemoveBesideOthers
  <2> QED
    BY <1>2, <2>1, <2>3 DEF Removing!RemovalOK
<1> QED
  BY <1>3 DEF Removing!Inv

----------------------------------------------------------------------------
(* The source is deleted. *)
LEMMA RemoveDeleteSourceStep ==
  ASSUME Removing!Inv, Removing!DeleteSource
  PROVE  Removing!Inv'
<1>1. Removing!TypeOK'
  BY DEF Removing!DeleteSource, Removing!Inv, Removing!TypeOK
<1>2. RemoveBeside
  BY RemoveRow DEF Removing!DeleteSource, RemoveBeside, Removing!Inv
<1>3. Removing!ErasedMeansGone' /\ Removing!Listed' /\ Removing!Started' /\ Removing!Counted' /\ Removing!Recorded'
  BY DEF Removing!DeleteSource, Removing!Inv, Removing!ErasedMeansGone, Removing!Listed,
    Removing!Started, Removing!Counted, Removing!Recorded
<1> QED
  BY <1>1, <1>2, <1>3, RemoveWorldKeeps DEF Removing!DeleteSource

(* Its writers end. *)
LEMMA RemoveWritersEndStep ==
  ASSUME Removing!Inv, Removing!WritersEnd
  PROVE  Removing!Inv'
<1>1. Removing!TypeOK'
  BY DEF Removing!WritersEnd, Removing!Inv, Removing!TypeOK
<1>2. RemoveBeside
  BY RemoveRow DEF Removing!WritersEnd, RemoveBeside, Removing!Inv
<1>3. Removing!ErasedMeansGone' /\ Removing!Listed' /\ Removing!Started' /\ Removing!Counted' /\ Removing!Recorded'
  BY DEF Removing!WritersEnd, Removing!Inv, Removing!ErasedMeansGone, Removing!Listed,
    Removing!Started, Removing!Counted, Removing!Recorded
<1> QED
  BY <1>1, <1>2, <1>3, RemoveWorldKeeps DEF Removing!WritersEnd

(* A write lands. *)
LEMMA RemoveWriteLandsStep ==
  ASSUME Removing!Inv, NEW k \in Removing!Keys, Removing!WriteLands(k)
  PROVE  Removing!Inv'
<1>1. Removing!TypeOK'
  BY DEF Removing!WriteLands, Removing!Inv, Removing!TypeOK
<1>2. RemoveBeside
  BY RemoveRow DEF Removing!WriteLands, RemoveBeside, Removing!Inv
<1>3. Removing!ErasedMeansGone' /\ Removing!Listed' /\ Removing!Started' /\ Removing!Counted'
  BY DEF Removing!WriteLands, Removing!Inv, Removing!ErasedMeansGone, Removing!Listed,
    Removing!Started, Removing!Counted
<1>4. Removing!Recorded'
  BY RemoveRow DEF Removing!WriteLands, Removing!Inv, Removing!Recorded, Removing!Started
<1> QED
  BY <1>1, <1>2, <1>3, <1>4, RemoveWorldKeeps DEF Removing!WriteLands

(* An early removal takes a key. *)
LEMMA RemoveRemoveEarlyStep ==
  ASSUME Removing!Inv, NEW k \in Removing!Keys, Removing!RemoveEarly(k)
  PROVE  Removing!Inv'
<1>1. Removing!TypeOK'
  BY DEF Removing!RemoveEarly, Removing!Inv, Removing!TypeOK
<1>2. RemoveBeside
  BY RemoveRow DEF Removing!RemoveEarly, RemoveBeside, Removing!Inv
<1>3. Removing!ErasedMeansGone' /\ Removing!Listed' /\ Removing!Started' /\ Removing!Counted' /\ Removing!Recorded'
  BY DEF Removing!RemoveEarly, Removing!Inv, Removing!ErasedMeansGone, Removing!Listed,
    Removing!Started, Removing!Counted, Removing!Recorded
<1> QED
  BY <1>1, <1>2, <1>3, RemoveWorldKeeps DEF Removing!RemoveEarly

(* The sweep lists a key, *)
LEMMA RemoveListStep ==
  ASSUME Removing!Inv, NEW k \in Removing!Keys, Removing!List(k)
  PROVE  Removing!Inv'
<1>1. Removing!TypeOK'
  BY DEF Removing!List, Removing!Inv, Removing!TypeOK
<1>2. RemoveBeside
  BY RemoveRow DEF Removing!List, RemoveBeside, Removing!Inv
<1>3. Removing!ErasedMeansGone' /\ Removing!Listed' /\ Removing!Started' /\ Removing!Counted' /\ Removing!Recorded'
  BY DEF Removing!List, Removing!Inv, Removing!ErasedMeansGone, Removing!Listed, Removing!Started,
    Removing!Counted, Removing!Recorded
<1> QED
  BY <1>1, <1>2, <1>3, RemoveWorldKeeps DEF Removing!List

(* counts a finding, *)
LEMMA RemoveFindStep ==
  ASSUME Removing!Inv, Removing!Find
  PROVE  Removing!Inv'
<1>0. s9' \in [pc: {"idle", "listed", "found"}, key: Removing!Keys \union {None}] /\ Removing!Listed'
  BY DEF Removing!Find, Removing!Inv, Removing!TypeOK, Removing!Listed
<1>1. CASE ~s1
  <2>1. UNCHANGED <<s1, s2, s3, s4, s7, s5, s6, s8, s10>>
    BY <1>1 DEF Removing!Find
  <2>2. Removing!TypeOK'
    BY <1>0, <2>1 DEF Removing!Inv, Removing!TypeOK
  <2>3. RemoveBeside
    BY <2>1, RemoveRow DEF RemoveBeside, Removing!Inv
  <2>4. Removing!ErasedMeansGone' /\ Removing!Listed' /\ Removing!Started' /\ Removing!Counted' /\ Removing!Recorded'
    BY <1>0, <2>1 DEF Removing!Inv, Removing!ErasedMeansGone, Removing!Listed, Removing!Started,
      Removing!Counted, Removing!Recorded
  <2> QED
    BY <2>1, <2>2, <2>3, <2>4, RemoveWorldKeeps
<1>2. CASE s1
  <2>1. /\ UNCHANGED <<s1, s2, s3, s5, s6, s8, s10>>
        /\ s4.observed < SourceFinds
        /\ s4' = [s4 EXCEPT !.observed = s4.observed + 1, !.removed = FALSE, !.found = Removing!FoundWith(s9.key)]
        /\ s7' = s7 \ {s9.key}
    BY <1>2 DEF Removing!Find
  <2>2. s9.key \in Removing!Keys
    BY DEF Removing!Find, Removing!Inv, Removing!Listed
  <2>3. /\ s4'.observed = s4.observed + 1 /\ s4'.removed = FALSE
        /\ s4'.found = s4.found \union {s9.key} /\ s4'.at = s4.at
        /\ s4'.deferred = s4.deferred
    BY <2>1 DEF Removing!Inv, Removing!TypeOK, Removing!Erasure, Removing!FoundWith
  <2>4. s4' \in Removing!Erasure
    <3>1. s4.observed + 1 \in 0 .. SourceFinds /\ Removing!FoundWith(s9.key) \subseteq Removing!Keys
      BY <2>1, <2>2, RemoveRow DEF Removing!Inv, Removing!FoundWith
    <3> QED
      BY <2>1, <3>1 DEF Removing!Inv, Removing!TypeOK, Removing!Erasure
  <2>5. Removing!TypeOK'
    BY <1>0, <2>1, <2>3, <2>4 DEF Removing!Inv, Removing!TypeOK
  <2>6. s4.observed < s4'.observed /\ (s4.at # None => s4.at # s4'.observed)
    BY <2>3, RemoveRow DEF Removing!Inv, Removing!Counted
  <2>7. RemoveBeside
    BY <2>1, <2>3, <2>6, RemoveRow DEF RemoveBeside, Removing!Inv
  <2>8. Removing!ErasedMeansGone' /\ Removing!Listed' /\ Removing!Started'
    BY <1>0, <2>1, <2>3 DEF Removing!Inv, Removing!ErasedMeansGone, Removing!Listed,
      Removing!Started
  <2>9. Removing!Counted'
    BY <2>3, RemoveRow DEF Removing!Inv, Removing!Counted
  <2>10. s4'.at # s4'.observed
    BY <2>3, <2>6, RemoveRow DEF Removing!Inv
  <2>11. Removing!Recorded'
    BY <2>1, <2>3, <2>10 DEF Removing!Inv, Removing!Recorded
  <2> QED
    BY <2>1, <2>5, <2>7, <2>8, <2>9, <2>11, RemoveWorldKeeps
<1> QED
  BY <1>1, <1>2

(* and deletes it, or fails to. *)
LEMMA RemoveSweepDeleteStep ==
  ASSUME Removing!Inv, Removing!SweepDelete
  PROVE  Removing!Inv'
<1>1. /\ s5' \subseteq s5 /\ s9' = [pc |-> "idle", key |-> None]
      /\ UNCHANGED <<s1, s2, s3, s4, s6, s7, s8, s10>>
  BY DEF Removing!SweepDelete
<1>2. Removing!TypeOK'
  BY <1>1 DEF Removing!Inv, Removing!TypeOK
<1>3. RemoveBeside
  BY <1>1, RemoveRow DEF RemoveBeside, Removing!Inv
<1>4. Removing!ErasedMeansGone' /\ Removing!Listed' /\ Removing!Started' /\ Removing!Counted' /\ Removing!Recorded'
  BY <1>1 DEF Removing!Inv, Removing!ErasedMeansGone, Removing!Listed, Removing!Started,
    Removing!Counted, Removing!Recorded
<1> QED
  BY <1>1, <1>2, <1>3, <1>4, RemoveWorldKeeps

----------------------------------------------------------------------------
(* The record of a removal, and what may be changed of it. *)
LEMMA RemoveFields ==
  ASSUME NEW m \in Removing!Removal
  PROVE  /\ m.pc \in {"idle", "try", "record"} /\ m.observed \in 0 .. SourceFinds /\ m.todo \subseteq Removing!Units
         /\ m.joined \subseteq Removing!Units /\ m.done \subseteq Removing!Keys /\ m.missed \subseteq Removing!Keys /\ m.unit \in Removing!Units \union {None}
  BY DEF Removing!Removal

(* The unit that is next is one of its units, and names a key. *)
LEMMA RemoveNextOne ==
  ASSUME NEW m \in Removing!Removal, NEW u \in Removing!NextUnits(m)
  PROVE  u \in m.todo \union m.joined /\ u \in Removing!Units /\ u[2] \in Removing!Keys /\ u[1] \in {"original", "staged", "found"}
<1>1. u \in m.todo \union m.joined
  BY DEF Removing!NextUnits
<1>2. u \in Removing!Units
  BY <1>1, RemoveFields
<1> QED
  BY <1>1, <1>2 DEF Removing!Units

(* How a removal starts. *)
RemoveBegun(observed, gone, ranks, todo, done) ==
    [Removing!NoRemoval EXCEPT !.pc = "try", !.observed = observed, !.gone = gone, !.ranks = ranks, !.todo = todo, !.done = done]

(* Its record, with what it read. *)
LEMMA RemoveBegins ==
  ASSUME NEW observed, NEW gone, NEW ranks, NEW todo, NEW done, NEW new,
         observed \in 0 .. SourceFinds, gone \in BOOLEAN, ranks \in Seq(Removing!Keys), todo \subseteq Removing!Units, done \subseteq Removing!Keys,
         new = RemoveBegun(observed, gone, ranks, todo, done)
  PROVE  /\ new \in Removing!Removal /\ new.pc = "try" /\ new.observed = observed /\ new.todo = todo /\ new.joined = {}
         /\ new.done = done
  BY DEF RemoveBegun, Removing!NoRemoval, Removing!Removal

(* A removal that starts takes keys that are not recorded. *)
LEMMA RemoveStartStep ==
  ASSUME Removing!Inv, NEW r \in Removals, Removing!Start(r)
  PROVE  Removing!Inv'
<1>1. PICK found \in Removing!Pages(s4.found), staged \in Removing!Pages({Removing!Staging(a) : a \in Attempts \ s3}) :
         Removing!Set(r, [Removing!NoRemoval EXCEPT !.pc = "try", !.observed = s4.observed, !.gone = s4.at = s4.observed,
                                                    !.ranks = s4.deferred,
                                                    !.todo = {<<"original", Removing!Original>>} \union ({"staged"} \X staged) \union ({"found"} \X found),
                                                    !.done = IF s4.at = s4.observed THEN {Removing!Original} ELSE {}])
  BY DEF Removing!Start
<1>2. found \subseteq Removing!Keys /\ staged \subseteq {Removing!Staging(a) : a \in Attempts \ s3}
  BY RemoveRow DEF Removing!Pages, Removing!Inv
<1>3. staged \subseteq Removing!Keys
  BY <1>2 DEF Removing!Staging, Removing!Keys
<1>4. PICK observed, gone, ranks, done :
         /\ observed = s4.observed /\ gone = (s4.at = s4.observed) /\ ranks = s4.deferred
         /\ done = IF s4.at = s4.observed THEN {Removing!Original} ELSE {}
  OBVIOUS
<1>t. PICK todo : todo = {<<"original", Removing!Original>>} \union ({"staged"} \X staged) \union ({"found"} \X found)
  OBVIOUS
<1>5. todo \subseteq Removing!Units /\ done \subseteq Removing!Keys
  BY <1>2, <1>3, <1>4, <1>t, RemoveRow DEF Removing!Units, Removing!Inv
<1>6. \A u \in todo : Removing!UnitOK(u)
  <2> TAKE u \in todo
  <2>1. CASE u = <<"original", Removing!Original>>
    BY <2>1 DEF Removing!UnitOK
  <2>2. CASE u \in {"staged"} \X staged
    BY <1>2, <2>2 DEF Removing!UnitOK, Removing!Staging
  <2>3. CASE u \in {"found"} \X found
    BY <2>3 DEF Removing!UnitOK
  <2> QED
    BY <1>t, <2>1, <2>2, <2>3
<1>7. \A k \in done : k \notin s5 \ s7
  BY <1>4 DEF Removing!Inv, Removing!Recorded
<1>8. Removing!Set(r, RemoveBegun(observed, gone, ranks, todo, done))
  BY <1>1, <1>4, <1>t DEF RemoveBegun
<1>d. PICK new : new = RemoveBegun(observed, gone, ranks, todo, done)
  OBVIOUS
<1>9. /\ observed \in 0 .. SourceFinds /\ gone \in BOOLEAN /\ ranks \in Seq(Removing!Keys)
      /\ todo \subseteq Removing!Units /\ done \subseteq Removing!Keys
  BY <1>4, <1>5, RemoveRow DEF Removing!Inv
<1>10. /\ new \in Removing!Removal /\ new.pc = "try" /\ new.observed = observed /\ new.todo = todo /\ new.joined = {}
       /\ new.done = done
  BY <1>9, <1>d, RemoveBegins
<1>11. Removing!Set(r, new) /\ UNCHANGED <<s1, s2, s3, s4, s5, s6, s7, s9, s10>> /\ Removing!Due
  BY <1>8, <1>d DEF Removing!Start
<1>12. Removing!TypeOK'
  BY <1>10, <1>11 DEF Removing!Inv, Removing!TypeOK, Removing!Set
<1>13. Removing!RemovalOK(new)'
  <2>1. s1' /\ s2' /\ new.observed <= s4'.observed
    BY <1>4, <1>10, <1>11, RemoveRow DEF Removing!Due, Removing!Inv
  <2>2. \A k \in new.done \intersect (s5' \ s7') : k \in s4'.found /\ new.observed < s4'.observed
    BY <1>7, <1>10, <1>11
  <2> QED
    BY <1>6, <1>10, <2>1, <2>2 DEF Removing!RemovalOK
<1>14. RemoveBeside
  BY <1>11, RemoveRow DEF RemoveBeside, Removing!Inv
<1>15. Removing!ErasedMeansGone' /\ Removing!Listed' /\ Removing!Started' /\ Removing!Counted' /\ Removing!Recorded'
  BY <1>11 DEF Removing!Inv, Removing!ErasedMeansGone, Removing!Listed, Removing!Started,
    Removing!Counted, Removing!Recorded
<1> QED
  BY <1>10, <1>11, <1>12, <1>13, <1>14, <1>15, RemoveOneKeeps

(* It deletes a key, unless it has. *)
LEMMA RemoveDeleteStep ==
  ASSUME Removing!Inv, NEW r \in Removals, NEW u \in Removing!Units, Removing!Delete(r, u)
  PROVE  Removing!Inv'
<1>0. PICK m : m = s8[r]
  OBVIOUS
<1>1. m \in Removing!Removal /\ Removing!RemovalOK(m) /\ m.pc = "try" /\ u \in Removing!NextUnits(m)
  BY <1>0, RemoveRemovalTyped DEF Removing!Delete, Removing!Inv
<1>2. u \in m.todo \union m.joined /\ u[2] \in Removing!Keys
  BY <1>1, RemoveNextOne
<1> DEFINE new == [m EXCEPT !.todo = m.todo \ {u}, !.joined = m.joined \ {u}, !.pc = "record", !.unit = u, !.done = m.done \union {u[2]}]
<1>3. Removing!Set(r, new)
  <2>1. [Removing!Without1(m, u) EXCEPT !.pc = "record", !.unit = u, !.done = @ \union {u[2]}] = new
    BY <1>1 DEF Removing!Without1, Removing!Removal
  <2> QED
    BY <1>0, <2>1 DEF Removing!Delete
<1>4. /\ s5' = IF u[2] \in m.done THEN s5 ELSE s5 \ {u[2]}
      /\ UNCHANGED <<s1, s2, s3, s4, s6, s7, s9, s10>>
  BY <1>0 DEF Removing!Delete
<1>5. /\ new.pc = "record" /\ new.observed = m.observed /\ new.todo = m.todo \ {u} /\ new.joined = m.joined \ {u}
      /\ new.done = m.done \union {u[2]} /\ new.unit = u
  BY <1>1 DEF Removing!Removal
<1>6. new \in Removing!Removal
  BY <1>1, <1>2, RemoveFields DEF Removing!Removal
<1> HIDE DEF new
<1>7. Removing!TypeOK'
  BY <1>3, <1>4, <1>6 DEF Removing!Inv, Removing!TypeOK, Removing!Set
<1>8. RemoveBeside
  BY <1>4, RemoveRow DEF RemoveBeside, Removing!Inv
<1>9. Removing!ErasedMeansGone' /\ Removing!Listed' /\ Removing!Started' /\ Removing!Counted' /\ Removing!Recorded'
  BY <1>4 DEF Removing!Inv, Removing!ErasedMeansGone, Removing!Listed, Removing!Started,
    Removing!Counted, Removing!Recorded
<1>10. Removing!RemovalOK(new)'
  <2>1. /\ s1 /\ s2 /\ m.observed <= s4.observed
        /\ \A v \in m.todo \union m.joined : Removing!UnitOK(v)
        /\ \A k \in m.done \intersect (s5 \ s7) : k \in s4.found /\ m.observed < s4.observed
    BY <1>1 DEF Removing!RemovalOK
  <2>2. \A k \in new.done \intersect (s5' \ s7') : k \in s4'.found /\ new.observed < s4'.observed
    BY <1>4, <1>5, <2>1
  <2>3. /\ s1' /\ s2' /\ new.observed <= s4'.observed
        /\ \A v \in new.todo \union new.joined : Removing!UnitOK(v)
        /\ new.unit \in Removing!Units /\ Removing!UnitOK(new.unit) /\ new.unit[2] \in new.done
    BY <1>2, <1>4, <1>5, <2>1
  <2> QED
    BY <2>2, <2>3 DEF Removing!RemovalOK
<1> QED
  BY <1>3, <1>6, <1>7, <1>8, <1>9, <1>10, RemoveOneKeeps


(* A removal that goes on with fewer units, or more found ones, has deleted no more. *)
LEMMA RemoveLessToDo ==
  ASSUME NEW m \in Removing!Removal, NEW new \in Removing!Removal, Removing!RemovalOK(m), m.pc # "idle",
         new.pc = "try", new.observed = m.observed, new.done = m.done,
         \A u \in new.todo \union new.joined : u \in m.todo \union m.joined \/ u[1] = "found"
  PROVE  Removing!RemovalOK(new)
  BY DEF Removing!RemovalOK, Removing!UnitOK

(* The erasure with another order of its deferred keys: all else stays. *)
LEMMA RemoveReordered ==
  ASSUME Removing!TypeOK, NEW s \in Seq(Removing!Keys), Removing!Once(s), s4' = [s4 EXCEPT !.deferred = s]
  PROVE  /\ s4' \in Removing!Erasure /\ Removing!Once(s4'.deferred)
         /\ s4'.observed = s4.observed /\ s4'.found = s4.found
         /\ s4'.at = s4.at /\ s4'.removed = s4.removed
<1>1. /\ s4'.observed = s4.observed /\ s4'.found = s4.found
      /\ s4'.at = s4.at /\ s4'.removed = s4.removed /\ s4'.deferred = s
  BY DEF Removing!TypeOK, Removing!Erasure
<1>2. s4' \in Removing!Erasure
  BY DEF Removing!TypeOK, Removing!Erasure
<1> QED
  BY <1>1, <1>2

(* A step that changes of the erasure that order only, and of the removals one. *)
LEMMA RemoveSameErasure ==
  ASSUME Removing!Inv, NEW r \in Removals, NEW new \in Removing!Removal, Removing!Set(r, new), Removing!RemovalOK(new),
         s4' \in Removing!Erasure, Removing!Once(s4'.deferred),
         s4'.observed = s4.observed, s4'.found = s4.found,
         s4'.at = s4.at, s4'.removed = s4.removed,
         s10' \in 0 .. SourceStops,
         UNCHANGED <<s1, s2, s3, s5, s6, s7, s9>>
  PROVE  Removing!Inv'
<1>1. Removing!TypeOK'
  BY DEF Removing!Inv, Removing!TypeOK, Removing!Set
<1>2. RemoveBeside
  BY RemoveRow DEF RemoveBeside, Removing!Inv
<1>3. Removing!ErasedMeansGone' /\ Removing!Listed' /\ Removing!Started' /\ Removing!Counted' /\ Removing!Recorded'
  BY DEF Removing!Inv, Removing!ErasedMeansGone, Removing!Listed, Removing!Started,
    Removing!Counted, Removing!Recorded
<1>4. Removing!RemovalOK(new)'
  BY DEF Removing!RemovalOK
<1> QED
  BY <1>1, <1>2, <1>3, <1>4, RemoveOneKeeps

(* A delete that fails defers its key, and the removal passes over it. *)
LEMMA RemoveDeleteFailsStep ==
  ASSUME Removing!Inv, NEW r \in Removals, NEW u \in Removing!Units, Removing!DeleteFails(r, u)
  PROVE  Removing!Inv'
<1>0. PICK m : m = s8[r]
  OBVIOUS
<1>1. m \in Removing!Removal /\ Removing!RemovalOK(m) /\ m.pc = "try" /\ u \in Removing!NextUnits(m)
  BY <1>0, RemoveRemovalTyped DEF Removing!DeleteFails, Removing!Inv
<1>2. u[2] \in Removing!Keys
  BY <1>1, RemoveNextOne
<1>3. /\ s4' \in Removing!Erasure /\ Removing!Once(s4'.deferred)
      /\ s4'.observed = s4.observed /\ s4'.found = s4.found
      /\ s4'.at = s4.at /\ s4'.removed = s4.removed
  <2>1. CASE s4.removed
    <3>1. s4' = s4
      BY <2>1 DEF Removing!DeleteFails
    <3> QED
      BY <3>1 DEF Removing!Inv, Removing!TypeOK
  <2>2. CASE ~s4.removed
    <3>1. s4' = [s4 EXCEPT !.deferred = Append(Removing!Without(s4.deferred, u[2]), u[2])]
      BY <2>2 DEF Removing!DeleteFails
    <3>2. PICK w : w = Removing!Without(s4.deferred, u[2])
      OBVIOUS
    <3>3. w \in Seq(Removing!Keys) /\ Removing!Once(w) /\ \A i \in DOMAIN w : w[i] # u[2]
      BY <3>2, RemoveWithoutKey, RemoveRow DEF Removing!Inv
    <3>4. Append(w, u[2]) \in Seq(Removing!Keys) /\ Removing!Once(Append(w, u[2]))
      BY <1>2, <3>3, RemoveAppendKey
    <3> QED
      BY <3>1, <3>2, <3>4, RemoveReordered DEF Removing!Inv
  <2> QED
    BY <2>1, <2>2
<1>4. UNCHANGED <<s1, s2, s3, s5, s6, s7, s9, s10>> /\ s10' \in 0 .. SourceStops
  BY DEF Removing!DeleteFails, Removing!Inv, Removing!TypeOK
<1>5. \E missed \in SUBSET Removing!Keys, todo \in SUBSET m.todo, joined \in SUBSET m.joined, cut \in BOOLEAN :
        Removing!Set(r, [m EXCEPT !.missed = missed, !.todo = todo, !.joined = joined, !.cut = cut])
  <2> DEFINE others(units) == {v \in units : v[2] # u[2]}
  <2>1. m.missed \union {u[2]} \in SUBSET Removing!Keys
    BY <1>1, <1>2, RemoveFields
  <2>2. \/ Removing!Set(r, [m EXCEPT !.missed = m.missed \union {u[2]}, !.todo = others(m.todo), !.joined = others(m.joined)])
        \/ Removing!Set(r, [m EXCEPT !.missed = m.missed \union {u[2]}, !.todo = {}, !.joined = {}, !.cut = TRUE])
    BY <1>0 DEF Removing!DeleteFails
  <2>3. CASE Removing!Set(r, [m EXCEPT !.missed = m.missed \union {u[2]}, !.todo = {}, !.joined = {}, !.cut = TRUE])
    BY <2>1, <2>3
  <2>4. CASE Removing!Set(r, [m EXCEPT !.missed = m.missed \union {u[2]}, !.todo = others(m.todo), !.joined = others(m.joined)])
    <3>1. PICK missed, todo, joined : missed = m.missed \union {u[2]} /\ todo = others(m.todo) /\ joined = others(m.joined)
      OBVIOUS
    <3>2. missed \in SUBSET Removing!Keys /\ todo \in SUBSET m.todo /\ joined \in SUBSET m.joined /\ m.cut \in BOOLEAN
      BY <1>1, <2>1, <3>1 DEF Removing!Removal
    <3>3. Removing!Set(r, [m EXCEPT !.missed = missed, !.todo = todo, !.joined = joined])
      BY <2>4, <3>1
    <3>4. [m EXCEPT !.missed = missed, !.todo = todo, !.joined = joined]
            = [m EXCEPT !.missed = missed, !.todo = todo, !.joined = joined, !.cut = m.cut]
      BY <1>1 DEF Removing!Removal
    <3>5. Removing!Set(r, [m EXCEPT !.missed = missed, !.todo = todo, !.joined = joined, !.cut = m.cut])
      BY <3>3, <3>4, Zenon
    <3> QED
      BY <3>2, <3>5, Zenon
  <2> QED
    BY <2>2, <2>3, <2>4
<1>6. PICK missed \in SUBSET Removing!Keys, todo \in SUBSET m.todo, joined \in SUBSET m.joined, cut \in BOOLEAN :
        Removing!Set(r, [m EXCEPT !.missed = missed, !.todo = todo, !.joined = joined, !.cut = cut])
  BY <1>5
<1>7. PICK new : new = [m EXCEPT !.missed = missed, !.todo = todo, !.joined = joined, !.cut = cut]
  OBVIOUS
<1>8. /\ new.pc = "try" /\ new.observed = m.observed /\ new.done = m.done /\ new.todo = todo /\ new.joined = joined
  BY <1>1, <1>7 DEF Removing!Removal
<1>9. todo \in SUBSET Removing!Units /\ joined \in SUBSET Removing!Units
  BY <1>1, RemoveFields
<1>10. new \in Removing!Removal
  BY <1>1, <1>7, <1>9 DEF Removing!Removal
<1>11. Removing!RemovalOK(new)
  BY <1>1, <1>8, <1>10, RemoveLessToDo
<1> QED
  BY <1>3, <1>4, <1>6, <1>7, <1>10, <1>11, RemoveSameErasure

(* A removal between two units. *)
LEMMA RemoveBetween ==
  ASSUME NEW m \in Removing!Removal, NEW new, new = [m EXCEPT !.pc = "try", !.unit = None]
  PROVE  /\ new \in Removing!Removal /\ new.pc = "try" /\ new.observed = m.observed /\ new.done = m.done
         /\ new.todo = m.todo /\ new.joined = m.joined
  BY DEF Removing!Removal

(* It records a key of its reading that is gone. *)
LEMMA RemoveKeyGone ==
  ASSUME Removing!Inv, NEW m \in Removing!Removal, Removing!RemovalOK(m), m.pc = "record", Removing!Fence(m)
  PROVE  m.unit[2] \notin s5 \ s7
  BY RemoveRow, RemoveFields DEF Removing!RemovalOK, Removing!Fence, Removing!Inv

(* Its record of a found key, or of the original. *)
LEMMA RemoveRecordKeyStep ==
  ASSUME Removing!Inv, NEW r \in Removals, Removing!RecordKey(r)
  PROVE  Removing!Inv'
<1>0. PICK m : m = s8[r]
  OBVIOUS
<1>1. m \in Removing!Removal /\ Removing!RemovalOK(m) /\ m.pc = "record" /\ m.unit[1] # "staged"
  BY <1>0, RemoveRemovalTyped DEF Removing!RecordKey, Removing!Inv
<1>2. PICK k : k = m.unit[2]
  OBVIOUS
<1>3. m.unit \in Removing!Units /\ Removing!UnitOK(m.unit) /\ k \in m.done /\ k \in Removing!Keys /\ m.unit[1] \in {"original", "found"}
  BY <1>1, <1>2 DEF Removing!RemovalOK, Removing!Units
<1>4. UNCHANGED <<s1, s2, s3, s5, s6, s7, s9, s10>> /\ s10' \in 0 .. SourceStops
  BY DEF Removing!RecordKey, Removing!Inv, Removing!TypeOK
<1>5. PICK on : on = [m EXCEPT !.pc = "try", !.unit = None]
  OBVIOUS
<1>6. PICK ended : ended = [m EXCEPT !.pc = "try", !.unit = None, !.current = FALSE, !.todo = {}, !.joined = {}]
  OBVIOUS
<1>7. /\ on \in Removing!Removal /\ on.pc = "try" /\ on.observed = m.observed /\ on.done = m.done
      /\ on.todo = m.todo /\ on.joined = m.joined
  BY <1>1, <1>5, RemoveBetween
<1>8. /\ ended \in Removing!Removal /\ ended.pc = "try" /\ ended.observed = m.observed /\ ended.done = m.done
      /\ ended.todo = {} /\ ended.joined = {}
  BY <1>1, <1>6 DEF Removing!Removal
<1>9. Removing!RemovalOK(on) /\ Removing!RemovalOK(ended)
  BY <1>1, <1>7, <1>8, RemoveLessToDo
<1>10. \/ Removing!Set(r, on) /\ s4' = s4
       \/ Removing!Set(r, ended) /\ s4' = s4
       \/ /\ Removing!Set(r, on) /\ Removing!Fence(m)
          /\ s4' = IF m.unit[1] = "found" THEN [Removing!Goes(k) EXCEPT !.found = @ \ {k}] ELSE [Removing!Goes(k) EXCEPT !.at = m.observed]
  BY <1>0, <1>2, <1>5, <1>6 DEF Removing!RecordKey
<1>11. CASE s4' = s4 /\ (Removing!Set(r, on) \/ Removing!Set(r, ended))
  <2>1. s4' \in Removing!Erasure /\ Removing!Once(s4'.deferred)
    BY <1>11 DEF Removing!Inv, Removing!TypeOK
  <2> QED
    BY <1>4, <1>7, <1>8, <1>9, <1>11, <2>1, RemoveSameErasure
<1>12. CASE /\ Removing!Set(r, on) /\ Removing!Fence(m)
            /\ s4' = IF m.unit[1] = "found" THEN [Removing!Goes(k) EXCEPT !.found = @ \ {k}] ELSE [Removing!Goes(k) EXCEPT !.at = m.observed]
  <2>1. k \notin s5 \ s7
    BY <1>1, <1>2, <1>12, RemoveKeyGone
  <2>2. ~s4.removed /\ s4.observed = m.observed /\ m.observed \in 0 .. SourceFinds
    BY <1>1, <1>12, RemoveFields DEF Removing!Fence
  <2>3. PICK w : w = Removing!Without(s4.deferred, k)
    OBVIOUS
  <2>4. w \in Seq(Removing!Keys) /\ Removing!Once(w)
    BY <2>3, RemoveWithoutKey, RemoveRow DEF Removing!Inv
  <2>5. s4' = IF m.unit[1] = "found" THEN [s4 EXCEPT !.deferred = w, !.found = s4.found \ {k}]
                                     ELSE [s4 EXCEPT !.deferred = w, !.at = s4.observed]
    BY <1>12, <2>2, <2>3 DEF Removing!Goes, Removing!Inv, Removing!TypeOK, Removing!Erasure
  <2>6. /\ s4' \in Removing!Erasure /\ Removing!Once(s4'.deferred) /\ ~s4'.removed
        /\ s4'.observed = s4.observed
        /\ s4'.found = IF m.unit[1] = "found" THEN s4.found \ {k} ELSE s4.found
        /\ s4'.at = IF m.unit[1] = "found" THEN s4.at ELSE s4.observed
    <3>1. CASE m.unit[1] = "found"
      BY <2>2, <2>4, <2>5, <3>1 DEF Removing!Inv, Removing!TypeOK, Removing!Erasure
    <3>2. CASE m.unit[1] # "found"
      BY <2>2, <2>4, <2>5, <3>2 DEF Removing!Inv, Removing!TypeOK, Removing!Erasure
    <3> QED
      BY <3>1, <3>2
  <2>7. Removing!TypeOK'
    BY <1>4, <1>7, <1>12, <2>6 DEF Removing!Inv, Removing!TypeOK, Removing!Set
  <2>8. RemoveBeside
    <3>1. ASSUME NEW j \in s5' \ s7'
          PROVE  j \in s5 \ s7 /\ (j \in s4.found => j \in s4'.found)
      BY <1>4, <2>1, <2>6, <3>1
    <3> QED
      BY <1>4, <2>6, <3>1, RemoveRow DEF RemoveBeside, Removing!Inv
  <2>9. Removing!ErasedMeansGone' /\ Removing!Listed' /\ Removing!Counted'
    BY <1>4, <2>6, RemoveRow DEF Removing!Inv, Removing!ErasedMeansGone, Removing!Listed,
      Removing!Counted
  <2>10. Removing!Started'
    BY <1>1, <1>4 DEF Removing!Started, Removing!RemovalOK
  <2>11. Removing!Recorded'
    <3>1. ASSUME NEW j \in s5 \ s7
          PROVE  IF j = Removing!Original THEN s4'.at # s4'.observed ELSE j[2] \in s3 => j \in s4'.found
      <4>1. j # k /\ (IF j = Removing!Original THEN s4.at # s4.observed ELSE j[2] \in s3 => j \in s4.found)
        BY <2>1, <3>1 DEF Removing!Inv, Removing!Recorded
      <4>2. CASE m.unit[1] = "found"
        BY <2>6, <4>1, <4>2
      <4>3. CASE m.unit[1] # "found"
        <5>1. k = Removing!Original
          BY <1>2, <1>3, <4>3 DEF Removing!UnitOK
        <5> QED
          BY <2>6, <4>1, <4>3, <5>1
      <4> QED
        BY <4>2, <4>3
    <3> QED
      BY <1>4, <3>1 DEF Removing!Recorded
  <2>12. Removing!RemovalOK(on)'
    <3>1. \A j \in on.done \intersect (s5' \ s7') : j \in s4'.found /\ on.observed < s4'.observed
      BY <1>4, <1>9, <1>7, <2>1, <2>6 DEF Removing!RemovalOK
    <3> QED
      BY <1>4, <1>7, <1>9, <2>6, <3>1 DEF Removing!RemovalOK
  <2> QED
    BY <1>7, <1>12, <2>7, <2>8, <2>9, <2>10, <2>11, <2>12, RemoveOneKeeps
<1> QED
  BY <1>10, <1>11, <1>12

(* Its record of an attempt: its staged copy is gone, and the promoted one is
   a found key. *)
LEMMA RemoveRecordAttemptStep ==
  ASSUME Removing!Inv, NEW r \in Removals, Removing!RecordAttempt(r)
  PROVE  Removing!Inv'
<1>0. PICK m : m = s8[r]
  OBVIOUS
<1>1. m \in Removing!Removal /\ Removing!RemovalOK(m) /\ m.pc = "record" /\ m.unit[1] = "staged"
  BY <1>0, RemoveRemovalTyped DEF Removing!RecordAttempt, Removing!Inv
<1>2. PICK k : k = m.unit[2]
  OBVIOUS
<1>3. m.unit \in Removing!Units /\ k = Removing!Staging(k[2]) /\ k \in m.done /\ k \in Removing!Keys
  BY <1>1, <1>2 DEF Removing!RemovalOK, Removing!UnitOK, Removing!Units
<1>4. PICK a : a = k[2]
  OBVIOUS
<1>5. a \in Attempts /\ k = Removing!Staging(a) /\ Removing!Copy(a) \subseteq Removing!Keys
  BY <1>3, <1>4 DEF Removing!Keys, Removing!Copy, Removing!Promoted
<1>6. PICK joined : joined = m.joined \union (({"found"} \X (Removing!Copy(a) \ m.missed)) \ m.todo)
  OBVIOUS
<1>7. joined \subseteq Removing!Units
  BY <1>1, <1>5, <1>6, RemoveFields DEF Removing!Units
<1>8. PICK new : new = [m EXCEPT !.pc = "try", !.unit = None, !.joined = joined]
  OBVIOUS
<1>9. /\ new \in Removing!Removal /\ new.pc = "try" /\ new.observed = m.observed /\ new.done = m.done
      /\ new.todo = m.todo /\ new.joined = joined
  <2>1. m \in Removing!Removal
    BY <1>1
  <2> QED
    BY <1>7, <1>8, <2>1 DEF Removing!Removal
<1>10. Removing!Set(r, new)
  BY <1>0, <1>2, <1>4, <1>6, <1>8 DEF Removing!RecordAttempt
<1>11. /\ s3' = s3 \union {a}
       /\ s4' = IF s4.removed THEN s4 ELSE [Removing!Goes(k) EXCEPT !.found = @ \union Removing!Copy(a)]
       /\ UNCHANGED <<s1, s2, s5, s6, s7, s9, s10>>
  BY <1>0, <1>2, <1>4 DEF Removing!RecordAttempt
<1>12. /\ s4' \in Removing!Erasure /\ Removing!Once(s4'.deferred) /\ s4'.removed = s4.removed
       /\ s4'.observed = s4.observed /\ s4'.at = s4.at
       /\ s4'.found = IF s4.removed THEN s4.found ELSE s4.found \union Removing!Copy(a)
  <2>1. CASE s4.removed
    BY <1>11, <2>1 DEF Removing!Inv, Removing!TypeOK
  <2>2. CASE ~s4.removed
    <3>1. PICK w : w = Removing!Without(s4.deferred, k)
      OBVIOUS
    <3>2. w \in Seq(Removing!Keys) /\ Removing!Once(w)
      BY <3>1, RemoveWithoutKey, RemoveRow DEF Removing!Inv
    <3>3. s4' = [s4 EXCEPT !.deferred = w, !.found = s4.found \union Removing!Copy(a)]
      BY <1>11, <2>2, <3>1 DEF Removing!Goes, Removing!Inv, Removing!TypeOK, Removing!Erasure
    <3>4. /\ s4'.found = s4.found \union Removing!Copy(a) /\ s4'.deferred = w /\ s4'.removed = s4.removed
          /\ s4'.observed = s4.observed /\ s4'.at = s4.at
      BY <3>3 DEF Removing!Inv, Removing!TypeOK, Removing!Erasure
    <3>5. s4.found \union Removing!Copy(a) \in SUBSET Removing!Keys
      BY <1>5, RemoveRow DEF Removing!Inv
    <3>6. s4' \in Removing!Erasure
      BY <3>2, <3>3, <3>5 DEF Removing!Inv, Removing!TypeOK, Removing!Erasure
    <3> QED
      BY <2>2, <3>2, <3>4, <3>6
  <2> QED
    BY <2>1, <2>2
<1>13. Removing!TypeOK'
  BY <1>5, <1>9, <1>10, <1>11, <1>12 DEF Removing!Inv, Removing!TypeOK, Removing!Set
<1>14. RemoveBeside
  BY <1>11, <1>12, RemoveRow DEF RemoveBeside, Removing!Inv
<1>15. Removing!ErasedMeansGone' /\ Removing!Listed' /\ Removing!Counted'
  BY <1>11, <1>12 DEF Removing!Inv, Removing!ErasedMeansGone, Removing!Listed, Removing!Counted
<1>16. Removing!Started'
  BY <1>1, <1>11 DEF Removing!Started, Removing!RemovalOK
<1>17. Removing!Recorded'
  <2>1. ASSUME NEW j \in s5 \ s7
        PROVE  IF j = Removing!Original THEN s4'.at # s4'.observed ELSE j[2] \in s3' => j \in s4'.found
    <3>1. IF j = Removing!Original THEN s4.at # s4.observed ELSE j[2] \in s3 => j \in s4.found
      BY <2>1 DEF Removing!Inv, Removing!Recorded
    <3>2. CASE j = Removing!Original
      BY <1>12, <3>1, <3>2
    <3>3. CASE j # Removing!Original /\ j[2] # a
      BY <1>11, <1>12, <3>1, <3>3
    <3>4. CASE j # Removing!Original /\ j[2] = a
      <4>1. j = Removing!Staging(a) \/ j = Removing!Promoted(a)
        <5>1. j \in Removing!Keys
          BY <2>1 DEF Removing!Inv, Removing!TypeOK
        <5> QED
          BY <3>4, <5>1 DEF Removing!Keys, Removing!Staging, Removing!Promoted
      <4>2. ~s4.removed
        BY <2>1 DEF Removing!Inv, Removing!ErasedMeansGone
      <4>3. CASE j = Removing!Staging(a)
        <5>1. j \in m.done \intersect (s5 \ s7)
          BY <1>3, <1>5, <2>1, <4>3
        <5>2. j \in s4.found
          BY <1>1, <5>1 DEF Removing!RemovalOK
        <5> QED
          BY <1>12, <3>4, <5>2
      <4>4. CASE j = Removing!Promoted(a)
        BY <1>12, <3>4, <4>2, <4>4 DEF Removing!Copy
      <4> QED
        BY <4>1, <4>3, <4>4
    <3> QED
      BY <3>2, <3>3, <3>4
  <2> QED
    BY <1>11, <2>1 DEF Removing!Recorded
<1>18. Removing!RemovalOK(new)'
  <2>1. Removing!RemovalOK(new)
    <3>1. \A u \in new.todo \union new.joined : u \in m.todo \union m.joined \/ u[1] = "found"
      BY <1>6, <1>9
    <3> QED
      BY <1>1, <1>9, <3>1, RemoveLessToDo
  <2> QED
    BY <1>11, <1>12, <2>1 DEF Removing!RemovalOK
<1> QED
  BY <1>9, <1>10, <1>13, <1>14, <1>15, <1>16, <1>17, <1>18, RemoveOneKeeps

(* The empty record. *)
LEMMA RemoveNothing == Removing!NoRemoval \in Removing!Removal /\ Removing!NoRemoval.pc = "idle" /\ Removing!RemovalOK(Removing!NoRemoval)
<1>1. 0 \in 0 .. SourceFinds
  BY RemoveConstants DEF Removing!ErasureAssumption
<1> QED
  BY <1>1 DEF Removing!NoRemoval, Removing!Removal, Removing!RemovalOK

(* It ends, and records the erasure when nothing is left at the count it read. *)
LEMMA RemoveFinishStep ==
  ASSUME Removing!Inv, NEW r \in Removals, Removing!Finish(r)
  PROVE  Removing!Inv'
<1>1. PICK new : new = Removing!NoRemoval
  OBVIOUS
<1>2. new \in Removing!Removal /\ Removing!RemovalOK(new) /\ new.pc = "idle"
  BY <1>1, RemoveNothing
<1>3. Removing!Set(r, new) /\ UNCHANGED <<s1, s2, s3, s5, s6, s7, s9, s10>>
  BY <1>1 DEF Removing!Finish
<1>4. PICK m : m = s8[r]
  OBVIOUS
<1>5. m \in Removing!Removal /\ Removing!RemovalOK(m) /\ m.pc = "try"
  BY <1>4, RemoveRemovalTyped DEF Removing!Finish, Removing!Inv
<1>6. CASE s4' = s4
  <2>1. s4' \in Removing!Erasure /\ Removing!Once(s4'.deferred) /\ s10' \in 0 .. SourceStops
    BY <1>3, <1>6 DEF Removing!Inv, Removing!TypeOK
  <2> QED
    BY <1>2, <1>3, <1>6, <2>1, RemoveSameErasure
<1>7. CASE /\ s4' = [s4 EXCEPT !.removed = TRUE, !.deferred = <<>>]
           /\ s4.at = s4.observed /\ s4.found = {} /\ s3 = Attempts
  <2>1. /\ s4'.removed = TRUE /\ s4'.deferred = <<>> /\ s4'.found = {}
        /\ s4'.observed = s4.observed /\ s4'.at = s4.at
    BY <1>7 DEF Removing!Inv, Removing!TypeOK, Removing!Erasure
  <2>2. s4' \in Removing!Erasure /\ Removing!Once(s4'.deferred)
    <3>1. <<>> \in Seq(Removing!Keys) /\ DOMAIN <<>> = {}
      OBVIOUS
    <3>2. Removing!Once(s4'.deferred)
      BY <2>1, <3>1 DEF Removing!Once
    <3>3. s4' \in Removing!Erasure
      BY <1>7, <3>1 DEF Removing!Inv, Removing!TypeOK, Removing!Erasure
    <3> QED
      BY <3>2, <3>3
  <2>3. s1 /\ s2
    BY <1>5 DEF Removing!RemovalOK
  <2>4. s5 \subseteq s7
    <3> SUFFICES ASSUME NEW k \in s5 \ s7 PROVE FALSE
      OBVIOUS
    <3>1. IF k = Removing!Original THEN s4.at # s4.observed ELSE k[2] \in s3 => k \in s4.found
      BY DEF Removing!Inv, Removing!Recorded
    <3>2. k[2] \in Attempts
      BY DEF Removing!Inv, Removing!TypeOK, Removing!Keys
    <3> QED
      BY <1>7, <3>1, <3>2
  <2>5. Removing!TypeOK'
    BY <1>2, <1>3, <1>7, <2>1, <2>2 DEF Removing!Inv, Removing!TypeOK, Removing!Set
  <2>6. RemoveBeside
    <3>1. s4.found = {}
      BY <1>7
    <3> QED
      BY <1>3, <2>1, <3>1, RemoveRow DEF RemoveBeside, Removing!Inv
  <2>7. Removing!ErasedMeansGone' /\ Removing!Listed' /\ Removing!Started' /\ Removing!Counted'
    BY <1>3, <2>1, <2>3, <2>4 DEF Removing!Inv, Removing!ErasedMeansGone, Removing!Listed,
      Removing!Started, Removing!Counted
  <2>8. Removing!Recorded'
    BY <1>3, <2>4 DEF Removing!Recorded
  <2>9. Removing!RemovalOK(new)'
    BY <1>2 DEF Removing!RemovalOK
  <2> QED
    BY <1>2, <1>3, <2>5, <2>6, <2>7, <2>8, <2>9, RemoveOneKeeps
<1> QED
  BY <1>6, <1>7 DEF Removing!Finish

(* It stops. *)
LEMMA RemoveStopStep ==
  ASSUME Removing!Inv, NEW r \in Removals, Removing!Stop(r)
  PROVE  Removing!Inv'
<1>1. PICK new : new = Removing!NoRemoval
  OBVIOUS
<1>2. new \in Removing!Removal /\ Removing!RemovalOK(new) /\ new.pc = "idle"
  BY <1>1, RemoveNothing
<1>3. /\ Removing!Set(r, new) /\ UNCHANGED <<s1, s2, s3, s4, s5, s6, s7, s9>>
      /\ s10' \in 0 .. SourceStops
  BY <1>1, RemoveConstants DEF Removing!Stop, Removing!Inv, Removing!TypeOK,
    Removing!ErasureAssumption
<1>4. s4' \in Removing!Erasure /\ Removing!Once(s4'.deferred)
  BY <1>3 DEF Removing!Inv, Removing!TypeOK
<1> QED
  BY <1>2, <1>3, <1>4, RemoveSameErasure

----------------------------------------------------------------------------
(* Every step keeps the invariant. *)
LEMMA RemoveNextInv ==
  ASSUME Removing!Inv, [Removing!Next]_(Removing!vars)
  PROVE  Removing!Inv'
<1>1. CASE UNCHANGED Removing!vars
  <2>1. Removing!TypeOK'
    BY <1>1 DEF Removing!vars, Removing!Inv, Removing!TypeOK
  <2>2. RemoveBeside
    BY <1>1, RemoveRow DEF Removing!vars, RemoveBeside, Removing!Inv
  <2>3. Removing!ErasedMeansGone' /\ Removing!Listed' /\ Removing!Started' /\ Removing!Counted' /\ Removing!Recorded'
    BY <1>1 DEF Removing!vars, Removing!Inv, Removing!ErasedMeansGone, Removing!Listed,
      Removing!Started, Removing!Counted, Removing!Recorded
  <2> QED
    BY <1>1, <2>1, <2>2, <2>3, RemoveWorldKeeps DEF Removing!vars
<1>2. ASSUME NEW k \in Removing!Keys, Removing!WriteLands(k) \/ Removing!RemoveEarly(k) \/ Removing!List(k)
      PROVE  Removing!Inv'
  BY <1>2, RemoveWriteLandsStep, RemoveRemoveEarlyStep, RemoveListStep
<1>3. ASSUME NEW r \in Removals, Removing!Proceed(r) \/ Removing!Stop(r)
      PROVE  Removing!Inv'
  BY <1>3, RemoveStartStep, RemoveRecordKeyStep, RemoveRecordAttemptStep, RemoveFinishStep,
    RemoveDeleteStep, RemoveDeleteFailsStep, RemoveStopStep DEF Removing!Proceed
<1> QED
  BY <1>1, <1>2, <1>3, RemoveDeleteSourceStep, RemoveWritersEndStep, RemoveFindStep,
    RemoveSweepDeleteStep DEF Removing!Next

(* What is counted and recorded only goes forward. *)
LEMMA RemoveForward ==
  ASSUME Removing!Inv, [Removing!Next]_(Removing!vars)
  PROVE  Removing!ProgressForward
<1>0. s4.observed \in Nat /\ (s4.at # None => s4.at \in Nat /\ s4.at <= s4.observed) /\ None \notin Nat
  BY RemoveRow DEF Removing!Inv, Removing!Counted
<1>1. ASSUME s4'.observed = s4.observed, s4'.at = s4.at, s4.removed => s4'.removed
      PROVE  Removing!ProgressForward
  BY <1>0, <1>1 DEF Removing!ProgressForward
<1>2. ASSUME s4' = s4
      PROVE  Removing!ProgressForward
  BY <1>1, <1>2
<1>3. ASSUME NEW r \in Removals, Removing!RecordKey(r)
      PROVE  Removing!ProgressForward
  <2>1. PICK m : m = s8[r]
    OBVIOUS
  <2>2. CASE s4' = s4
    BY <1>2, <2>2
  <2>3. CASE Removing!Fence(m) /\ \/ s4' = [Removing!Goes(m.unit[2]) EXCEPT !.found = @ \ {m.unit[2]}]
                                  \/ s4' = [Removing!Goes(m.unit[2]) EXCEPT !.at = m.observed]
    <3>1. ~s4.removed /\ s4.observed = m.observed
      BY <2>3 DEF Removing!Fence
    <3>2. s4'.observed = s4.observed /\ (s4'.at = s4.at \/ s4'.at = s4.observed)
      BY <2>3, <3>1 DEF Removing!Goes, Removing!Inv, Removing!TypeOK, Removing!Erasure
    <3> QED
      BY <1>0, <3>1, <3>2 DEF Removing!ProgressForward
  <2> QED
    BY <1>3, <2>1, <2>2, <2>3 DEF Removing!RecordKey
<1>4. ASSUME NEW r \in Removals, Removing!RecordAttempt(r)
      PROVE  Removing!ProgressForward
  <2>1. \E k, found : s4' = s4 \/ s4' = [Removing!Goes(k) EXCEPT !.found = found]
    BY <1>4 DEF Removing!RecordAttempt
  <2>2. PICK k, found : s4' = s4 \/ s4' = [Removing!Goes(k) EXCEPT !.found = found]
    BY <2>1
  <2> QED
    BY <1>1, <2>2 DEF Removing!Goes, Removing!Inv, Removing!TypeOK, Removing!Erasure
<1>5. ASSUME NEW r \in Removals, Removing!Finish(r)
      PROVE  Removing!ProgressForward
  <2>1. s4' = s4 \/ s4' = [s4 EXCEPT !.removed = TRUE, !.deferred = <<>>]
    BY <1>5 DEF Removing!Finish
  <2> QED
    BY <1>1, <2>1 DEF Removing!Inv, Removing!TypeOK, Removing!Erasure
<1>6. ASSUME NEW r \in Removals, NEW u \in Removing!Units, Removing!DeleteFails(r, u)
      PROVE  Removing!ProgressForward
  <2>1. PICK s : s4' = s4 \/ s4' = [s4 EXCEPT !.deferred = s]
    BY <1>6 DEF Removing!DeleteFails
  <2> QED
    BY <1>1, <2>1 DEF Removing!Inv, Removing!TypeOK, Removing!Erasure
<1>7. CASE Removing!Find
  <2>1. CASE s1
    <3>1. s4' = [s4 EXCEPT !.observed = s4.observed + 1, !.removed = FALSE, !.found = Removing!FoundWith(s9.key)]
      BY <1>7, <2>1 DEF Removing!Find
    <3>2. s4'.observed = s4.observed + 1 /\ s4'.at = s4.at
      BY <3>1 DEF Removing!Inv, Removing!TypeOK, Removing!Erasure
    <3> QED
      BY <1>0, <3>2 DEF Removing!ProgressForward
  <2>2. CASE ~s1
    BY <1>2, <1>7, <2>2 DEF Removing!Find
  <2> QED
    BY <2>1, <2>2
<1>8. CASE Removing!DeleteSource \/ Removing!WritersEnd \/ Removing!SweepDelete \/ UNCHANGED Removing!vars
  BY <1>2, <1>8 DEF Removing!DeleteSource, Removing!WritersEnd, Removing!SweepDelete, Removing!vars
<1>9. ASSUME NEW k \in Removing!Keys, Removing!WriteLands(k) \/ Removing!RemoveEarly(k) \/ Removing!List(k)
      PROVE  Removing!ProgressForward
  BY <1>2, <1>9 DEF Removing!WriteLands, Removing!RemoveEarly, Removing!List
<1>10. ASSUME NEW r \in Removals, Removing!Start(r) \/ Removing!Stop(r)
       PROVE  Removing!ProgressForward
  BY <1>2, <1>10 DEF Removing!Start, Removing!Stop
<1>11. ASSUME NEW r \in Removals, NEW u \in Removing!Units, Removing!Delete(r, u)
       PROVE  Removing!ProgressForward
  BY <1>2, <1>11 DEF Removing!Delete
<1> QED
  BY <1>3, <1>4, <1>5, <1>6, <1>7, <1>8, <1>9, <1>10, <1>11 DEF Removing!Next, Removing!Proceed

----------------------------------------------------------------------------
(* The erasure of a space: the part "space". *)

(* Cardinalities are what they are. *)
LEMMA PurgeCounts == \A S : Purging!Cardinality(S) = Cardinality(S) /\ (Purging!IsFiniteSet(S) <=> IsFiniteSet(S))
  BY DEF Purging!Cardinality, Cardinality, Purging!IsFiniteSet, IsFiniteSet

(* The constants are as SpaceErasure assumes. *)
LEMMA PurgeConstants == Purging!SpaceErasureAssumption
  BY SuiteAssumption


(* Before it is deleted, nothing is asked for. *)
LEMMA PurgeInitInv ==
  ASSUME Purging!Init
  PROVE  Purging!Inv
<1> USE PurgeConstants DEF Purging!SpaceErasureAssumption
<1>0. 0 \in 0 .. MaxAsked /\ 0 \in 0 .. SpaceFinds
  OBVIOUS
<1>1. Purging!TypeOK
  <2>1. Purging!NoRequest \in Purging!Request
    BY <1>0 DEF Purging!Request, Purging!NoRequest
  <2>2. Purging!NoTick \in Purging!Tick
    BY <2>1 DEF Purging!Tick, Purging!NoTick
  <2> QED
    BY <2>1, <2>2 DEF Purging!Init, Purging!TypeOK
<1>2. Purging!AskedFor /\ Purging!ReadsHold /\ Purging!ErasedMeansGone /\ Purging!OneDeletionAudit
  BY DEF Purging!Init, Purging!AskedFor, Purging!ReadsHold, Purging!ErasedMeansGone,
    Purging!OneDeletionAudit, Purging!NoRequest, Purging!NoTick
<1> QED
  BY <1>1, <1>2 DEF Purging!Inv

(* A listing with no key says that none is stored. *)
LEMMA PurgeEmptyPage ==
  ASSUME Purging!TypeOK, {} \in Purging!Pages
  PROVE  s6 = {}
<1>1. IsFiniteSet(s6)
  BY PurgeConstants, PurgeCounts, FS_Subset DEF Purging!SpaceErasureAssumption, Purging!TypeOK
<1>2. Cardinality(s6) \in Nat /\ Cardinality({}) = 0
  BY <1>1, FS_CardinalityType, FS_EmptySet
<1>3. Cardinality(s6) = 0
  BY <1>2, PurgeConstants, PurgeCounts DEF Purging!Pages, Purging!SpaceErasureAssumption
<1> QED
  BY <1>1, <1>3, FS_EmptySet

(* What a step of no tick may do: a purge asks anew, and a finding counts. *)
PurgeOlder ==
  /\ s10' = s10
  /\ s5.asked <= s5'.asked /\ s5.observed <= s5'.observed
  /\ s5'.asked = s5.asked /\ s5'.observed = s5.observed =>
      /\ s5.settled => s5'.settled
      /\ s5.settled /\ s6 \subseteq s8 => s6' \subseteq s8'

(* It leaves what the ticks read true. *)
LEMMA PurgeOlderReads ==
  ASSUME Purging!Inv, PurgeOlder, Purging!TypeOK'
  PROVE  Purging!ReadsHold'
<1> SUFFICES ASSUME NEW t \in Ticks, s10[t].pc # "idle"
             PROVE  LET read == s10[t].read
                    IN /\ read.asked <= s5'.asked /\ read.observed <= s5'.observed
                       /\ read.settled /\ s5'.asked = read.asked /\ s5'.observed = read.observed =>
                            /\ s5'.settled
                            /\ s10[t].pc = "delete" /\ ~s10[t].found => s6' \subseteq s8'
  BY DEF PurgeOlder, Purging!ReadsHold, Purging!SameRequest
<1> DEFINE read == s10[t].read
<1>1. /\ read.asked \in Nat /\ read.observed \in Nat
      /\ s5.asked \in Nat /\ s5.observed \in Nat
      /\ s5'.asked \in Nat /\ s5'.observed \in Nat
  BY DEF Purging!Inv, Purging!TypeOK, Purging!Tick, Purging!Request
<1>2. /\ read.asked <= s5.asked /\ read.observed <= s5.observed
      /\ read.settled /\ s5.asked = read.asked /\ s5.observed = read.observed =>
           /\ s5.settled
           /\ s10[t].pc = "delete" /\ ~s10[t].found => s6 \subseteq s8
  BY DEF Purging!Inv, Purging!ReadsHold, Purging!SameRequest
<1>3. read.asked <= s5'.asked /\ read.observed <= s5'.observed
  BY <1>1, <1>2 DEF PurgeOlder
<1>4. ASSUME read.settled, s5'.asked = read.asked, s5'.observed = read.observed
      PROVE  /\ s5'.settled
             /\ s10[t].pc = "delete" /\ ~s10[t].found => s6' \subseteq s8'
  <2>1. s5.asked = read.asked /\ s5.observed = read.observed
    BY <1>1, <1>2, <1>4 DEF PurgeOlder
  <2> QED
    BY <1>2, <1>4, <2>1 DEF PurgeOlder
<1> QED
  BY <1>3, <1>4

(* A step of an owner, a writer or the sweep that keeps to it keeps the
   invariant, if it keeps its table's rules. *)
LEMMA PurgeOlderKeeps ==
  ASSUME Purging!Inv, PurgeOlder, Purging!TypeOK', Purging!AskedFor', Purging!ErasedMeansGone', Purging!OneDeletionAudit'
  PROVE  Purging!Inv'
  BY PurgeOlderReads DEF Purging!Inv

(* A call that goes on alone. *)
LEMMA PurgeGone ==
  ASSUME Purging!Inv, NEW o \in Owners, NEW pc \in {"idle", "purge", "publish", "repair"}, Purging!Goto(o, pc)
  PROVE  s9' \in [Owners -> {"idle", "purge", "publish", "repair"}]
  BY DEF Purging!Goto, Purging!Inv, Purging!TypeOK

(* The deletion starts. *)
LEMMA PurgeBeginDeleteStep ==
  ASSUME Purging!Inv, NEW o \in Owners, Purging!BeginDelete(o)
  PROVE  Purging!Inv'
<1>1. s9' \in [Owners -> {"idle", "purge", "publish", "repair"}]
  BY PurgeGone DEF Purging!BeginDelete
<1>2. Purging!TypeOK'
  BY <1>1 DEF Purging!BeginDelete, Purging!Inv, Purging!TypeOK, Purging!bytes
<1>3. PurgeOlder /\ Purging!AskedFor' /\ Purging!ErasedMeansGone' /\ Purging!OneDeletionAudit'
  BY DEF Purging!BeginDelete, Purging!Inv, Purging!TypeOK, PurgeOlder, Purging!AskedFor,
    Purging!ErasedMeansGone, Purging!OneDeletionAudit, Purging!bytes, Purging!Request
<1> QED
  BY <1>2, <1>3, PurgeOlderKeeps

(* A purge asks again. *)
LEMMA PurgeAsks ==
  ASSUME Purging!TypeOK, s5.asked < MaxAsked, s5' = Purging!AskAgain
  PROVE  /\ s5' \in Purging!Request /\ s5'.asked = s5.asked + 1
         /\ s5'.observed = s5.observed /\ ~s5'.removed
         /\ s5'.asked > 0 /\ s5.asked < s5'.asked /\ ~s5'.settled
<1>1. /\ s5.asked \in 0 .. MaxAsked /\ s5.observed \in 0 .. SpaceFinds
      /\ MaxAsked \in Nat
  BY PurgeConstants DEF Purging!TypeOK, Purging!Request, Purging!SpaceErasureAssumption
<1>2. s5.asked + 1 \in 0 .. MaxAsked /\ s5.asked < s5.asked + 1 /\ s5.asked + 1 > 0
  BY <1>1
<1>3. s5' = [s5 EXCEPT !.asked = s5.asked + 1, !.settled = FALSE, !.removed = FALSE]
  BY DEF Purging!AskAgain
<1>4. /\ s5'.asked = s5.asked + 1 /\ s5'.settled = FALSE /\ s5'.removed = FALSE
      /\ s5'.observed = s5.observed
  BY <1>3 DEF Purging!TypeOK, Purging!Request
<1>5. s5' \in Purging!Request
  BY <1>2, <1>3 DEF Purging!TypeOK, Purging!Request
<1> QED
  BY <1>2, <1>4, <1>5

(* The purge, or a call that finds it done. *)
LEMMA PurgePurgeStep ==
  ASSUME Purging!Inv, NEW o \in Owners, Purging!Purge(o)
  PROVE  Purging!Inv'
<1>1. s9' \in [Owners -> {"idle", "purge", "publish", "repair"}]
  BY PurgeGone DEF Purging!Purge
<1>2. CASE Purging!Purges
  <2>1. /\ s5.asked < MaxAsked /\ s1' = "deleted" /\ s2' = FALSE /\ s5' = Purging!AskAgain
        /\ s3' = s3 + 1 /\ UNCHANGED <<s4, Purging!bytes, s10, s11>> /\ s1 = "deleting"
    BY <1>2 DEF Purging!Purge, Purging!Purges
  <2>2. s3' = 1
    BY <2>1 DEF Purging!Inv, Purging!OneDeletionAudit
  <2>3. /\ s5' \in Purging!Request /\ s5'.asked = s5.asked + 1
        /\ s5'.observed = s5.observed /\ ~s5'.removed
        /\ s5'.asked > 0 /\ s5.asked < s5'.asked /\ ~s5'.settled
    BY <2>1, PurgeAsks DEF Purging!Inv
  <2>4. Purging!TypeOK'
    BY <1>1, <2>1, <2>2, <2>3 DEF Purging!Inv, Purging!TypeOK, Purging!bytes
  <2>5. PurgeOlder /\ Purging!AskedFor' /\ Purging!ErasedMeansGone' /\ Purging!OneDeletionAudit'
    BY <2>1, <2>2, <2>3 DEF Purging!Inv, Purging!TypeOK, PurgeOlder, Purging!AskedFor,
      Purging!ErasedMeansGone, Purging!OneDeletionAudit, Purging!bytes, Purging!Request
  <2> QED
    BY <2>4, <2>5, PurgeOlderKeeps
<1>3. CASE ~Purging!Purges
  <2>1. UNCHANGED <<s1, s2, s3, s5, s4, Purging!bytes, s10, s11>>
    BY <1>3 DEF Purging!Purge
  <2>2. Purging!TypeOK'
    BY <1>1, <2>1 DEF Purging!Inv, Purging!TypeOK, Purging!bytes
  <2>3. PurgeOlder /\ Purging!AskedFor' /\ Purging!ErasedMeansGone' /\ Purging!OneDeletionAudit'
    BY <2>1 DEF Purging!Inv, Purging!TypeOK, PurgeOlder, Purging!AskedFor, Purging!ErasedMeansGone,
      Purging!OneDeletionAudit, Purging!bytes, Purging!Request
  <2> QED
    BY <2>2, <2>3, PurgeOlderKeeps
<1> QED
  BY <1>2, <1>3

(* Its publication. *)
LEMMA PurgePublishStep ==
  ASSUME Purging!Inv, NEW o \in Owners, Purging!Publish(o)
  PROVE  Purging!Inv'
<1>1. s9' \in [Owners -> {"idle", "purge", "publish", "repair"}]
  BY PurgeGone DEF Purging!Publish
<1>2. Purging!TypeOK'
  BY <1>1 DEF Purging!Publish, Purging!Inv, Purging!TypeOK, Purging!bytes, Purging!Erased
<1>3. PurgeOlder /\ Purging!AskedFor' /\ Purging!ErasedMeansGone' /\ Purging!OneDeletionAudit'
  BY DEF Purging!Publish, Purging!Inv, Purging!TypeOK, PurgeOlder, Purging!AskedFor,
    Purging!ErasedMeansGone, Purging!OneDeletionAudit, Purging!bytes, Purging!Request
<1> QED
  BY <1>2, <1>3, PurgeOlderKeeps

(* Rows that come back. *)
LEMMA PurgeLeftoverStep ==
  ASSUME Purging!Inv, Purging!Leftover
  PROVE  Purging!Inv'
<1>1. Purging!TypeOK'
  BY DEF Purging!Leftover, Purging!Inv, Purging!TypeOK, Purging!bytes
<1>2. PurgeOlder /\ Purging!AskedFor' /\ Purging!ErasedMeansGone' /\ Purging!OneDeletionAudit'
  BY DEF Purging!Leftover, Purging!Inv, Purging!TypeOK, PurgeOlder, Purging!AskedFor,
    Purging!ErasedMeansGone, Purging!OneDeletionAudit, Purging!bytes, Purging!Request
<1> QED
  BY <1>1, <1>2, PurgeOlderKeeps

(* A repair reads them. *)
LEMMA PurgeBeginRepairStep ==
  ASSUME Purging!Inv, NEW o \in Owners, Purging!BeginRepair(o)
  PROVE  Purging!Inv'
<1>1. s9' \in [Owners -> {"idle", "purge", "publish", "repair"}]
  BY PurgeGone DEF Purging!BeginRepair
<1>2. Purging!TypeOK'
  BY <1>1 DEF Purging!BeginRepair, Purging!Inv, Purging!TypeOK, Purging!bytes
<1>3. PurgeOlder /\ Purging!AskedFor' /\ Purging!ErasedMeansGone' /\ Purging!OneDeletionAudit'
  BY DEF Purging!BeginRepair, Purging!Inv, Purging!TypeOK, PurgeOlder, Purging!AskedFor,
    Purging!ErasedMeansGone, Purging!OneDeletionAudit, Purging!bytes, Purging!Request
<1> QED
  BY <1>2, <1>3, PurgeOlderKeeps

(* The repair purges them. *)
LEMMA PurgeRepairStep ==
  ASSUME Purging!Inv, NEW o \in Owners, Purging!Repair(o)
  PROVE  Purging!Inv'
<1>1. s9' \in [Owners -> {"idle", "purge", "publish", "repair"}] /\ UNCHANGED <<s1, s4, Purging!bytes, s10, s11>>
  BY PurgeGone DEF Purging!Repair
<1>2. CASE Purging!Repairs /\ s5.asked < MaxAsked
  <2>1. s2' = FALSE /\ s5' = Purging!AskAgain /\ s3' = (IF s3 = 0 THEN 1 ELSE s3) /\ s1 = "deleted"
    BY <1>2 DEF Purging!Repair, Purging!Repairs
  <2>2. s3' = 1
    BY <2>1 DEF Purging!Inv, Purging!OneDeletionAudit
  <2>3. /\ s5' \in Purging!Request /\ s5'.asked = s5.asked + 1
        /\ s5'.observed = s5.observed /\ ~s5'.removed
        /\ s5'.asked > 0 /\ s5.asked < s5'.asked /\ ~s5'.settled
    BY <1>2, <2>1, PurgeAsks DEF Purging!Inv
  <2>4. Purging!TypeOK'
    BY <1>1, <2>1, <2>2, <2>3 DEF Purging!Inv, Purging!TypeOK, Purging!bytes
  <2>5. PurgeOlder /\ Purging!AskedFor' /\ Purging!ErasedMeansGone' /\ Purging!OneDeletionAudit'
    BY <1>1, <2>1, <2>2, <2>3 DEF Purging!Inv, Purging!TypeOK, PurgeOlder, Purging!AskedFor,
      Purging!ErasedMeansGone, Purging!OneDeletionAudit, Purging!bytes, Purging!Request
  <2> QED
    BY <2>4, <2>5, PurgeOlderKeeps
<1>3. CASE ~(Purging!Repairs /\ s5.asked < MaxAsked)
  <2>1. UNCHANGED <<s2, s3, s5>>
    BY <1>3 DEF Purging!Repair
  <2>2. Purging!TypeOK'
    BY <1>1, <2>1 DEF Purging!Inv, Purging!TypeOK, Purging!bytes
  <2>3. PurgeOlder /\ Purging!AskedFor' /\ Purging!ErasedMeansGone' /\ Purging!OneDeletionAudit'
    BY <1>1, <2>1 DEF Purging!Inv, Purging!TypeOK, PurgeOlder, Purging!AskedFor,
      Purging!ErasedMeansGone, Purging!OneDeletionAudit, Purging!bytes, Purging!Request
  <2> QED
    BY <2>2, <2>3, PurgeOlderKeeps
<1> QED
  BY <1>2, <1>3

(* A call that stops. *)
LEMMA PurgeOwnerStopsStep ==
  ASSUME Purging!Inv, NEW o \in Owners, Purging!OwnerStops(o)
  PROVE  Purging!Inv'
<1>1. s9' \in [Owners -> {"idle", "purge", "publish", "repair"}]
  BY PurgeGone DEF Purging!OwnerStops
<1>2. Purging!TypeOK'
  BY <1>1 DEF Purging!OwnerStops, Purging!Inv, Purging!TypeOK, Purging!bytes
<1>3. PurgeOlder /\ Purging!AskedFor' /\ Purging!ErasedMeansGone' /\ Purging!OneDeletionAudit'
  BY DEF Purging!OwnerStops, Purging!Inv, Purging!TypeOK, PurgeOlder, Purging!AskedFor,
    Purging!ErasedMeansGone, Purging!OneDeletionAudit, Purging!bytes, Purging!Request
<1> QED
  BY <1>2, <1>3, PurgeOlderKeeps

(* A write that lands after its writers' end is unseen. *)
LEMMA PurgeWriteLandsStep ==
  ASSUME Purging!Inv, NEW k \in SpaceKeys, Purging!WriteLands(k)
  PROVE  Purging!Inv'
<1>1. Purging!TypeOK'
  BY DEF Purging!WriteLands, Purging!Inv, Purging!TypeOK
<1>2. PurgeOlder /\ Purging!AskedFor' /\ Purging!ErasedMeansGone' /\ Purging!OneDeletionAudit'
  BY DEF Purging!WriteLands, Purging!Inv, Purging!TypeOK, PurgeOlder, Purging!AskedFor,
    Purging!ErasedMeansGone, Purging!OneDeletionAudit, Purging!Request
<1> QED
  BY <1>1, <1>2, PurgeOlderKeeps

(* The writers' end. *)
LEMMA PurgeWritersEndStep ==
  ASSUME Purging!Inv, Purging!WritersEnd
  PROVE  Purging!Inv'
<1>1. /\ s5' \in Purging!Request /\ s5'.asked = s5.asked
      /\ s5'.observed = s5.observed /\ s5'.removed = s5.removed /\ s5'.settled
  BY DEF Purging!WritersEnd, Purging!Inv, Purging!TypeOK, Purging!Request
<1>2. Purging!TypeOK'
  BY <1>1 DEF Purging!WritersEnd, Purging!Inv, Purging!TypeOK, Purging!bytes
<1>3. PurgeOlder /\ Purging!AskedFor' /\ Purging!ErasedMeansGone' /\ Purging!OneDeletionAudit'
  BY <1>1 DEF Purging!WritersEnd, Purging!Inv, Purging!TypeOK, PurgeOlder, Purging!AskedFor,
    Purging!ErasedMeansGone, Purging!OneDeletionAudit, Purging!bytes, Purging!Request
<1> QED
  BY <1>2, <1>3, PurgeOlderKeeps

(* The sweep lists a key, *)
LEMMA PurgeSweepListsStep ==
  ASSUME Purging!Inv, NEW k \in SpaceKeys, Purging!SweepLists(k)
  PROVE  Purging!Inv'
<1>1. Purging!TypeOK'
  BY DEF Purging!SweepLists, Purging!Inv, Purging!TypeOK, Purging!bytes
<1>2. PurgeOlder /\ Purging!AskedFor' /\ Purging!ErasedMeansGone' /\ Purging!OneDeletionAudit'
  BY DEF Purging!SweepLists, Purging!Inv, Purging!TypeOK, PurgeOlder, Purging!AskedFor,
    Purging!ErasedMeansGone, Purging!OneDeletionAudit, Purging!bytes, Purging!Request
<1> QED
  BY <1>1, <1>2, PurgeOlderKeeps

(* counts what it finds, *)
LEMMA PurgeSweepFindsStep ==
  ASSUME Purging!Inv, Purging!SweepFinds
  PROVE  Purging!Inv'
<1>1. CASE s1 = "deleted"
  <2>1. /\ s5.observed < SpaceFinds /\ s5' = Purging!Reopened /\ s8' = s8 \ {s11.key}
        /\ s11' = [s11 EXCEPT !.pc = "found"]
        /\ UNCHANGED <<s1, s2, s3, s4, s6, s7, s9, s10>>
    BY <1>1 DEF Purging!SweepFinds
  <2>2. /\ s5' \in Purging!Request /\ s5'.asked = s5.asked
        /\ s5'.observed = s5.observed + 1 /\ ~s5'.removed
        /\ s5.observed < s5'.observed /\ s5'.observed # s5.observed
        /\ s5'.settled = s5.settled
    <3>1. s5.observed \in 0 .. SpaceFinds /\ SpaceFinds \in Nat
      BY PurgeConstants DEF Purging!Inv, Purging!TypeOK, Purging!Request,
        Purging!SpaceErasureAssumption
    <3>2. s5.observed + 1 \in 0 .. SpaceFinds /\ s5.observed < s5.observed + 1
      BY <2>1, <3>1
    <3>3. s5' = [s5 EXCEPT !.observed = s5.observed + 1, !.removed = FALSE]
      BY <2>1 DEF Purging!Reopened
    <3>4. /\ s5'.asked = s5.asked /\ s5'.observed = s5.observed + 1 /\ s5'.removed = FALSE
          /\ s5'.settled = s5.settled
      BY <3>3 DEF Purging!Inv, Purging!TypeOK, Purging!Request
    <3>5. s5' \in Purging!Request
      BY <3>2, <3>3 DEF Purging!Inv, Purging!TypeOK, Purging!Request
    <3> QED
      BY <3>1, <3>2, <3>4, <3>5
  <2>3. Purging!TypeOK'
    BY <2>1, <2>2 DEF Purging!Inv, Purging!TypeOK
  <2>4. PurgeOlder /\ Purging!AskedFor' /\ Purging!ErasedMeansGone' /\ Purging!OneDeletionAudit'
    BY <2>1, <2>2 DEF Purging!Inv, Purging!TypeOK, PurgeOlder, Purging!AskedFor,
      Purging!ErasedMeansGone, Purging!OneDeletionAudit, Purging!Request
  <2> QED
    BY <2>3, <2>4, PurgeOlderKeeps
<1>2. CASE s1 # "deleted"
  <2>1. /\ s11' = [pc |-> "idle", key |-> None]
        /\ UNCHANGED <<s1, s2, s3, s4, s5, s8, s6, s7, s9, s10>>
    BY <1>2 DEF Purging!SweepFinds
  <2>2. Purging!TypeOK'
    BY <2>1 DEF Purging!Inv, Purging!TypeOK
  <2>3. PurgeOlder /\ Purging!AskedFor' /\ Purging!ErasedMeansGone' /\ Purging!OneDeletionAudit'
    BY <2>1 DEF Purging!Inv, Purging!TypeOK, PurgeOlder, Purging!AskedFor, Purging!ErasedMeansGone,
      Purging!OneDeletionAudit, Purging!Request
  <2> QED
    BY <2>2, <2>3, PurgeOlderKeeps
<1> QED
  BY <1>1, <1>2

(* and deletes it, or fails to. *)
LEMMA PurgeSweepDeletesStep ==
  ASSUME Purging!Inv, Purging!SweepDeletes
  PROVE  Purging!Inv'
<1>0. /\ s6' \subseteq s6 /\ s11' = [pc |-> "idle", key |-> None]
      /\ UNCHANGED <<s1, s2, s3, s4, s5, s7, s8, s9, s10>>
  BY DEF Purging!SweepDeletes
<1>1. Purging!TypeOK'
  BY <1>0 DEF Purging!Inv, Purging!TypeOK
<1>2. PurgeOlder /\ Purging!AskedFor' /\ Purging!ErasedMeansGone' /\ Purging!OneDeletionAudit'
  BY <1>0 DEF Purging!Inv, Purging!TypeOK, PurgeOlder, Purging!AskedFor, Purging!ErasedMeansGone,
    Purging!OneDeletionAudit, Purging!Request
<1> QED
  BY <1>1, <1>2, PurgeOlderKeeps

----------------------------------------------------------------------------
(* What a tick holds about the request it read. *)
PurgeReadHolds(t) ==
  s10[t].pc # "idle" =>
    /\ s10[t].read.asked <= s5.asked /\ s10[t].read.observed <= s5.observed
    /\ s10[t].read.settled /\ Purging!SameRequest(s10[t].read) =>
         /\ s5.settled
         /\ s10[t].pc = "delete" /\ ~s10[t].found => s6 \subseteq s8

(* The reads hold, tick by tick. *)
LEMMA PurgeReadsAre == Purging!ReadsHold <=> \A t \in Ticks : PurgeReadHolds(t)
  BY DEF Purging!ReadsHold, PurgeReadHolds

(* A step of a tick changes no other, asks and counts nothing, and lets keys go. *)
LEMMA PurgeTickKeeps ==
  ASSUME Purging!Inv, NEW t \in Ticks, NEW new, new \in Purging!Tick, Purging!SetTick(t, new), PurgeReadHolds(t)',
         s5' \in Purging!Request, s5'.asked = s5.asked, s5'.observed = s5.observed,
         s5'.settled = s5.settled,
         s5'.removed => s5.settled /\ s6' \subseteq s8' /\ s1 = "deleted",
         s6' \subseteq s6,
         UNCHANGED <<s1, s2, s3, s4, s7, s8, s9, s11>>
  PROVE  Purging!Inv'
<1>1. Purging!TypeOK'
  BY DEF Purging!Inv, Purging!TypeOK, Purging!SetTick
<1>2. ASSUME NEW u \in Ticks, u # t
      PROVE  PurgeReadHolds(u)'
  <2>1. PurgeReadHolds(u) /\ s10'[u] = s10[u]
    BY <1>2, PurgeReadsAre DEF Purging!Inv, Purging!TypeOK, Purging!SetTick
  <2> QED
    BY <2>1 DEF PurgeReadHolds, Purging!SameRequest
<1>3. Purging!ReadsHold'
  BY <1>2 DEF Purging!ReadsHold, PurgeReadHolds
<1>4. Purging!AskedFor' /\ Purging!ErasedMeansGone' /\ Purging!OneDeletionAudit'
  BY DEF Purging!Inv, Purging!AskedFor, Purging!ErasedMeansGone, Purging!OneDeletionAudit
<1> QED
  BY <1>1, <1>3, <1>4 DEF Purging!Inv

(* It reads the request, *)
LEMMA PurgeReadPageStep ==
  ASSUME Purging!Inv, NEW t \in Ticks, Purging!ReadPage(t)
  PROVE  Purging!Inv'
<1> DEFINE new == [Purging!NoTick EXCEPT !.pc = "list", !.read = s5]
<1>1. /\ new \in Purging!Tick /\ new.pc = "list" /\ new.read = s5
      /\ Purging!SetTick(t, new) /\ UNCHANGED <<s1, s2, s3, s4, s5, Purging!bytes, s9, s11>>
  BY DEF Purging!ReadPage, Purging!Inv, Purging!TypeOK, Purging!Tick, Purging!NoTick,
    Purging!Request, Purging!NoRequest
<1> HIDE DEF new
<1>2. s10'[t] = new
  BY <1>1 DEF Purging!SetTick, Purging!Inv, Purging!TypeOK
<1>3. PurgeReadHolds(t)'
  BY <1>1, <1>2 DEF PurgeReadHolds, Purging!Inv, Purging!TypeOK, Purging!Request
<1> QED
  BY <1>1, <1>3, PurgeTickKeeps DEF Purging!bytes, Purging!Inv, Purging!TypeOK, Purging!AskedFor,
    Purging!ErasedMeansGone

(* lists a page of the keys, *)
LEMMA PurgeListKeysStep ==
  ASSUME Purging!Inv, NEW t \in Ticks, Purging!ListKeys(t)
  PROVE  Purging!Inv'
<1>0. PICK page \in Purging!Pages : Purging!SetTick(t, [s10[t] EXCEPT !.pc = "delete", !.todo = page, !.found = page # {}])
  BY DEF Purging!ListKeys
<1> DEFINE new == [s10[t] EXCEPT !.pc = "delete", !.todo = page, !.found = page # {}]
<1>1. s10[t] \in Purging!Tick /\ page \subseteq SpaceKeys
  BY DEF Purging!Inv, Purging!TypeOK, Purging!Pages
<1>2. new \in Purging!Tick /\ new.pc = "delete" /\ new.read = s10[t].read /\ (new.found <=> page # {})
  BY <1>1 DEF Purging!Tick
<1>3. Purging!SetTick(t, new) /\ UNCHANGED <<s1, s2, s3, s4, s5, Purging!bytes, s9, s11>> /\ s10[t].pc = "list"
  BY <1>0 DEF Purging!ListKeys
<1> HIDE DEF new
<1>4. s10'[t] = new
  BY <1>3 DEF Purging!SetTick, Purging!Inv, Purging!TypeOK
<1>5. PurgeReadHolds(t) /\ (page = {} => s6 = {})
  BY PurgeEmptyPage, PurgeReadsAre DEF Purging!Inv
<1>6. PurgeReadHolds(t)'
  BY <1>2, <1>3, <1>4, <1>5 DEF PurgeReadHolds, Purging!SameRequest, Purging!bytes
<1> QED
  BY <1>2, <1>3, <1>6, PurgeTickKeeps DEF Purging!bytes, Purging!Inv, Purging!TypeOK,
    Purging!AskedFor, Purging!ErasedMeansGone

(* deletes one, *)
LEMMA PurgeDeleteKeyStep ==
  ASSUME Purging!Inv, NEW t \in Ticks, NEW k \in SpaceKeys, Purging!DeleteKey(t, k)
  PROVE  Purging!Inv'
<1> DEFINE new == [s10[t] EXCEPT !.todo = @ \ {k}]
<1>1. s10[t] \in Purging!Tick
  BY DEF Purging!Inv, Purging!TypeOK
<1>2. new \in Purging!Tick /\ new.pc = s10[t].pc /\ new.read = s10[t].read /\ new.found = s10[t].found
  BY <1>1 DEF Purging!Tick
<1>3. /\ Purging!SetTick(t, new) /\ s6' \subseteq s6
      /\ UNCHANGED <<s1, s2, s3, s4, s5, s7, s8, s9, s11>>
  BY DEF Purging!DeleteKey
<1> HIDE DEF new
<1>4. s10'[t] = new
  BY <1>3 DEF Purging!SetTick, Purging!Inv, Purging!TypeOK
<1>5. PurgeReadHolds(t)
  BY PurgeReadsAre DEF Purging!Inv
<1>6. PurgeReadHolds(t)'
  BY <1>2, <1>3, <1>4, <1>5 DEF PurgeReadHolds, Purging!SameRequest
<1> QED
  BY <1>2, <1>3, <1>6, PurgeTickKeeps DEF Purging!Inv, Purging!TypeOK, Purging!AskedFor,
    Purging!ErasedMeansGone

(* may stop, *)
LEMMA PurgeTickStopsStep ==
  ASSUME Purging!Inv, NEW t \in Ticks, Purging!TickStops(t)
  PROVE  Purging!Inv'
<1>1. Purging!NoTick \in Purging!Tick /\ Purging!NoTick.pc = "idle"
  BY PurgeConstants DEF Purging!NoTick, Purging!Tick, Purging!NoRequest, Purging!Request,
    Purging!SpaceErasureAssumption
<1>2. s10'[t] = Purging!NoTick
  BY DEF Purging!TickStops, Purging!SetTick, Purging!Inv, Purging!TypeOK
<1>3. PurgeReadHolds(t)'
  BY <1>1, <1>2 DEF PurgeReadHolds
<1> QED
  BY <1>1, <1>3, PurgeTickKeeps DEF Purging!TickStops, Purging!bytes, Purging!Inv, Purging!TypeOK,
    Purging!AskedFor, Purging!ErasedMeansGone

(* and ends, recording what an empty listing tells of the request it read. *)
LEMMA PurgeEndTickStep ==
  ASSUME Purging!Inv, NEW t \in Ticks, Purging!EndTick(t)
  PROVE  Purging!Inv'
<1>1. Purging!NoTick \in Purging!Tick /\ Purging!NoTick.pc = "idle"
  BY PurgeConstants DEF Purging!NoTick, Purging!Tick, Purging!NoRequest, Purging!Request,
    Purging!SpaceErasureAssumption
<1>2. s10'[t] = Purging!NoTick /\ PurgeReadHolds(t) /\ s10[t].pc = "delete"
  BY PurgeReadsAre DEF Purging!EndTick, Purging!SetTick, Purging!Inv, Purging!TypeOK
<1>3. PurgeReadHolds(t)'
  BY <1>1, <1>2 DEF PurgeReadHolds
<1>4. /\ Purging!SetTick(t, Purging!NoTick)
      /\ UNCHANGED <<s1, s2, s3, s4, Purging!bytes, s9, s11>>
  BY DEF Purging!EndTick
<1>5. CASE ~s10[t].found /\ s10[t].read.settled /\ Purging!SameRequest(s10[t].read)
  <2>1. s5' = [s5 EXCEPT !.removed = TRUE]
    BY <1>5 DEF Purging!EndTick
  <2>2. /\ s5' \in Purging!Request /\ s5'.asked = s5.asked /\ s5'.observed = s5.observed
        /\ s5'.settled = s5.settled
    BY <2>1 DEF Purging!Inv, Purging!TypeOK, Purging!Request
  <2>3. s5.settled /\ s6 \subseteq s8
    BY <1>2, <1>5 DEF PurgeReadHolds
  <2>4. s1 = "deleted"
    BY <2>3 DEF Purging!Inv, Purging!AskedFor
  <2> QED
    BY <1>1, <1>3, <1>4, <2>2, <2>3, <2>4, PurgeTickKeeps DEF Purging!bytes, Purging!Inv,
      Purging!AskedFor
<1>6. CASE ~(~s10[t].found /\ s10[t].read.settled /\ Purging!SameRequest(s10[t].read))
  <2>1. s5' = s5
    BY <1>6 DEF Purging!EndTick
  <2> QED
    BY <1>1, <1>3, <1>4, <2>1, PurgeTickKeeps DEF Purging!bytes, Purging!Inv, Purging!TypeOK,
      Purging!AskedFor, Purging!ErasedMeansGone
<1> QED
  BY <1>5, <1>6

----------------------------------------------------------------------------
(* Every step keeps it. *)
LEMMA PurgeNextInv ==
  ASSUME Purging!Inv, [Purging!Next]_(Purging!vars)
  PROVE  Purging!Inv'
<1>1. CASE UNCHANGED Purging!vars
  BY <1>1 DEF Purging!vars, Purging!Inv, Purging!TypeOK, Purging!AskedFor, Purging!ReadsHold,
    Purging!ErasedMeansGone, Purging!OneDeletionAudit, Purging!SameRequest
<1>2. ASSUME NEW o \in Owners,
             Purging!BeginDelete(o) \/ Purging!Purge(o) \/ Purging!Publish(o) \/ Purging!BeginRepair(o) \/ Purging!Repair(o) \/ Purging!OwnerStops(o)
      PROVE  Purging!Inv'
  BY <1>2, PurgeBeginDeleteStep, PurgePurgeStep, PurgePublishStep, PurgeBeginRepairStep,
    PurgeRepairStep, PurgeOwnerStopsStep
<1>3. ASSUME NEW k \in SpaceKeys, Purging!WriteLands(k) \/ Purging!SweepLists(k)
      PROVE  Purging!Inv'
  BY <1>3, PurgeWriteLandsStep, PurgeSweepListsStep
<1>4. ASSUME NEW t \in Ticks, Purging!TickRuns(t) \/ Purging!TickStops(t)
      PROVE  Purging!Inv'
  BY <1>4, PurgeReadPageStep, PurgeListKeysStep, PurgeEndTickStep, PurgeDeleteKeyStep,
    PurgeTickStopsStep DEF Purging!TickRuns
<1> QED
  BY <1>1, <1>2, <1>3, <1>4, PurgeLeftoverStep, PurgeWritersEndStep, PurgeSweepFindsStep,
    PurgeSweepDeletesStep DEF Purging!Next

(* A deletion stays, a purge asks anew, and what is counted only grows. *)
LEMMA PurgeStays ==
  ASSUME Purging!Inv, [Purging!Next]_(Purging!vars)
  PROVE  Purging!DeletedStays
<1> USE DEF Purging!DeletedStays
<1>1. s5.asked \in Nat /\ s5.observed \in Nat
  BY DEF Purging!Inv, Purging!TypeOK, Purging!Request
<1>2. ASSUME UNCHANGED <<s1, s2, s5>>
      PROVE  Purging!DeletedStays
  BY <1>1, <1>2
<1>3. CASE UNCHANGED Purging!vars
  BY <1>2, <1>3 DEF Purging!vars
<1>4. ASSUME s5' = Purging!AskAgain, s5.asked < MaxAsked, s1' = s1 \/ s1' = "deleted"
      PROVE  Purging!DeletedStays
  BY <1>1, <1>4, PurgeAsks DEF Purging!Inv
<1>5. ASSUME NEW o \in Owners, Purging!BeginDelete(o) \/ Purging!Publish(o) \/ Purging!BeginRepair(o) \/ Purging!OwnerStops(o)
      PROVE  Purging!DeletedStays
  BY <1>1, <1>5 DEF Purging!BeginDelete, Purging!Publish, Purging!BeginRepair, Purging!OwnerStops
<1>6. ASSUME NEW o \in Owners, Purging!Purge(o)
      PROVE  Purging!DeletedStays
  BY <1>2, <1>4, <1>6 DEF Purging!Purge
<1>7. ASSUME NEW o \in Owners, Purging!Repair(o)
      PROVE  Purging!DeletedStays
  BY <1>2, <1>4, <1>7 DEF Purging!Repair
<1>8. ASSUME UNCHANGED <<s1, s2>>, s5'.asked = s5.asked,
             s5'.observed = s5.observed \/ s5'.observed = s5.observed + 1
      PROVE  Purging!DeletedStays
  BY <1>1, <1>8
<1>9. CASE Purging!WritersEnd
  BY <1>8, <1>9 DEF Purging!WritersEnd, Purging!Inv, Purging!TypeOK, Purging!Request
<1>10. CASE Purging!SweepFinds
  <2>1. UNCHANGED <<s1, s2>> /\ (s5' = s5 \/ s5' = Purging!Reopened)
    BY <1>10 DEF Purging!SweepFinds
  <2> QED
    BY <1>8, <2>1 DEF Purging!Reopened, Purging!Inv, Purging!TypeOK, Purging!Request
<1>11. ASSUME NEW t \in Ticks, Purging!EndTick(t)
       PROVE  Purging!DeletedStays
  <2>1. UNCHANGED <<s1, s2>> /\ (s5' = s5 \/ s5' = [s5 EXCEPT !.removed = TRUE])
    BY <1>11 DEF Purging!EndTick
  <2> QED
    BY <1>8, <2>1 DEF Purging!Inv, Purging!TypeOK, Purging!Request
<1>12. CASE Purging!Leftover
  BY <1>1, <1>12 DEF Purging!Leftover
<1>13. ASSUME NEW t \in Ticks, Purging!ReadPage(t) \/ Purging!ListKeys(t) \/ (\E k \in SpaceKeys : Purging!DeleteKey(t, k)) \/ Purging!TickStops(t)
       PROVE  Purging!DeletedStays
  BY <1>2, <1>13 DEF Purging!ReadPage, Purging!ListKeys, Purging!DeleteKey, Purging!TickStops
<1>14. ASSUME NEW k \in SpaceKeys, Purging!WriteLands(k) \/ Purging!SweepLists(k)
       PROVE  Purging!DeletedStays
  BY <1>2, <1>14 DEF Purging!WriteLands, Purging!SweepLists
<1>15. CASE Purging!SweepDeletes
  BY <1>2, <1>15 DEF Purging!SweepDeletes
<1> QED
  BY <1>3, <1>5, <1>6, <1>7, <1>9, <1>10, <1>11, <1>12, <1>13, <1>14, <1>15 DEF Purging!Next,
    Purging!TickRuns
=============================================================================
