--------------------------- MODULE SourceUploads ---------------------------
(***************************************************************************)
(* Original bytes on their way into a cell: grants, upload attempts and    *)
(* the promotion of an attempt's bytes, in a blob store that shares no     *)
(* transaction with the ledger.  Calls upload, finalize, ingest text and   *)
(* revoke; a reconciler settles what they leave, and a sweep lists the     *)
(* store.  A call may stop at any step.  A write or a delete whose answer  *)
(* was not awaited may still land, however late.                           *)
(***************************************************************************)
EXTENDS Naturals, FiniteSets

CONSTANTS
    Grants,       \* upload grants a caller may be issued
    Calls,        \* API calls; an upload's or a text's attempt is named after its call
    Texts,        \* the calls that ingest text; the others upload, finalize or revoke
    Reconcilers,  \* ticks of the reconciler
    MaxLate,      \* bound: how many operations on the store are late at a time
    None

ASSUME UploadsAssumption ==
    /\ None \notin Grants \union Calls /\ Grants \intersect Calls = {}
    /\ "text" \notin Grants /\ Calls \intersect Reconcilers = {}
    /\ Texts \subseteq Calls /\ MaxLate \in Nat

VARIABLES
    grant,     \* source_upload_grants; a text ingestion's is named after its call
    attempt,   \* source_upload_attempts
    source,    \* the attempt that committed each source, by derived source ID
    store,     \* keys that hold bytes
    writing,   \* puts that started and may still land: <<key, call>>
    deleting,  \* deletes that were not awaited and may still land
    call       \* where each call and each tick is

vars == <<grant, attempt, source, store, writing, deleting, call>>

AllGrants == Grants \union Texts

SourceIds == Grants \union {"text"}

(* derivedSourceId: of the grant, or of an idempotency key all texts share. *)
SourceOf(g) == IF g \in Grants THEN g ELSE "text"

Staging(a) == <<"staging", a>>

Original(a) == <<"original", a>>

Keys == {"staging", "original"} \X Calls

(* window: unissued, open or over.  The reconciler waits out a grace beyond it,
   which makes late writes rare and rules none out: here it waits for the end. *)
Grant == [window: {"none", "open", "over"}, ended: {"no", "revoked", "finalized"}]

Attempt == [grant: AllGrants \union {None}, digest: BOOLEAN, removed: BOOLEAN,
            state: {"none", "receiving", "verified", "committed", "failed"}]

Call == [kind: {"none", "upload", "finalize", "text", "revoke", "reconcile"}, at: Calls \union {None},
         settle: BOOLEAN, answer: Calls \union {None},
         pc: {"idle", "stage", "staging", "verify", "ensure", "promote", "promoting", "present",
              "commit", "abandon", "unpromote", "unstage", "record", "done"}]

NoCall == [kind |-> "none", at |-> None, settle |-> FALSE, answer |-> None, pc |-> "idle"]

NoAttempt == [grant |-> None, digest |-> FALSE, removed |-> FALSE, state |-> "none"]

Init ==
    /\ grant = [g \in AllGrants |-> [window |-> "none", ended |-> "no"]]
    /\ attempt = [a \in Calls |-> NoAttempt]
    /\ source = [s \in SourceIds |-> None]
    /\ store = {} /\ writing = {} /\ deleting = {}
    /\ call = [c \in Calls \union Reconcilers |-> NoCall]

At(c, pc) == call[c].pc = pc

Goto(c, pc) == call' = [call EXCEPT ![c].pc = pc]

GrantOf(a) == grant[attempt[a].grant]

Usable(g) == grant[g].window = "open" /\ grant[g].ended = "no"

Live(a) == attempt[a].state \in {"receiving", "verified"}

(* Wrong: whatever its state, an attempt fails. *)
FailedAny(a) == [attempt[a] EXCEPT !.state = "failed"]

Failed(a) == IF Live(a) THEN [attempt[a] EXCEPT !.state = "failed"] ELSE attempt[a]

(* Puts and deletes whose caller is no longer waiting. *)
Late == Cardinality(deleting) + Cardinality({w \in writing : call[w[2]].pc \notin {"staging", "promoting"}})

MayBeLate == Late < MaxLate

Answered(answer) == [NoCall EXCEPT !.pc = "done", !.answer = answer]

(* A tick is over and may start again; a call is not repeated. *)
Over(c) == call' = [call EXCEPT ![c] = IF c \in Reconcilers THEN NoCall ELSE Answered(@.answer)]

----------------------------------------------------------------------------
(* Grants and their clock *)

CreateUpload(g) ==
    /\ grant[g].window = "none"
    /\ grant' = [grant EXCEPT ![g].window = "open"]
    /\ UNCHANGED <<attempt, source, store, writing, deleting, call>>

Tick(g) ==
    /\ grant[g].window = "open"
    /\ grant' = [grant EXCEPT ![g].window = "over"]
    /\ UNCHANGED <<attempt, source, store, writing, deleting, call>>

----------------------------------------------------------------------------
(* Failed: an attempt ends in a transaction of its own, then its bytes go *)

(* settle: the failure is final, so the attempt ends with it (settlesNow). *)
ToAbandon(c, settle) == call' = [call EXCEPT ![c].pc = "abandon", ![c].settle = settle]

(* Wrong: a failure whose outcome is unknown ends the attempt's bytes too. *)
AbandonUnseen(c) ==
    /\ At(c, "abandon")
    /\ Goto(c, "unpromote")
    /\ UNCHANGED <<grant, attempt, source, store, writing, deleting>>

(* abandon: nothing is removed unless the ledger says failed. *)
Abandon(c) ==
    /\ At(c, "abandon")
    /\ LET a == call[c].at
           fails == call[c].settle /\ Live(a)
           failed == fails \/ attempt[a].state = "failed"
       IN /\ attempt' = IF fails THEN [attempt EXCEPT ![a] = Failed(a)] ELSE attempt
          /\ grant' = IF fails /\ call[c].kind = "text"
                      THEN [grant EXCEPT ![c].ended = IF @ = "no" THEN "revoked" ELSE @] ELSE grant
          /\ IF failed /\ ~attempt[a].removed
             THEN Goto(c, IF attempt[a].digest THEN "unpromote" ELSE "unstage")
             ELSE Over(c)
    /\ UNCHANGED <<source, store, writing, deleting>>

(* A delete that fails may land later. *)
Unpromote(c) ==
    /\ At(c, "unpromote")
    /\ LET a == call[c].at
       IN \/ store' = store \ {Original(a)} /\ Goto(c, "unstage") /\ UNCHANGED deleting
          \/ /\ MayBeLate
             /\ deleting' = deleting \union {Original(a)}
             /\ IF call[c].kind = "revoke" THEN Goto(c, "unstage") ELSE Over(c)
             /\ UNCHANGED store
    /\ UNCHANGED <<grant, attempt, source, writing>>

Unstage(c) ==
    /\ At(c, "unstage")
    /\ LET a == call[c].at
       IN \/ store' = store \ {Staging(a)} /\ Goto(c, "record") /\ UNCHANGED deleting
          \/ MayBeLate /\ deleting' = deleting \union {Staging(a)} /\ Over(c) /\ UNCHANGED store
    /\ UNCHANGED <<grant, attempt, source, writing>>

(* A failed attempt that held a digest is recorded by reconciliation only. *)
Record(c) ==
    /\ At(c, "record")
    /\ LET a == call[c].at
           gone == attempt[a].state = "committed"
                   \/ (attempt[a].state = "failed" /\ (~attempt[a].digest \/ call[c].kind = "reconcile"))
       IN attempt' = [attempt EXCEPT ![a].removed = @ \/ gone]
    /\ Over(c)
    /\ UNCHANGED <<grant, source, store, writing, deleting>>

----------------------------------------------------------------------------
(* Uploading *)

(* The grant's row lock lets one live attempt in. *)
BeginUpload(c, g) ==
    /\ At(c, "idle") /\ Usable(g)
    /\ \A a \in Calls : attempt[a].grant = g => ~Live(a)
    /\ attempt' = [attempt EXCEPT ![c] = [NoAttempt EXCEPT !.grant = g, !.state = "receiving"]]
    /\ call' = [call EXCEPT ![c] = [NoCall EXCEPT !.kind = "upload", !.at = c, !.pc = "stage"]]
    /\ UNCHANGED <<grant, source, store, writing, deleting>>

Writes == {<<"stage", "staging", "staging">>, <<"promote", "promoting", "original">>}

(* No write starts once the grant has expired. *)
Put(c) ==
    /\ \E w \in Writes :
         /\ At(c, w[1])
         /\ IF GrantOf(call[c].at).window = "open"
            THEN writing' = writing \union {<<<<w[3], call[c].at>>, c>>} /\ Goto(c, w[2])
            ELSE ToAbandon(c, TRUE) /\ UNCHANGED writing
    /\ UNCHANGED <<grant, attempt, source, store, deleting>>

(* The put is answered, or is given up and may land without an answer. *)
PutAnswered(c) ==
    /\ \E w \in Writes :
         /\ At(c, w[2])
         /\ LET key == <<w[3], call[c].at>>
            IN \/ /\ store' = store \union {key}
                  /\ writing' = writing \ {<<key, c>>}
                  /\ Goto(c, IF w[2] = "staging" THEN "verify" ELSE "present")
               \/ /\ \/ writing' = writing \ {<<key, c>>}
                     \/ MayBeLate /\ UNCHANGED writing
                  /\ \E settle \in {TRUE, call[c].kind = "upload"} : ToAbandon(c, settle)
                  /\ UNCHANGED store
    /\ UNCHANGED <<grant, attempt, source, deleting>>

(* The body was consumed: an error here, even of an outcome not known, fails
   the attempt, and a grant that ended meanwhile refuses it. *)
Verify(c) ==
    /\ At(c, "verify")
    /\ LET usable == Usable(attempt[c].grant) /\ attempt[c].state = "receiving"
       IN \/ /\ usable
             /\ attempt' = [attempt EXCEPT ![c].state = "verified", ![c].digest = TRUE]
             /\ Over(c) \/ ToAbandon(c, TRUE)
          \/ /\ ~usable
             /\ attempt' = IF attempt[c].state = "receiving" THEN [attempt EXCEPT ![c] = Failed(c)] ELSE attempt
             /\ Goto(c, "unstage")
          \/ ToAbandon(c, TRUE) /\ UNCHANGED attempt
    /\ UNCHANGED <<grant, source, store, writing, deleting>>

----------------------------------------------------------------------------
(* Finalizing an upload, or a text whose bytes the call holds *)

Replayed(a) == GrantOf(a).ended = "finalized" /\ attempt[a].state = "committed"

Finalize(c, a) ==
    /\ At(c, "idle") /\ attempt[a].grant \in Grants
    /\ LET kept == [NoCall EXCEPT !.kind = "finalize", !.at = a]
       IN \/ /\ Replayed(a)
             /\ call' = [call EXCEPT ![c] = Answered(a)]
          \/ /\ Usable(attempt[a].grant) /\ attempt[a].state = "verified"
             /\ call' = [call EXCEPT ![c] = [kept EXCEPT !.pc = "ensure"]]
    /\ UNCHANGED <<grant, attempt, source, store, writing, deleting>>

(* ingestText: a one-shot grant and a verified attempt, before any bytes. *)
IngestText(c) ==
    /\ At(c, "idle")
    /\ IF source["text"] # None
       THEN /\ call' = [call EXCEPT ![c] = Answered(source["text"])]
            /\ UNCHANGED <<grant, attempt>>
       ELSE /\ grant' = [grant EXCEPT ![c].window = "open"]
            /\ attempt' = [attempt EXCEPT ![c] = [NoAttempt EXCEPT !.grant = c, !.state = "verified", !.digest = TRUE]]
            /\ call' = [call EXCEPT ![c] = [NoCall EXCEPT !.kind = "text", !.at = c, !.pc = "ensure"]]
    /\ UNCHANGED <<source, store, writing, deleting>>

Ensure(c) ==
    /\ At(c, "ensure")
    /\ LET a == call[c].at
       IN \/ Original(a) \in store /\ Goto(c, "present")
          \/ /\ Original(a) \notin store
             /\ IF call[c].kind = "text" \/ Staging(a) \in store
                THEN Goto(c, "promote") ELSE ToAbandon(c, TRUE)
          \/ \E settle \in BOOLEAN : ToAbandon(c, settle)
    /\ UNCHANGED <<grant, attempt, source, store, writing, deleting>>

(* Read before the transaction: only a failed attempt's original can go. *)
Present(c) ==
    /\ At(c, "present")
    /\ \/ Original(call[c].at) \in store /\ Goto(c, "commit")
       \/ \E settle \in {FALSE, GrantOf(call[c].at).window # "open"} : ToAbandon(c, settle)
    /\ UNCHANGED <<grant, attempt, source, store, writing, deleting>>

(* sourceExists, under the advisory lock on the identity. *)
Free(c, s) == source[s] = None

(* The check again, then source, attempt and grant together. *)
Commit(c) ==
    /\ At(c, "commit")
    /\ LET a == call[c].at
           g == attempt[a].grant
           s == SourceOf(g)
       IN \/ /\ Usable(g) /\ attempt[a].state = "verified" /\ Free(c, s)
             /\ source' = [source EXCEPT ![s] = a]
             /\ attempt' = [attempt EXCEPT ![a].state = "committed", ![a].removed = (call[c].kind = "text")]
             /\ grant' = [grant EXCEPT ![g].ended = "finalized"]
             /\ \/ call' = [call EXCEPT ![c] = IF call[c].kind = "text" THEN Answered(a)
                                               ELSE [@ EXCEPT !.pc = "unstage", !.answer = a]]
                \/ ToAbandon(c, FALSE)
          \/ /\ Replayed(a)
             /\ call' = [call EXCEPT ![c] = Answered(a)]
             /\ UNCHANGED <<grant, attempt, source>>
          \/ /\ ~Replayed(a)
             /\ ~Usable(g) \/ attempt[a].state # "verified" \/ ~Free(c, s)
             /\ call' = [call EXCEPT ![c].pc = "abandon", ![c].settle = TRUE, ![c].answer =
                           IF Usable(g) /\ attempt[a].state = "verified" THEN source[s] ELSE None]
             /\ UNCHANGED <<grant, attempt, source>>
          \/ (\E settle \in BOOLEAN : ToAbandon(c, settle)) /\ UNCHANGED <<grant, attempt, source>>
    /\ UNCHANGED <<store, writing, deleting>>

----------------------------------------------------------------------------
(* Revocation, reconciliation and the sweep *)

Revoke(c, g) ==
    /\ At(c, "idle") /\ grant[g].window # "none" /\ grant[g].ended = "no"
    /\ grant' = [grant EXCEPT ![g].ended = "revoked"]
    /\ LET of(states) == {a \in Calls : attempt[a].grant = g /\ attempt[a].state \in states}
           kept == [NoCall EXCEPT !.kind = "revoke"]
       IN /\ attempt' = [a \in Calls |-> IF a \in of({"receiving", "verified"}) THEN Failed(a) ELSE attempt[a]]
          /\ \/ \E a \in of({"verified"}) : call' = [call EXCEPT ![c] = [kept EXCEPT !.at = a, !.pc = "unpromote"]]
             \/ of({"verified"}) = {} /\ call' = [call EXCEPT ![c] = Answered(None)]
    /\ UNCHANGED <<source, store, writing, deleting>>

(* Wrong: what is still verified after the grace keeps its bytes. *)
DueUnverified(a) ==
    attempt[a].grant # None /\ ~attempt[a].removed /\ GrantOf(a).window = "over" /\ attempt[a].state # "verified"

Due(a) == attempt[a].grant # None /\ ~attempt[a].removed /\ GrantOf(a).window = "over"

Reconcile(c, a) ==
    /\ At(c, "idle") /\ Due(a)
    /\ attempt' = [attempt EXCEPT ![a] = Failed(a)]
    /\ call' = [call EXCEPT ![c] = [NoCall EXCEPT !.kind = "reconcile", !.at = a,
                  !.pc = IF attempt'[a].state = "failed" /\ attempt[a].digest THEN "unpromote" ELSE "unstage"]]
    /\ UNCHANGED <<grant, source, store, writing, deleting>>

(* A key nobody needs: final states of the ledger only. *)
Ended(k) ==
    \/ attempt[k[2]].state = "failed"
    \/ attempt[k[2]].state = "committed" /\ k[1] = "staging"

Sweep(k) ==
    /\ k \in store /\ Ended(k)
    /\ \/ store' = store \ {k} /\ UNCHANGED deleting
       \/ MayBeLate /\ k \notin deleting /\ deleting' = deleting \union {k} /\ UNCHANGED store
    /\ UNCHANGED <<grant, attempt, source, writing, call>>

DeleteLands(k) ==
    /\ k \in deleting
    /\ deleting' = deleting \ {k}
    /\ store' \in {store \ {k}, store}
    /\ UNCHANGED <<grant, attempt, source, writing, call>>

(* A put its call no longer waits for. *)
WriteLands(w) ==
    /\ w \in writing /\ call[w[2]].pc \notin {"staging", "promoting"}
    /\ writing' = writing \ {w}
    /\ store' \in {store \union {w[1]}, store}
    /\ UNCHANGED <<grant, attempt, source, deleting, call>>

----------------------------------------------------------------------------
Steps(c) ==
    \/ Put(c) \/ Verify(c) \/ Ensure(c) \/ Present(c) \/ Commit(c)
    \/ Abandon(c) \/ Unpromote(c) \/ Unstage(c) \/ Record(c)

Next ==
    \/ \E g \in Grants : CreateUpload(g)
    \/ \E g \in AllGrants : Tick(g)
    \/ \E c \in Calls \ Texts : \/ \E g \in Grants : BeginUpload(c, g) \/ Revoke(c, g)
                                \/ \E a \in Calls : Finalize(c, a)
    \/ \E c \in Texts : IngestText(c)
    \/ \E c \in Calls : PutAnswered(c)
    \/ \E c \in Calls \union Reconcilers : Steps(c)
    \/ \E c \in Reconcilers, a \in Calls : Reconcile(c, a)
    \/ \E k \in Keys : Sweep(k) \/ DeleteLands(k)
    \/ \E w \in Keys \X Calls : WriteLands(w)

Spec == Init /\ [][Next]_vars

----------------------------------------------------------------------------
(* Properties *)

(* Every variable holds what its table can hold, and the ledger keeps its CHECK
   and unique constraints: an attempt past verification has its digest, and a
   grant has at most one committed attempt. *)
TypeOK ==
    /\ grant \in [AllGrants -> Grant]
    /\ attempt \in [Calls -> Attempt]
    /\ source \in [SourceIds -> Calls \union {None}]
    /\ store \subseteq Keys /\ deleting \subseteq Keys /\ writing \subseteq Keys \X Calls
    /\ call \in [Calls \union Reconcilers -> Call]
    /\ \A a \in Calls :
         /\ attempt[a].state \in {"verified", "committed"} => attempt[a].digest
         /\ \A b \in Calls : /\ attempt[a].state = "committed" /\ attempt[b].state = "committed"
                             /\ attempt[a].grant = attempt[b].grant
                             => a = b

(* The bytes of a committed source are there and stay, whatever revocations,
   late deletes, ticks and sweeps run beside its finalization. *)
SourceHasBytes == \A a \in Calls : attempt[a].state = "committed" => Original(a) \in store

(* A committed attempt is the one its source row names: no two requests commit
   one identity, and no committed attempt is without its source. *)
OneSource == \A a \in Calls : attempt[a].state = "committed" => source[SourceOf(attempt[a].grant)] = a

(* An answer names a source that was committed, by a replay as by the call that
   committed it. *)
AnsweredIsCommitted ==
    \A c \in Calls : call[c].answer # None => attempt[call[c].answer].state = "committed"

(* What holds of the sources and their bytes in every state. *)
SourcesHold == TypeOK /\ SourceHasBytes /\ OneSource /\ AnsweredIsCommitted

(* The ledger moves forward only, without its trigger ever having to refuse an
   update: ended attempts and grants stay as they are, and the digest and the
   removal are set once. *)
LedgerForward ==
    /\ \A a \in Calls : /\ attempt[a].state \in {"committed", "failed"} => attempt'[a].state = attempt[a].state
                        /\ attempt[a].digest => attempt'[a].digest
                        /\ attempt[a].removed => attempt'[a].removed
    /\ \A g \in AllGrants : grant[g].ended # "no" => grant'[g].ended = grant[g].ended

LedgerStays == [][LedgerForward]_vars

(* In the end the store holds the originals of committed sources and no other
   bytes, though calls crash at any step and writes land after their attempt
   was settled. *)
OnlyOriginalsStay == \A k \in store : k[1] = "original" /\ attempt[k[2]].state = "committed"
=============================================================================
