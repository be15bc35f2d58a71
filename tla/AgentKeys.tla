----------------------------- MODULE AgentKeys -----------------------------
(***************************************************************************)
(* The issuance of agent keys: a protocol of the control plane (a journal  *)
(* and a lease on the space's directory row), the cell (credential, grants *)
(* and policy version) and the key provider, none of which share a         *)
(* transaction.                                                            *)
(*                                                                         *)
(* An issuer journals its intent, has the provider create the key, stages, *)
(* grants, publishes, activates and confirms it in the cell, and completes *)
(* the journal.  Any statement may fail before or after its effect, an     *)
(* issuer may die, and its lease may pass while it is merely slow.         *)
(* Cleaners reconcile under the lease, or delete the space without it, and *)
(* settle what issuers left behind.                                        *)
(***************************************************************************)
EXTENDS Naturals, FiniteSets

CONSTANTS
    Issuers,    \* calls of issueAgentKey, each with the issuance it journals
    Cleaners,   \* callers of reconcile and delete
    None,       \* no lease holder, no issuance
    MaxFaults   \* bound: failed statements, lost answers, crashes and slow lease holders

KeysAssumption ==
    /\ None \notin Issuers \union Cleaners /\ Issuers \intersect Cleaners = {}
    /\ MaxFaults \in Nat

VARIABLES
    directory,   \* the space_directory row with its issuance lease
    cell,        \* the cell's spaces row
    journal,     \* the columns set in each agent_key_issuances row
    credential,  \* the columns set in each space_credentials row, and its grants
    provider,    \* the provider's key of each issuance
    call,        \* each actor's place in the code and the copies it took
    faults       \* faults spent so far (bound)

vars == <<directory, cell, journal, credential, provider, call, faults>>

Actors == Issuers \union Cleaners

Lifecycles == {"active", "closed", "deleted"}

JournalColumns == {"reserved", "credential", "createFailed", "cancelled", "completed",
                   "providerRevoked", "settled"}

KeyColumns == {"staged", "granted", "activated", "confirmed", "revoked", "providerRevoked"}

(* What an issuer does under the lease after the provider made its key. *)
Steps == {"learn", "stage", "grant", "publish", "activate", "confirm"}

Over == {"idle", "answered", "unknown", "failed", "crashed"}

Pcs == Over \union Steps \union
       {"own", "reserve", "create", "readActivation", "readConfirmation", "complete", "verify",
        "recover", "retry", "verifyRetry", "withdraw", "cancel", "markFailed", "find",
        "revokeFound", "journalFound", "failKey", "revoke", "markCell", "markJournal",
        "fallback", "fallbackJournal", "publishClosed", "keys", "list", "rows", "findRow",
        "learnRow", "failRow", "revokeRow", "journalRow", "cellRow", "repair", "compare",
        "purge", "publishDeleted"}

(* space: the directory version read; version: the one to publish; checked: the
   claim was checked for the step at hand; failed: the provider's create failed;
   blind: completion could not be read back; at, todo, known, noKey: the row
   being settled, those left, and what the list said of their key. *)
Call == [pc: Pcs, space: Nat, version: Nat, checked: BOOLEAN, failed: BOOLEAN, blind: BOOLEAN,
         force: BOOLEAN, at: Issuers \union {None}, todo: SUBSET Issuers,
         known: SUBSET Issuers, noKey: SUBSET Issuers]

NoCall(a) == [pc |-> "idle", space |-> 0, version |-> 0, checked |-> FALSE, failed |-> FALSE,
              blind |-> FALSE, force |-> FALSE, at |-> IF a \in Issuers THEN a ELSE None,
              todo |-> {}, known |-> {}, noKey |-> {}]

Init ==
    /\ directory = [lifecycle |-> "active", version |-> 1, lease |-> None, live |-> FALSE]
    /\ cell = [lifecycle |-> "active", version |-> 1]
    /\ journal = [i \in Issuers |-> {}]
    /\ credential = [i \in Issuers |-> {}]
    /\ provider = [i \in Issuers |-> "none"]
    /\ call = [a \in Actors |-> NoCall(a)]
    /\ faults = 0

Fault == faults < MaxFaults /\ faults' = faults + 1

At(a, pc) == call[a].pc = pc

Goto(a, pc) == call' = [call EXCEPT ![a].pc = pc, ![a].checked = FALSE]

Set(column, i) == journal' = [journal EXCEPT ![i] = @ \union column]

Mark(column, i) == credential' = [credential EXCEPT ![i] = @ \union column]

Open(i) == journal[i] \intersect {"providerRevoked", "settled"} = {}

HasLease(a) == directory.lease = a /\ directory.live

(* requireLiveIssuance: the claim and the journal, in one control statement. *)
Live(i) == HasLease(i) /\ Open(i) /\ "cancelled" \notin journal[i]

(* A call ends and gives its lease back, unless that statement fails. *)
End(a, pc) ==
    /\ call' = [call EXCEPT ![a] = [NoCall(a) EXCEPT !.pc = pc, !.version = call[a].version]]
    /\ directory' = IF directory.lease = a
                    THEN [directory EXCEPT !.lease = None, !.live = FALSE] ELSE directory

----------------------------------------------------------------------------
(* The lease on the directory row *)

Claim(a, pc) ==
    /\ At(a, "idle")
    /\ directory.lease = None \/ ~directory.live
    /\ directory' = [directory EXCEPT !.lease = a, !.live = TRUE]
    /\ Goto(a, pc)
    /\ UNCHANGED <<cell, journal, credential, provider, faults>>

Working(a) == a # None /\ ~At(a, "idle") /\ call[a].pc \notin Over

(* Sixty seconds pass: under a holder that is dead, or one that is slow. *)
ExpireLease ==
    /\ directory.live
    /\ directory' = [directory EXCEPT !.live = FALSE]
    /\ \/ Working(directory.lease) /\ Fault
       \/ ~Working(directory.lease) /\ UNCHANGED faults
    /\ UNCHANGED <<cell, journal, credential, provider, call>>

Crash(a) ==
    /\ Working(a) /\ Fault
    /\ call' = [call EXCEPT ![a] = IF a \in Issuers THEN [@ EXCEPT !.pc = "crashed"] ELSE NoCall(a)]
    /\ UNCHANGED <<directory, cell, journal, credential, provider>>

----------------------------------------------------------------------------
(* Issuing *)

(* Where an error of the statement at pc leads: cleaners throw. *)
OnError(a, pc) ==
    IF a \in Cleaners THEN "idle"
    ELSE CASE pc \in {"own", "reserve"} -> "failed"
           [] pc \in {"learn", "stage", "grant", "publish", "readActivation", "readConfirmation"} -> "cancel"
           [] pc = "activate" -> "readActivation"
           [] pc = "confirm" -> "readConfirmation"
           [] pc \in {"complete", "verify"} -> "recover"
           [] pc = "recover" -> "retry"
           [] pc = "retry" -> "withdraw"
           [] pc \in {"verifyRetry", "withdraw"} -> "unknown"
           [] pc = "markFailed" -> "find"
           [] pc = "failKey" -> "revoke"
           [] pc \in {"revoke", "markCell", "markJournal"} -> "fallback"
           [] pc \in {"find", "revokeFound", "journalFound", "fallback", "fallbackJournal"} -> "failed"

AfterCancel(i) == IF call[i].failed THEN "markFailed" ELSE "failKey"

(* The next place of an issuer; leaving the code gives the lease back. *)
Proceed(i, pc) ==
    IF pc \in Over THEN End(i, pc) ELSE Goto(i, pc) /\ UNCHANGED directory

(* A statement took effect, and its answer arrives or is lost. *)
Answered(i, pc) ==
    \/ Proceed(i, pc) /\ UNCHANGED faults
    \/ Fault /\ Proceed(i, OnError(i, call[i].pc))

(* A statement fails without effect. *)
Fails(i) ==
    /\ call[i].pc \notin Over \union {"create", "cancel", "recover", "retry"}
    /\ Fault
    /\ Proceed(i, OnError(i, call[i].pc))
    /\ UNCHANGED <<cell, journal, credential, provider>>

ReadSpace(i) ==
    /\ At(i, "own")
    /\ IF directory.lifecycle = "active"
       THEN /\ call' = [call EXCEPT ![i].pc = "reserve", ![i].space = directory.version]
            /\ UNCHANGED directory
       ELSE End(i, "failed")
    /\ UNCHANGED <<cell, journal, credential, provider, faults>>

(* The journal row, if the directory still is what was read. *)
Reserve(i) ==
    /\ At(i, "reserve")
    /\ IF directory.lifecycle = "active" /\ directory.version = call[i].space
       THEN Set({"reserved"}, i) /\ Answered(i, "create")
       ELSE End(i, "failed") /\ UNCHANGED <<journal, faults>>
    /\ UNCHANGED <<cell, credential, provider>>

(* The provider creates the key, or throws with the key made or not. *)
Create(i) ==
    /\ At(i, "create")
    /\ \/ /\ provider' = [provider EXCEPT ![i] = "live"]
          /\ Goto(i, "learn")
          /\ UNCHANGED faults
       \/ /\ Fault
          /\ \E made \in {"none", "live"} : provider' = [provider EXCEPT ![i] = made]
          /\ call' = [call EXCEPT ![i].pc = "cancel", ![i].failed = TRUE]
    /\ UNCHANGED <<directory, cell, journal, credential>>

(* The claim is checked before each step; the step itself commits later. *)
Check(i) ==
    /\ call[i].pc \in Steps /\ ~call[i].checked
    /\ IF Live(i) THEN call' = [call EXCEPT ![i].checked = TRUE] ELSE Goto(i, "cancel")
    /\ UNCHANGED <<directory, cell, journal, credential, provider, faults>>

Refused(i) ==
    Goto(i, "cancel") /\ UNCHANGED <<directory, cell, journal, credential, faults>>

Learn(i) ==
    /\ At(i, "learn") /\ call[i].checked
    /\ Set({"credential"}, i) /\ Answered(i, "stage")
    /\ UNCHANGED <<cell, credential, provider>>

CellAt(version) == cell.lifecycle = "active" /\ cell.version = version

Stage(i) ==
    /\ At(i, "stage") /\ call[i].checked
    /\ IF CellAt(call[i].space)
       THEN Mark({"staged"}, i) /\ Answered(i, "grant") /\ UNCHANGED <<cell, journal>>
       ELSE Refused(i)
    /\ UNCHANGED provider

(* The credential is not looked at again: the policy version fences it. *)
Grant(i) ==
    /\ At(i, "grant") /\ call[i].checked
    /\ IF CellAt(call[i].space)
       THEN /\ Mark({"granted"}, i)
            /\ cell' = [cell EXCEPT !.version = @ + 1]
            /\ \/ /\ call' = [call EXCEPT ![i].pc = "publish", ![i].checked = FALSE,
                                          ![i].version = cell.version + 1]
                  /\ UNCHANGED faults
               \/ Fault /\ Goto(i, "cancel")
            /\ UNCHANGED <<directory, journal>>
       ELSE Refused(i)
    /\ UNCHANGED provider

(* publish: a compare-and-swap, and a readback that accepts the same row. *)
Publish(i) ==
    /\ At(i, "publish") /\ call[i].checked
    /\ \/ /\ directory.version = call[i].space
          /\ directory' = [directory EXCEPT !.version = call[i].version, !.lifecycle = "active"]
          /\ \/ Goto(i, "activate") /\ UNCHANGED faults
             \/ Fault /\ Goto(i, "cancel")
       \/ /\ directory.version # call[i].space
          /\ Goto(i, IF directory.version = call[i].version /\ directory.lifecycle = "active"
                     THEN "activate" ELSE "cancel")
          /\ UNCHANGED <<directory, faults>>
    /\ UNCHANGED <<cell, journal, credential, provider>>

Activate(i) ==
    /\ At(i, "activate") /\ call[i].checked
    /\ IF CellAt(call[i].version) /\ credential[i] \intersect {"staged", "revoked", "activated"} = {"staged"}
       THEN Mark({"activated"}, i) /\ Answered(i, "confirm") /\ UNCHANGED <<cell, journal>>
       ELSE Refused(i)
    /\ UNCHANGED provider

Confirm(i) ==
    /\ At(i, "confirm") /\ call[i].checked
    /\ IF CellAt(call[i].version) /\ credential[i] \intersect {"activated", "confirmed", "revoked"} = {"activated"}
       THEN Mark({"confirmed"}, i) /\ Answered(i, "complete") /\ UNCHANGED <<cell, journal>>
       ELSE Refused(i)
    /\ UNCHANGED provider

(* A lost COMMIT of the last two is read back from the credential. *)
ReadBack(i) ==
    /\ \E r \in {<<"readActivation", "activated", "confirm">>, <<"readConfirmation", "confirmed", "complete">>} :
         /\ At(i, r[1])
         /\ Goto(i, IF r[2] \in credential[i] /\ "revoked" \notin credential[i] THEN r[3] ELSE "cancel")
    /\ UNCHANGED <<directory, cell, journal, credential, provider, faults>>

----------------------------------------------------------------------------
(* Completing the journal, under the live claim *)

Complete(i) ==
    /\ At(i, "complete")
    /\ IF Live(i) /\ "completed" \notin journal[i]
       THEN Set({"completed"}, i) /\ Answered(i, "verify")
       ELSE Goto(i, "cancel") /\ UNCHANGED <<directory, journal, faults>>
    /\ UNCHANGED <<cell, credential, provider>>

(* requireCompletedIssuedKey, and the readback that stands for it. *)
Completed(i) == Live(i) /\ "completed" \in journal[i] /\ directory.lifecycle = "active"

Verify(i) ==
    /\ At(i, "verify") \/ At(i, "verifyRetry")
    /\ Proceed(i, IF Completed(i) THEN "answered" ELSE "cancel")
    /\ UNCHANGED <<cell, journal, credential, provider, faults>>

Recover(i) ==
    /\ At(i, "recover")
    /\ \/ /\ Proceed(i, IF Completed(i) THEN "answered"
                        ELSE IF "completed" \in journal[i] THEN "cancel" ELSE "retry")
          /\ UNCHANGED faults
       \/ /\ Fault
          /\ call' = [call EXCEPT ![i].pc = "retry", ![i].blind = TRUE]
          /\ UNCHANGED directory
    /\ UNCHANGED <<cell, journal, credential, provider>>

(* The completion is sent again.  Blind twice, the outcome stays unknown. *)
RetryComplete(i) ==
    /\ At(i, "retry")
    /\ LET able == Live(i) /\ directory.lifecycle = "active"
           lost == Fault /\ Proceed(i, IF call[i].blind THEN "unknown" ELSE "withdraw")
       IN \/ /\ able
             /\ Set({"completed"}, i)
             /\ \/ Goto(i, "verifyRetry") /\ UNCHANGED <<directory, faults>>
                \/ lost
          \/ ~able /\ Goto(i, "withdraw") /\ UNCHANGED <<directory, journal, faults>>
          \/ lost /\ UNCHANGED journal
    /\ UNCHANGED <<cell, credential, provider>>

Withdraw(i) ==
    /\ At(i, "withdraw")
    /\ Set(IF "providerRevoked" \in journal[i] THEN {} ELSE {"cancelled"}, i)
    /\ Answered(i, "cancel")
    /\ UNCHANGED <<cell, credential, provider>>

----------------------------------------------------------------------------
(* Compensating a failed issuance *)

(* A failed cancellation is swallowed. *)
CancelOwn(i) ==
    /\ At(i, "cancel")
    /\ \/ Set({"cancelled"}, i) /\ UNCHANGED faults
       \/ Fault /\ UNCHANGED journal
    /\ Goto(i, AfterCancel(i))
    /\ UNCHANGED <<directory, cell, credential, provider>>

MarkFailed(i) ==
    /\ At(i, "markFailed")
    /\ Set({"createFailed"}, i) /\ Answered(i, "find")
    /\ UNCHANGED <<cell, credential, provider>>

(* Nobody is settled without a key before the provider said there is none. *)
Settle(i) == IF "credential" \in journal[i] \/ ~Open(i) THEN {} ELSE {"settled"}

(* Wrong: a rejected create is taken to have made nothing. *)
FindNothing(i) ==
    /\ At(i, "find")
    /\ Set(Settle(i), i) /\ Answered(i, "failed")
    /\ UNCHANGED <<cell, credential, provider>>

Find(i) ==
    /\ At(i, "find")
    /\ IF provider[i] = "none"
       THEN Set(Settle(i), i) /\ Answered(i, "failed")
       ELSE /\ \/ Set({"credential"}, i) /\ UNCHANGED faults
               \/ Fault /\ UNCHANGED journal
            /\ Goto(i, "revokeFound")
            /\ UNCHANGED directory
    /\ UNCHANGED <<cell, credential, provider>>

(* failIssuedKey: denial in the cell, one transaction. *)
DenyKey(i) ==
    IF "staged" \in credential[i] /\ "revoked" \notin credential[i]
    THEN /\ credential' = [credential EXCEPT ![i] = (@ \ {"granted"}) \union {"revoked"}]
         /\ cell' = [cell EXCEPT !.version = @ + 1]
    ELSE UNCHANGED <<credential, cell>>

FailKey(a) ==
    /\ \/ At(a, "failKey") /\ DenyKey(call[a].at) /\ Answered(a, "revoke")
       \/ /\ At(a, "failRow")
          /\ IF cell.lifecycle = "deleted" THEN UNCHANGED <<credential, cell>> ELSE DenyKey(call[a].at)
          /\ Answered(a, "revokeRow")
    /\ UNCHANGED <<journal, provider>>

(* keys.revoke: in a compensation, its fallback, a settled row or a repair. *)
RevokeAtProvider(a) ==
    /\ \E r \in {<<"revokeFound", "journalFound">>, <<"revoke", "markCell">>,
                 <<"fallback", "fallbackJournal">>, <<"revokeRow", "journalRow">>} :
         At(a, r[1]) /\ Answered(a, r[2])
    /\ provider' = [provider EXCEPT ![call[a].at] = "revoked"]
    /\ UNCHANGED <<cell, journal, credential>>

(* Where a caller goes on when a key is done with. *)
Return(a) == IF a \in Issuers THEN "failed" ELSE IF call[a].force THEN "keys" ELSE "repair"

MarkCell(a) ==
    /\ \/ At(a, "markCell") /\ Answered(a, "markJournal")
       \/ At(a, "cellRow") /\ Answered(a, "rows")
    /\ Mark(IF "staged" \in credential[call[a].at] THEN {"providerRevoked"} ELSE {}, call[a].at)
    /\ UNCHANGED <<cell, journal, provider>>

MarkJournal(a) ==
    /\ LET i == call[a].at
       IN \/ /\ At(a, "markJournal")
             /\ Set(IF "credential" \in journal[i] THEN {"providerRevoked"} ELSE {}, i)
             /\ Answered(a, Return(a))
          \/ /\ At(a, "journalFound") \/ At(a, "fallbackJournal")
             /\ Set({"credential", "providerRevoked"}, i)
             /\ Answered(a, "failed")
          \/ /\ At(a, "journalRow")
             /\ Set({"providerRevoked"}, i)
             /\ Answered(a, "cellRow")
    /\ UNCHANGED <<cell, credential, provider>>

----------------------------------------------------------------------------
(* Settling journal rows: cleanupIssuances, forced by a deletion or under the
   reconciler's lease *)

List(c) ==
    /\ At(c, "list")
    /\ LET pending == {i \in Issuers :
               /\ "reserved" \in journal[i] /\ Open(i)
               /\ call[c].force \/ "completed" \notin journal[i] \/ "cancelled" \in journal[i]}
       IN call' = [call EXCEPT ![c] = [@ EXCEPT !.pc = "rows", !.todo = pending,
              !.known = {i \in pending : "credential" \in journal[i]},
              !.noKey = {i \in pending : "createFailed" \in journal[i]}]]
    /\ UNCHANGED <<directory, cell, journal, credential, provider, faults>>

(* The cancellation's own condition, against the row and the claim as they are. *)
Cancellable(c, i) ==
    /\ Open(i)
    /\ \/ call[c].force
       \/ HasLease(c) /\ ("completed" \notin journal[i] \/ "cancelled" \in journal[i])

CancelRow(c, i) ==
    /\ At(c, "rows") /\ i \in call[c].todo
    /\ \/ /\ Cancellable(c, i)
          /\ Set({"cancelled"}, i)
          /\ call' = [call EXCEPT ![c].pc = "findRow", ![c].at = i, ![c].todo = @ \ {i}]
          /\ UNCHANGED directory
       \/ /\ ~Cancellable(c, i) /\ call[c].force
          /\ call' = [call EXCEPT ![c].todo = @ \ {i}]
          /\ UNCHANGED <<directory, journal>>
       \/ ~Cancellable(c, i) /\ ~call[c].force /\ End(c, "idle") /\ UNCHANGED journal
    /\ UNCHANGED <<cell, credential, provider, faults>>

(* Only a create that was seen to fail can have made no key. *)
NeverMade(c, i) == i \in call[c].noKey

(* A row whose create has no known outcome stays, and stops a deletion. *)
FindRow(c) ==
    /\ At(c, "findRow")
    /\ LET i == call[c].at
       IN \/ /\ i \in call[c].known \/ provider[i] # "none"
             /\ Goto(c, "learnRow") /\ UNCHANGED <<directory, journal>>
          \/ /\ i \notin call[c].known /\ provider[i] = "none"
             /\ IF NeverMade(c, i)
                THEN Set(Settle(i), i) /\ Goto(c, "rows") /\ UNCHANGED directory
                ELSE Proceed(c, IF call[c].force THEN "idle" ELSE "rows") /\ UNCHANGED journal
    /\ UNCHANGED <<cell, credential, provider, faults>>

LearnRow(c) ==
    /\ At(c, "learnRow")
    /\ Set({"credential"}, call[c].at) /\ Answered(c, "failRow")
    /\ UNCHANGED <<cell, credential, provider>>

RowsDone(c) ==
    /\ At(c, "rows") /\ call[c].todo = {}
    /\ Goto(c, IF ~call[c].force THEN "repair"
               ELSE IF cell.lifecycle = "closed" THEN "purge" ELSE "publishDeleted")
    /\ UNCHANGED <<directory, cell, journal, credential, provider, faults>>

----------------------------------------------------------------------------
(* Reconciliation *)

ListUnderLease(c) ==
    /\ At(c, "own")
    /\ call' = [call EXCEPT ![c].pc = "list", ![c].space = directory.version]
    /\ UNCHANGED <<directory, cell, journal, credential, provider, faults>>

(* Cell credentials that lag behind the journal or the provider. *)
Lagging == {i \in Issuers : /\ "staged" \in credential[i]
                            /\ "credential" \in journal[i] /\ "providerRevoked" \in journal[i]
                            /\ ~({"revoked", "providerRevoked"} \subseteq credential[i])}

Unrevoked == {i \in Issuers : credential[i] \intersect {"revoked", "providerRevoked"} = {"revoked"}}

Repair(c) ==
    /\ At(c, "repair")
    /\ \/ /\ Lagging # {}
          /\ \E i \in Lagging :
               IF "revoked" \notin credential[i] THEN DenyKey(i)
               ELSE Mark({"providerRevoked"}, i) /\ UNCHANGED cell
          /\ Answered(c, "repair")
       \/ /\ Lagging = {}
          /\ \/ \E i \in Unrevoked : call' = [call EXCEPT ![c].pc = "revoke", ![c].at = i]
             \/ Unrevoked = {} /\ Goto(c, "compare")
          /\ UNCHANGED <<directory, cell, credential, faults>>
    /\ UNCHANGED <<journal, provider>>

(* The cell's row is published under the claim (SpaceDirectory has the details). *)
Compare(c) ==
    /\ At(c, "compare")
    /\ LET able == directory.version = call[c].space /\ HasLease(c) /\ cell.lifecycle # "deleted"
       IN /\ call' = [call EXCEPT ![c] = NoCall(c)]
          /\ directory' =
               LET freed == IF directory.lease = c THEN [directory EXCEPT !.lease = None, !.live = FALSE]
                            ELSE directory
               IN IF able THEN [freed EXCEPT !.lifecycle = cell.lifecycle, !.version = cell.version]
                  ELSE freed
    /\ UNCHANGED <<cell, journal, credential, provider, faults>>

----------------------------------------------------------------------------
(* Deletion, which takes no lease *)

(* The space is closed to effects in the cell, then in the directory. *)
Close(c) ==
    /\ At(c, "idle")
    /\ cell.lifecycle = "active" /\ directory.lifecycle = "active" /\ directory.version = cell.version
    /\ cell' = [lifecycle |-> "closed", version |-> cell.version + 1]
    /\ call' = [call EXCEPT ![c].pc = "publishClosed", ![c].space = cell.version, ![c].version = cell.version + 1]
    /\ UNCHANGED <<directory, journal, credential, provider, faults>>

PublishClosed(c) ==
    /\ At(c, "publishClosed")
    /\ \/ /\ directory.version = call[c].space
          /\ directory' = [directory EXCEPT !.lifecycle = "closed", !.version = call[c].version]
          /\ \/ call' = [call EXCEPT ![c] = [NoCall(c) EXCEPT !.pc = "keys", !.force = TRUE, !.space = call[c].version]]
                /\ UNCHANGED faults
             \/ Fault /\ call' = [call EXCEPT ![c] = NoCall(c)]
       \/ /\ directory.version # call[c].space
          /\ call' = [call EXCEPT ![c] = NoCall(c)]
          /\ UNCHANGED <<directory, faults>>
    /\ UNCHANGED <<cell, journal, credential, provider>>

(* A deletion, or one that failed, is asked for again. *)
Delete(c) ==
    /\ At(c, "idle")
    /\ directory.lifecycle = "closed" /\ cell.lifecycle # "active"
    /\ call' = [call EXCEPT ![c].pc = IF cell.lifecycle = "closed" THEN "keys" ELSE "list",
                            ![c].force = TRUE, ![c].space = directory.version]
    /\ UNCHANGED <<directory, cell, journal, credential, provider, faults>>

Keys(c) ==
    /\ At(c, "keys")
    /\ LET left == {i \in Issuers : "staged" \in credential[i] /\ "providerRevoked" \notin credential[i]}
       IN \/ \E i \in left : call' = [call EXCEPT ![c].pc = "revoke", ![c].at = i]
          \/ left = {} /\ Goto(c, "list")
    /\ UNCHANGED <<directory, cell, journal, credential, provider, faults>>

(* stateplane_purge_space; a deletion then settles the journal once more. *)
Purge(c) ==
    /\ At(c, "purge")
    /\ IF cell.lifecycle = "closed"
       THEN /\ credential' = [i \in Issuers |-> {}]
            /\ cell' = [lifecycle |-> "deleted", version |-> cell.version + 1]
            /\ Answered(c, "list")
       ELSE End(c, "idle") /\ UNCHANGED <<cell, credential, faults>>
    /\ UNCHANGED <<journal, provider>>

PublishDeleted(c) ==
    /\ At(c, "publishDeleted")
    /\ call' = [call EXCEPT ![c] = NoCall(c)]
    /\ directory' = IF directory.version = call[c].space
                    THEN [directory EXCEPT !.lifecycle = "deleted", !.version = cell.version]
                    ELSE directory
    /\ UNCHANGED <<cell, journal, credential, provider, faults>>

----------------------------------------------------------------------------
IssuerNext(i) ==
    \/ Claim(i, "own") \/ ReadSpace(i) \/ Reserve(i) \/ Create(i) \/ Check(i)
    \/ Learn(i) \/ Stage(i) \/ Grant(i) \/ Publish(i) \/ Activate(i) \/ Confirm(i)
    \/ ReadBack(i) \/ Complete(i) \/ Verify(i) \/ Recover(i) \/ RetryComplete(i) \/ Withdraw(i)
    \/ CancelOwn(i) \/ MarkFailed(i) \/ Find(i)

CleanerNext(c) ==
    \/ Claim(c, "own") \/ ListUnderLease(c) \/ List(c) \/ FindRow(c) \/ LearnRow(c) \/ RowsDone(c)
    \/ Repair(c) \/ Compare(c) \/ PublishClosed(c) \/ Keys(c) \/ Purge(c) \/ PublishDeleted(c)
    \/ \E i \in Issuers : CancelRow(c, i)

Shared(a) == FailKey(a) \/ RevokeAtProvider(a) \/ MarkCell(a) \/ MarkJournal(a)

Next ==
    \/ \E i \in Issuers : IssuerNext(i)
    \/ \E c \in Cleaners : CleanerNext(c) \/ Close(c) \/ Delete(c)
    \/ \E a \in Actors : Shared(a) \/ Fails(a) \/ Crash(a)
    \/ ExpireLease

Spec == Init /\ [][Next]_vars

----------------------------------------------------------------------------
(* Properties *)

(* Every variable holds what its row or object can hold, and the journal obeys
   its CHECK constraints: no update of this protocol is refused by them. *)
TypeOK ==
    /\ directory \in [lifecycle: Lifecycles, version: Nat, lease: Actors \union {None}, live: BOOLEAN]
    /\ cell \in [lifecycle: Lifecycles, version: Nat]
    /\ journal \in [Issuers -> SUBSET JournalColumns]
    /\ \A i \in Issuers :
         /\ "settled" \in journal[i] => journal[i] \intersect {"credential", "providerRevoked"} = {}
         /\ "completed" \in journal[i] => "credential" \in journal[i]
    /\ credential \in [Issuers -> SUBSET KeyColumns]
    /\ provider \in [Issuers -> {"none", "live", "revoked"}]
    /\ call \in [Actors -> Call]
    /\ faults \in 0 .. MaxFaults

(* A key that was answered stays usable until the space is closed: no reconciler
   that started before its completion, no later one and no expired claim takes
   it back. *)
AnsweredKeysStand ==
    \A i \in Issuers : call[i].pc = "answered" /\ cell.lifecycle = "active" =>
        /\ provider[i] = "live"
        /\ credential[i] = {"staged", "granted", "activated", "confirmed"}
        /\ "completed" \in journal[i] /\ "cancelled" \notin journal[i]

(* As long as a provider key lives its journal row is open, so that somebody can
   still find and revoke it: whatever failed, before or after its effect. *)
NoOrphans == \A i \in Issuers : provider[i] = "live" => "reserved" \in journal[i] /\ Open(i)

(* Denial removes the grants for good: a slow issuer never grants a key that was
   denied in the meantime. *)
GrantsFollowKeys == \A i \in Issuers : "granted" \in credential[i] => "revoked" \notin credential[i]

(* A key is activated only after the directory has seen the policy version of
   its grants. *)
ActiveMeansPublished ==
    \A i \in Issuers : "activated" \in credential[i] => directory.version >= call[i].version

(* A deletion is published only when no provider key of the space is left. *)
DeletedMeansRevoked ==
    directory.lifecycle = "deleted" => \A i \in Issuers : provider[i] # "live"

(* In the end no provider key is left of an issuance that failed or died before
   its completion. *)
RejectedKeysRevoked ==
    \A i \in Issuers :
        call[i].pc \in {"failed", "crashed"} /\ "completed" \notin journal[i] => provider[i] # "live"

----------------------------------------------------------------------------
(* The inductive invariant: a row tells no more than has happened at the
   provider, a key nobody denied has what its issuer has come to write, and a
   deletion has behind it what can no longer come to life. *)

(* The create of an issuance is behind it, or never comes. *)
Past(i) == call[i].pc \notin {"idle", "own", "reserve", "create"}

RowOK(i) ==
    /\ ~Past(i) => /\ journal[i] \subseteq {"reserved", "cancelled"}
                   /\ credential[i] = {} /\ provider[i] = "none"
    /\ call[i].pc = "create" => "reserved" \in journal[i]
    /\ provider[i] # "none" => "reserved" \in journal[i]
    /\ "credential" \in journal[i] => provider[i] # "none"
    /\ "providerRevoked" \in journal[i] \union credential[i] => provider[i] = "revoked"
    /\ "settled" \in journal[i] => provider[i] = "none"
    /\ "completed" \in journal[i] => "credential" \in journal[i]
    /\ credential[i] # {} => "staged" \in credential[i] /\ provider[i] # "none"
    /\ "granted" \in credential[i] => "revoked" \notin credential[i]
    /\ "activated" \in credential[i] => directory.version >= call[i].version

(* No key lives, and none will. *)
Gone(i) ==
    \/ provider[i] = "revoked"
    \/ provider[i] = "none" /\ (Past(i) \/ "reserved" \notin journal[i])

(* Where an issuer goes on, from the key it made to its answer; and what it has
   written of the credential by then. *)
Learned == (Steps \ {"learn"}) \union {"readActivation", "readConfirmation", "complete", "verify",
                                       "recover", "retry", "verifyRetry", "withdraw"}
Going == Learned \union {"learn", "answered"}

Activating == {"activate", "readActivation", "confirm", "readConfirmation", "complete", "verify",
               "recover", "retry", "verifyRetry", "withdraw"}

Grown(pc) ==
    LET granted == {"staged", "granted"}
        active == granted \union {"activated"}
        full == active \union {"confirmed"}
    IN CASE pc \in {"learn", "stage"} -> {{}}
         [] pc = "grant" -> {{"staged"}}
         [] pc \in {"publish", "activate"} -> {granted}
         [] pc = "readActivation" -> {granted, active}
         [] pc = "confirm" -> {active}
         [] pc = "readConfirmation" -> {active, full}
         [] OTHER -> {full}

(* Nobody but its issuer touches a key before the row is cancelled, or the space closed. *)
Untouched(i) ==
    cell.lifecycle = "active" /\ call[i].pc \in Going =>
      /\ "cancelled" \notin journal[i] =>
           /\ provider[i] = "live" /\ "providerRevoked" \notin journal[i]
           /\ credential[i] \in Grown(call[i].pc)
      /\ call[i].pc = "answered" => "cancelled" \notin journal[i] /\ "completed" \in journal[i]

(* The directory as it was read is the directory as it is, or an earlier one. *)
ReadBefore(a) ==
    /\ call[a].space <= directory.version
    /\ call[a].space = directory.version => directory.lifecycle = "active"

IssuerOK(i) ==
    /\ call[i].pc \in Over \union Going \union
         {"own", "reserve", "create", "cancel", "markFailed", "find", "revokeFound", "journalFound",
          "failKey", "revoke", "markCell", "markJournal", "fallback", "fallbackJournal"}
    /\ call[i].at = i
    /\ call[i].pc \in Learned => "credential" \in journal[i]
    /\ call[i].pc \in {"learn", "failKey", "revoke", "revokeFound", "fallback"} => provider[i] # "none"
    /\ call[i].pc = "cancel" /\ ~call[i].failed => provider[i] # "none"
    /\ call[i].pc \in {"journalFound", "markCell", "markJournal", "fallbackJournal"} => provider[i] = "revoked"
    /\ call[i].pc \in {"learn", "stage"} => credential[i] = {}
    /\ call[i].pc \in {"reserve", "create", "learn", "stage", "grant", "publish"} => ReadBefore(i)
    /\ call[i].pc = "grant" =>
         /\ "activated" \notin credential[i]
         /\ "staged" \in credential[i] \/ cell.lifecycle # "active"
         /\ "revoked" \in credential[i] => cell.version > call[i].space
    /\ call[i].pc = "publish" =>
         /\ call[i].space < call[i].version /\ call[i].version <= cell.version
         /\ call[i].version = cell.version => cell.lifecycle = "active"
    /\ call[i].pc \in Activating => directory.version >= call[i].version

AtRow == {"findRow", "learnRow", "failRow", "revokeRow", "journalRow", "cellRow"}

CleanerOK(c) ==
    /\ call[c].pc \in {"idle", "own", "list", "rows", "repair", "revoke", "markCell", "markJournal",
                       "compare", "publishClosed", "keys", "purge", "publishDeleted"} \union AtRow
    /\ call[c].pc \in AtRow \union {"revoke", "markCell", "markJournal"} => call[c].at \in Issuers
    /\ call[c].pc \in AtRow => "cancelled" \in journal[call[c].at]
    /\ \A i \in call[c].known : "credential" \in journal[i]
    /\ \A i \in call[c].noKey : "createFailed" \in journal[i]
    /\ call[c].pc \in {"learnRow", "failRow", "revokeRow", "revoke"} => provider[call[c].at] # "none"
    /\ call[c].pc \in {"journalRow", "cellRow", "markCell", "markJournal"} => provider[call[c].at] = "revoked"
    /\ call[c].pc = "revoke" => "revoked" \in credential[call[c].at] \/ cell.lifecycle # "active"
    /\ call[c].pc \in {"keys", "purge", "publishDeleted"} => call[c].force
    /\ call[c].force => cell.lifecycle # "active" /\ directory.lifecycle # "active"
    /\ call[c].pc = "publishClosed" =>
         /\ ReadBefore(c) /\ call[c].space < call[c].version /\ call[c].version <= cell.version
         /\ cell.lifecycle # "active" /\ (call[c].version = cell.version => cell.lifecycle = "closed")
    /\ call[c].force /\ call[c].pc \in AtRow \union {"rows", "publishDeleted"} =>
         \A i \in Issuers : Gone(i) \/ i \in call[c].todo \/ (call[c].pc \in AtRow /\ i = call[c].at)
    /\ call[c].pc = "publishDeleted" => cell.lifecycle = "deleted" /\ call[c].todo = {}

(* The directory shows what the cell had, and a space deleted there has no key. *)
Shown ==
    /\ directory.version <= cell.version
    /\ directory.version = cell.version => directory.lifecycle = cell.lifecycle
    /\ directory.lifecycle # "active" => cell.lifecycle # "active"
    /\ directory.lifecycle = "deleted" => cell.lifecycle = "deleted" /\ \A i \in Issuers : Gone(i)

Inv ==
    /\ TypeOK /\ Shown
    /\ \A i \in Issuers : RowOK(i) /\ IssuerOK(i) /\ Untouched(i)
    /\ \A c \in Cleaners : CleanerOK(c)
=============================================================================
