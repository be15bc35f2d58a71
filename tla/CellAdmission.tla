---------------------------- MODULE CellAdmission ----------------------------
(***************************************************************************)
(* A cell's admission of routed requests (packages/postgres/src/           *)
(* cell-policy.ts): the nonce of a routing assertion is consumed in a      *)
(* transaction of its own, then the application's callback runs inside a   *)
(* transaction that holds the space's policy, its joined calls each        *)
(* recheck it, and one last fence comes before COMMIT.                     *)
(*                                                                         *)
(* Workers' clocks and the request's time budget may refuse a request at   *)
(* any step (Refuse): what must never happen rests on the database's clock *)
(* and locks alone.                                                        *)
(***************************************************************************)
EXTENDS Integers, FiniteSets

CONSTANTS Requests,     \* requests, each presenting an assertion
          AssertionOf,  \* the assertion a request presents
          AssertEnds,   \* when each assertion expires
          KeyEnds,      \* when the credential and its grant expire
          Calls,        \* joined calls a callback may make: 1 .. their bound
          MaxTime, MaxVersion   \* bounds

AdmissionAssumption ==
    /\ AssertionOf \in [Requests -> DOMAIN AssertEnds]
    /\ \A a \in DOMAIN AssertEnds : AssertEnds[a] \in Nat
    /\ KeyEnds \in Nat /\ MaxTime \in Nat /\ MaxVersion \in Nat \ {0}
    /\ Calls \subseteq Nat /\ IsFiniteSet(Calls)

VARIABLES db,        \* the database's clock
          version,   \* the space's policy version: assertions are issued for 1
          life,      \* the space's lifecycle
          provider,  \* whether the provider still knows the credential
          nonces,    \* the assertions whose committed nonce is in the table
          gone,      \* the nonces a request's open transaction has pruned
          added,     \* the requests whose open transaction has inserted theirs
          req,       \* the requests: step, answer, instant of the fence
          calls,     \* the joined calls: state, kind, the call a callback awaits
          entered, committed   \* history: who reached its callback, what took effect

vars == <<db, version, life, provider, nonces, gone, added, req, calls, entered, committed>>
policy == <<db, version, life, provider>>
table == <<nonces, gone, added>>
history == <<entered, committed>>

Assertions == DOMAIN AssertEnds
Lifecycles == {"active", "readOnly", "suspended", "deleted"}
Open == {"active", "readOnly"}
Steps == {"idle", "prune", "eligible", "insert", "nonce", "begin", "inside", "settling",
          "fence", "commit", "done"}
CallStates == {"none", "queued", "working", "ok", "failed"}
NoCall == [state |-> "none", kind |-> "records", awaits |-> 0]

TypeOK ==
    /\ db \in 0 .. MaxTime /\ version \in 1 .. MaxVersion /\ life \in Lifecycles /\ provider \in BOOLEAN
    /\ nonces \subseteq Assertions
    /\ gone \in [Requests -> SUBSET nonces]
    /\ \A q, r \in Requests : q # r => gone[q] \cap gone[r] = {}
    /\ added \subseteq {r \in Requests : req[r].pc = "nonce"}
    /\ req \in [Requests -> [pc : Steps, answer : {"none", "ok", "refused", "unknown"}, fenced : 0 .. MaxTime]]
    /\ calls \in [Requests -> [Calls -> [state : CallStates, kind : {"records", "effect"}, awaits : Calls \cup {0}]]]
    /\ entered \subseteq Requests /\ committed \subseteq Requests

Init ==
    /\ db = 0 /\ version = 1 /\ life \in Open /\ provider = TRUE
    /\ nonces = {} /\ gone = [r \in Requests |-> {}] /\ added = {}
    /\ req = [r \in Requests |-> [pc |-> "idle", answer |-> "none", fenced |-> 0]]
    /\ calls = [r \in Requests |-> [i \in Calls |-> NoCall]]
    /\ entered = {} /\ committed = {}

-----------------------------------------------------------------------------
At(r, step) == req[r].pc = step
Go(r, step) == req' = [req EXCEPT ![r].pc = step]
Answer(r, a) == req' = [req EXCEPT ![r].pc = "done", ![r].answer = a]

(* The assertion, the space's policy and the credential stand at this instant. *)
Routable == version = 1 /\ life \in Open
Timely(r) == db < AssertEnds[AssertionOf[r]] /\ db < KeyEnds
InForce(r) == Routable /\ Timely(r) /\ provider

(* Wrong: the first check's row locks are not kept. *)
HoldsNonceOnly(r) == req[r].pc \in {"insert", "nonce"}

(* Who holds the space's row shared, so that its policy cannot change. *)
HoldsPolicy(r) == req[r].pc \in {"insert", "nonce", "inside", "settling", "fence", "commit"}
Held == {r \in Requests : HoldsPolicy(r)}

(* An open nonce transaction is undone. *)
Undo(r) ==
    /\ gone' = [gone EXCEPT ![r] = {}]
    /\ added' = added \ {r}

-----------------------------------------------------------------------------
(* consume *)
Begin(r) ==
    /\ At(r, "idle") /\ Go(r, "prune")
    /\ UNCHANGED <<policy, table, calls, history>>

(* Wrong: the pruning Worker's clock runs ahead of the database's. *)
PrunableEarly == {n \in nonces : AssertEnds[n] <= db + 1} \ UNION {gone[q] : q \in Requests}

(* Expired nonces are deleted, those another transaction has locked skipped. *)
Prunable == {n \in nonces : AssertEnds[n] <= db} \ UNION {gone[q] : q \in Requests}

Prune(r) ==
    /\ At(r, "prune") /\ Go(r, "eligible")
    /\ \E rows \in SUBSET Prunable : gone' = [gone EXCEPT ![r] = rows]
    /\ UNCHANGED <<policy, nonces, added, calls, history>>

Eligible(r) ==
    /\ At(r, "eligible")
    /\ Go(r, IF Routable /\ db < AssertEnds[AssertionOf[r]] THEN "insert" ELSE "nonce")
    /\ UNCHANGED <<policy, table, calls, history>>

(* The key makes the insertion wait for another transaction's write of the same nonce. *)
Insert(r) ==
    LET n == AssertionOf[r]
    IN  /\ At(r, "insert") /\ Go(r, "nonce")
        /\ \A q \in Requests \ {r} : n \notin gone[q] /\ ~(q \in added /\ AssertionOf[q] = n)
        /\ added' = IF n \in nonces THEN added ELSE added \cup {r}
        /\ UNCHANGED <<policy, nonces, gone, calls, history>>

CommitNonce(r) ==
    LET after == (nonces \ gone[r]) \cup {AssertionOf[q] : q \in added \cap {r}}
    IN  /\ At(r, "nonce")
        /\ \/ nonces' = after /\ IF r \in added THEN Go(r, "begin") ELSE Answer(r, "refused")
           \/ nonces' \in {nonces, after} /\ Answer(r, "unknown")
        /\ Undo(r) /\ UNCHANGED <<policy, calls, history>>

(* cleanupExpiredNonces, outside any request *)
Cleanup ==
    /\ \E rows \in SUBSET Prunable : rows # {} /\ nonces' = nonces \ rows
    /\ UNCHANGED <<policy, gone, added, req, calls, history>>

-----------------------------------------------------------------------------
(* run: the effect's transaction takes the policy's row locks and enters the callback. *)
Enter(r) ==
    /\ At(r, "begin") /\ InForce(r)
    /\ Go(r, "inside") /\ entered' = entered \cup {r}
    /\ UNCHANGED <<policy, table, calls, committed>>

Settled(r, i) == calls[r][i].state \in {"none", "ok", "failed"}
Unissued(r) == {i \in Calls : calls[r][i].state = "none" /\ \A j \in Calls : j < i => calls[r][j].state # "none"}

(* The callback makes a joined call, without waiting for those before it. *)
Issue(r) ==
    /\ At(r, "inside")
    /\ \E i \in Unissued(r), kind \in {"records", "effect"} :
         calls' = [calls EXCEPT ![r][i] = [state |-> "queued", kind |-> kind, awaits |-> 0]]
    /\ UNCHANGED <<policy, table, req, history>>

(* A records callback makes a call and awaits it; a records call inside one is rejected at once. *)
Nestable == {"effect"}

IssueNested(r) ==
    /\ At(r, "inside")
    /\ \E i \in Calls, j \in Unissued(r), kind \in Nestable :
         /\ calls[r][i].state = "working" /\ calls[r][i].kind = "records" /\ calls[r][i].awaits = 0
         /\ calls' = [calls EXCEPT ![r][i].awaits = j,
                                   ![r][j] = [state |-> "queued", kind |-> kind, awaits |-> 0]]
    /\ UNCHANGED <<policy, table, req, history>>

(* Records calls run one after another; a write effect needs an active space. *)
InTurn(r, i) ==
    calls[r][i].kind = "records" => \A j \in Calls : j < i /\ calls[r][j].kind = "records" => Settled(r, j)
Admits(r, i) ==
    At(r, "inside") /\ InForce(r) /\ (calls[r][i].kind = "effect" => life = "active")

StartCall(r) ==
    /\ \E i \in Calls :
         /\ calls[r][i].state = "queued" /\ InTurn(r, i)
         /\ calls' = [calls EXCEPT ![r][i].state = IF Admits(r, i) THEN "working" ELSE "failed"]
    /\ req[r].pc \in {"inside", "settling"}
    /\ UNCHANGED <<policy, table, req, history>>

EndCall(r) ==
    /\ \E i \in Calls :
         /\ calls[r][i].state = "working"
         /\ calls[r][i].awaits # 0 => Settled(r, calls[r][i].awaits)
         /\ calls' = [calls EXCEPT ![r][i].state = IF Admits(r, i) THEN "ok" ELSE "failed"]
    /\ req[r].pc \in {"inside", "settling"}
    /\ UNCHANGED <<policy, table, req, history>>

(* The callback returns, with or without having awaited its calls. *)
Return(r) ==
    /\ At(r, "inside") /\ Go(r, "settling")
    /\ UNCHANGED <<policy, table, calls, history>>

AllSettled(r) == \A i \in Calls : Settled(r, i)

Whole(r) == \A i \in Calls : calls[r][i].state \in {"none", "ok"}

Settle(r) ==
    /\ At(r, "settling") /\ AllSettled(r)
    /\ IF Whole(r) THEN Go(r, "fence") ELSE Answer(r, "refused")
    /\ UNCHANGED <<policy, table, calls, history>>

(* finishJoined and fenceCommit: everything stands at one database instant. *)
Fence(r) ==
    /\ At(r, "fence") /\ InForce(r)
    /\ req' = [req EXCEPT ![r].pc = "commit", ![r].fenced = db]
    /\ UNCHANGED <<policy, table, calls, history>>

(* COMMIT: a constraint may refuse it, its answer may be lost. *)
Commit(r) ==
    /\ At(r, "commit")
    /\ \/ committed' = committed \cup {r} /\ Answer(r, "ok")
       \/ committed' \in {committed, committed \cup {r}} /\ Answer(r, "unknown")
       \/ committed' = committed /\ Answer(r, "refused")
    /\ UNCHANGED <<policy, table, calls, entered>>

(* A check fails, a Worker's clock or the time budget says no, a statement fails: rolled back. *)
Refuse(r) ==
    /\ ~At(r, "idle") /\ ~At(r, "done") /\ Answer(r, "refused")
    /\ Undo(r) /\ UNCHANGED <<policy, nonces, calls, history>>

-----------------------------------------------------------------------------
(* The owner changes the space's lifecycle or revokes a key: each raises the policy version. *)
ChangePolicy ==
    /\ Held = {} /\ version < MaxVersion
    /\ version' = version + 1 /\ life' \in Lifecycles
    /\ UNCHANGED <<db, provider, table, req, calls, history>>

ForgetCredential ==
    /\ provider /\ provider' = FALSE
    /\ UNCHANGED <<db, version, life, table, req, calls, history>>

Tick ==
    /\ db < MaxTime /\ db' = db + 1
    /\ UNCHANGED <<version, life, provider, table, req, calls, history>>

Finished == (\A r \in Requests : At(r, "done")) /\ UNCHANGED vars

CallStep(r) == StartCall(r) \/ EndCall(r)

Step(r) ==
    \/ Begin(r) \/ Prune(r) \/ Eligible(r) \/ Insert(r) \/ CommitNonce(r)
    \/ Enter(r) \/ Issue(r) \/ IssueNested(r) \/ StartCall(r) \/ EndCall(r) \/ Return(r)
    \/ Settle(r) \/ Fence(r) \/ Commit(r) \/ Refuse(r)

Next ==
    \/ \E r \in Requests : Step(r)
    \/ Cleanup \/ ChangePolicy \/ ForgetCredential \/ Tick \/ Finished

Spec == Init /\ [][Next]_vars

-----------------------------------------------------------------------------
(* An assertion enters at most one callback, however often it is presented    *)
(* and however its nonce's row comes and goes.                                *)
EnteredOnce == \A q, r \in entered : AssertionOf[q] = AssertionOf[r] => q = r

(* The nonce of an assertion that entered stays until the assertion's end.    *)
SpentStays == \A r \in entered : db < AssertEnds[AssertionOf[r]] => AssertionOf[r] \in nonces

(* While a callback runs and until its COMMIT, the space keeps the policy its *)
(* assertion names, whatever its owner does meanwhile.                        *)
InsideMeansAllowed ==
    \A r \in Requests : req[r].pc \in {"inside", "settling", "fence", "commit"} => Routable

(* An effect that commits had every joined call succeed, and was fenced while *)
(* its assertion and its credential stood.                                    *)
CommitsWhole ==
    \A r \in committed :
        /\ r \in entered
        /\ \A i \in Calls : calls[r][i].state \in {"none", "ok"}
        /\ req[r].fenced < AssertEnds[AssertionOf[r]] /\ req[r].fenced < KeyEnds

(* A refused request had no effect; a successful one had.                     *)
AnswersTell ==
    \A r \in Requests :
        /\ req[r].answer = "refused" => r \notin committed
        /\ req[r].answer = "ok" => r \in committed

(* An assertion enters one callback at most, though its nonce may be pruned   *)
(* and inserted again; until it ends the nonce of one that entered stays.     *)
AssertionsSpentOnce == EnteredOnce /\ SpentStays

(* What commits was allowed throughout, whole and fenced in time, and answers *)
(* tell what committed.                                                       *)
AdmissionsHold == TypeOK /\ InsideMeansAllowed /\ CommitsWhole /\ AnswersTell

(* No joined call waits for ever on another, without the time budget's help.  *)
CallsSettle ==
    \A r \in Requests, i \in Calls :
        calls[r][i].state \in {"queued", "working"} => At(r, "done")
=============================================================================
