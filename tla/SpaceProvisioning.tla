-------------------------- MODULE SpaceProvisioning --------------------------
(***************************************************************************)
(* Creation of a space under one ID: the reservation in the control        *)
(* directory, the row in the cell, the publication, an owner's retry with  *)
(* the same ID, and the recovery an owner's listing does once the          *)
(* reservation's claim has ended (packages/postgres/src/spaces.ts).        *)
(*                                                                         *)
(* The directory and the cell are two databases unless Shared: a creator   *)
(* then writes both in one transaction.  Every statement that is its own   *)
(* transaction, and every COMMIT, may lose its answer.                     *)
(***************************************************************************)
EXTENDS Integers, FiniteSets

CONSTANTS Creators,     \* calls of create with the modelled ID
          Listers,      \* owners' listings that recover reservations
          OwnerOf,      \* the owner a call or a listing acts for
          Settings,     \* how the service may be deployed and called
          Lease,        \* ticks a reservation is claimed
          Nobody        \* no owner, no transaction

ProvisioningAssumption ==
    /\ OwnerOf \in [Creators \cup Listers -> {OwnerOf[a] : a \in Creators \cup Listers}]
    /\ Creators \cap Listers = {}
    /\ Nobody \notin Creators \cup Listers \cup {OwnerOf[a] : a \in Creators \cup Listers}
    /\ Settings \subseteq [callers : SUBSET Creators, selected : BOOLEAN, shared : BOOLEAN, breaks : BOOLEAN,
                           clock : Nat, faults : Nat]
    /\ Lease \in Nat

VARIABLES dir,      \* the directory row: lifecycle, owner, end of its claim
          cell,     \* the owner of the cell's committed row
          lock,     \* who holds the directory row's lock
          cellTx,   \* whose open transaction has inserted the cell's row
          st,       \* the calls: step, error on its way out, answer
          lister,   \* the listings: step and what it will write
          broken,   \* the calls whose control connection is lost
          live,     \* the owners whose session is current
          now,      \* the control database's clock
          faults,
          setting   \* the deployment and its callers: it never changes

vars == <<dir, cell, lock, cellTx, st, lister, broken, live, now, faults, setting>>
rows == <<dir, cell>>
world == <<live, now, setting>>

Selected == setting.selected    \* whether the callers chose the ID
Shared == setting.shared        \* whether the cell's pool is the control's
LinksBreak == setting.breaks    \* whether a control connection may be lost alone
MaxTime == setting.clock        \* bounds: the clock runs on only to end a claim
MaxFaults == setting.faults

Accounts == {OwnerOf[a] : a \in setting.callers \cup Listers}
Lifecycles == {"absent", "provisioning", "active", "deleted"}
Errors == {"none", "stale", "forbidden", "error", "unknown"}
Answers == Errors \cup {"info", "conflict"}
Steps == {"idle", "insert", "lock", "cell", "commitCell", "commitDir", "publish", "readBack",
          "recover", "resume", "resumeRead", "resumeCell", "resumeCommitCell", "resumeCommit", "done"}

TypeOK ==
    /\ setting \in Settings
    /\ dir \in [life : Lifecycles, owner : Accounts \cup {Nobody}, until : 0 .. MaxTime + Lease]
    /\ dir.until # 0 => dir.life = "provisioning"
    /\ cell \in Accounts \cup {Nobody}
    /\ lock \in Creators \cup Listers \cup {Nobody}
    /\ cellTx \in Creators \cup {Nobody}
    /\ st \in [Creators -> [pc : Steps, err : Errors, answer : Answers]]
    /\ lister \in [Listers -> {"idle", "met", "read", "active", "deleted"}]
    /\ broken \subseteq Creators
    /\ live \subseteq Accounts
    /\ now \in 0 .. MaxTime + Lease
    /\ faults \in 0 .. MaxFaults

Init ==
    /\ dir = [life |-> "absent", owner |-> Nobody, until |-> 0]
    /\ cell = Nobody /\ lock = Nobody /\ cellTx = Nobody
    /\ st = [c \in Creators |-> [pc |-> "idle", err |-> "none", answer |-> "none"]]
    /\ lister = [l \in Listers |-> "idle"]
    /\ setting \in Settings
    /\ broken = {} /\ live = Accounts /\ now = 0 /\ faults = 0

-----------------------------------------------------------------------------
At(c, step) == st[c].pc = step
Mine(c) == dir.owner = OwnerOf[c]
Current(c) == OwnerOf[c] \in live

Go(c, step) == st' = [st EXCEPT ![c].pc = step]
Fail(c, e) == st' = [st EXCEPT ![c].pc = "recover", ![c].err = e]
Answer(c, a) == st' = [st EXCEPT ![c].pc = "done", ![c].answer = a]
Give(c) == Answer(c, IF Current(c) THEN "info" ELSE "forbidden")

(* A call's transactions end: what they did not commit is undone. *)
Release(c) ==
    /\ lock' = IF lock = c THEN Nobody ELSE lock
    /\ cellTx' = IF cellTx = c THEN Nobody ELSE cellTx
Keep == UNCHANGED <<lock, cellTx>>

Fault == faults < MaxFaults /\ faults' = faults + 1
NoFault == UNCHANGED faults

(* What a call answers when its recovery found nothing to return. *)
Thrown(c) ==
    LET e == st[c].err
    IN  IF Selected /\ e \notin {"stale", "forbidden"} THEN "unknown" ELSE e

(* What the directory row tells a call that selected its ID. *)
Found(c, otherwise) ==
    CASE dir.life = "absent" -> otherwise
      [] dir.life # "absent" /\ (~Mine(c) \/ dir.life = "deleted") -> Answer(c, "conflict")
      [] Mine(c) /\ dir.life = "provisioning" -> Go(c, "resume")
      [] Mine(c) /\ dir.life = "active" -> Give(c)

-----------------------------------------------------------------------------
(* create and reserveCreatedCell *)
Begin(c) ==
    /\ At(c, "idle") /\ c \in setting.callers
    /\ \/ ~Current(c) /\ Answer(c, "forbidden") /\ NoFault
       \/ Current(c) /\ ~Selected /\ Go(c, "insert") /\ NoFault
       \/ Current(c) /\ Selected /\ Found(c, Go(c, "insert")) /\ NoFault
       \/ Current(c) /\ Selected /\ Fault /\ Answer(c, "error")
    /\ Keep /\ UNCHANGED <<rows, world, lister, broken>>

Reservation(c) == [life |-> "provisioning", owner |-> OwnerOf[c], until |-> now + Lease]

Insert(c) ==
    /\ At(c, "insert")
    /\ \/ ~Current(c) /\ Fail(c, "forbidden") /\ NoFault /\ UNCHANGED dir
       \/ Current(c) /\ dir.life # "absent" /\ Fail(c, "error") /\ NoFault /\ UNCHANGED dir
       \/ /\ Current(c) /\ dir.life = "absent"
          /\ \/ dir' = Reservation(c) /\ Go(c, "lock") /\ NoFault
             \/ dir' \in {dir, Reservation(c)} /\ Fail(c, "error") /\ Fault
    /\ Keep /\ UNCHANGED <<cell, world, lister, broken>>

(* Wrong: the lock is taken without looking at what it locks. *)
LockBlind(c) ==
    /\ At(c, "lock") /\ lock = Nobody
    /\ lock' = c /\ Go(c, "cell")
    /\ NoFault /\ UNCHANGED <<rows, cellTx, world, lister, broken>>

Lock(c) ==
    /\ At(c, "lock") /\ lock = Nobody
    /\ IF Mine(c) /\ dir.life = "provisioning"
       THEN lock' = c /\ Go(c, "cell")
       ELSE lock' = lock /\ Fail(c, "stale")
    /\ NoFault /\ UNCHANGED <<rows, cellTx, world, lister, broken>>

(* A recovery keeps the first error of its call but for a few; a first call throws its own. *)
ResumeFailed(c, e) ==
    Answer(c, IF st[c].err = "none" \/ e \in {"conflict", "forbidden"} THEN e ELSE Thrown(c))
Failed(c, resuming, e) == IF resuming THEN ResumeFailed(c, e) ELSE Fail(c, e)

(* insertCreatedCell; the cell's key makes it wait for another insertion. *)
InsertCell(c, step, after, resuming) ==
    /\ At(c, step) /\ cellTx = Nobody
    /\ \/ Current(c) /\ cell = Nobody /\ ~(Shared /\ c \in broken)
          /\ cellTx' = c /\ lock' = lock /\ Go(c, after)
       \/ ~Current(c) /\ Release(c) /\ Failed(c, resuming, "forbidden")
       \/ Current(c) /\ (cell # Nobody \/ (Shared /\ c \in broken)) /\ Release(c) /\ Failed(c, resuming, "error")
    /\ NoFault /\ UNCHANGED <<rows, world, lister, broken>>

CreateCell(c) == InsertCell(c, "cell", IF Shared THEN "commitDir" ELSE "commitCell", FALSE)

(* The cell's own transaction commits; without its answer the directory's is rolled back. *)
CommitCellTx(c, step, after, resuming) ==
    /\ At(c, step)
    /\ \/ /\ Current(c)
          /\ cell' = OwnerOf[c] /\ cellTx' = Nobody /\ lock' = lock
          /\ Go(c, after) /\ NoFault
       \/ /\ Current(c) /\ Fault
          /\ cell' \in {cell, OwnerOf[c]}
          /\ Release(c) /\ Failed(c, resuming, "unknown")
       \/ ~Current(c) /\ cell' = cell /\ Release(c) /\ Failed(c, resuming, "forbidden") /\ NoFault
    /\ UNCHANGED <<dir, world, lister, broken>>

CommitCell(c) == CommitCellTx(c, "commitCell", "commitDir", FALSE)

(* With a shared pool this COMMIT is the cell's too, after a last check of the session. *)
CommitDir(c) ==
    /\ At(c, "commitDir")
    /\ \/ /\ c \notin broken /\ (~Shared \/ Current(c))
          /\ cell' = IF Shared THEN OwnerOf[c] ELSE cell
          /\ Go(c, "publish") /\ NoFault
       \/ /\ c \notin broken /\ (~Shared \/ Current(c)) /\ Fault
          /\ cell' \in (IF Shared THEN {cell, OwnerOf[c]} ELSE {cell})
          /\ Fail(c, "unknown")
       \/ c \in broken /\ (~Shared \/ Current(c)) /\ cell' = cell /\ Fail(c, "unknown") /\ NoFault
       \/ Shared /\ ~Current(c) /\ cell' = cell /\ Fail(c, "forbidden") /\ NoFault
    /\ Release(c) /\ UNCHANGED <<dir, world, lister, broken>>

Published == [dir EXCEPT !.life = "active", !.until = 0]

(* Once the publication is sent, only the directory's row can tell the outcome. *)
Publish(c) ==
    /\ At(c, "publish")
    /\ \/ ~Current(c) /\ Fail(c, "forbidden") /\ NoFault /\ UNCHANGED dir
       \/ /\ Current(c) /\ lock = Nobody
          /\ \/ dir.life = "provisioning" /\ dir' = Published /\ NoFault
                /\ Give(c)
             \/ dir.life = "provisioning" /\ dir' \in {dir, Published} /\ Go(c, "readBack") /\ Fault
             \/ dir.life # "provisioning" /\ Go(c, "readBack") /\ NoFault /\ UNCHANGED dir
    /\ Keep /\ UNCHANGED <<cell, world, lister, broken>>

(* reconcilePublishedCreate *)
ReadBack(c) ==
    /\ At(c, "readBack")
    /\ \/ Fault /\ Answer(c, "unknown")
       \/ NoFault /\ dir.life = "active" /\ Mine(c) /\ Give(c)
       \/ NoFault /\ ~(dir.life = "active" /\ Mine(c)) /\ Answer(c, "unknown")
    /\ Keep /\ UNCHANGED <<rows, world, lister, broken>>

(* recoverFailedCreate *)
RecoverFailed(c) ==
    /\ At(c, "recover")
    /\ \/ ~Selected /\ Answer(c, Thrown(c)) /\ NoFault
       \/ Selected /\ Found(c, Answer(c, Thrown(c))) /\ NoFault
       \/ Selected /\ Answer(c, Thrown(c)) /\ Fault
    /\ Keep /\ UNCHANGED <<rows, world, lister, broken>>

-----------------------------------------------------------------------------
(* resumeCreatedCell *)
ResumeLock(c) ==
    /\ At(c, "resume") /\ lock = Nobody
    /\ \/ ~Current(c) /\ ResumeFailed(c, "forbidden") /\ UNCHANGED lock
       \/ Current(c) /\ (dir.life = "deleted" \/ ~Mine(c)) /\ ResumeFailed(c, "conflict") /\ UNCHANGED lock
       \/ Current(c) /\ dir.life = "active" /\ Give(c) /\ UNCHANGED lock
       \/ Current(c) /\ dir.life = "provisioning" /\ lock' = c /\ Go(c, "resumeRead")
    /\ broken' = broken \ {c}
    /\ NoFault /\ UNCHANGED <<rows, cellTx, world, lister>>

ResumeRead(c) ==
    /\ At(c, "resumeRead")
    /\ \/ cell = Nobody /\ Go(c, "resumeCell") /\ Keep
       \/ cell = OwnerOf[c] /\ Go(c, "resumeCommit") /\ Keep
       \/ cell \notin {Nobody, OwnerOf[c]} /\ ResumeFailed(c, "stale") /\ Release(c)
    /\ NoFault /\ UNCHANGED <<rows, world, lister, broken>>

ResumeCell(c) == InsertCell(c, "resumeCell", IF Shared THEN "resumeCommit" ELSE "resumeCommitCell", TRUE)

ResumeCommitCell(c) == CommitCellTx(c, "resumeCommitCell", "resumeCommit", TRUE)

(* The directory's transaction publishes and commits, with the cell's row when the pool is shared. *)
ResumeCommit(c) ==
    LET inserted == IF cellTx = c THEN OwnerOf[c] ELSE cell
    IN  /\ At(c, "resumeCommit")
        /\ \/ /\ Current(c) /\ c \notin broken
              /\ dir' = Published /\ cell' = inserted
              /\ Give(c) /\ NoFault
           \/ /\ Current(c) /\ c \notin broken /\ Fault
              /\ \/ dir' = Published /\ cell' = inserted
                 \/ UNCHANGED rows
              /\ ResumeFailed(c, "unknown")
           \/ ~Current(c) /\ ResumeFailed(c, "forbidden") /\ NoFault /\ UNCHANGED rows
           \/ Current(c) /\ c \in broken /\ ResumeFailed(c, "error") /\ NoFault /\ UNCHANGED rows
        /\ Release(c) /\ UNCHANGED <<world, lister, broken>>

-----------------------------------------------------------------------------
(* A listing meets a pending row of its owner; recoverProvisioning then locks and re-reads it. *)
Meet(l) ==
    /\ lister[l] = "idle" /\ Current(l) /\ Mine(l) /\ dir.life = "provisioning"
    /\ lister' = [lister EXCEPT ![l] = "met"]
    /\ NoFault /\ Keep /\ UNCHANGED <<rows, st, world, broken>>

Abandoned == dir.life = "provisioning" /\ dir.until <= now

Recover(l) ==
    /\ lister[l] = "met" /\ lock = Nobody
    /\ lister' = [lister EXCEPT ![l] = IF Abandoned THEN "read" ELSE "idle"]
    /\ lock' = IF Abandoned THEN l ELSE lock
    /\ NoFault /\ UNCHANGED <<rows, cellTx, st, world, broken>>

RecoverRead(l) ==
    /\ lister[l] = "read"
    /\ IF cell \in {Nobody, dir.owner}
       THEN /\ lister' = [lister EXCEPT ![l] = IF cell = Nobody THEN "deleted" ELSE "active"]
            /\ lock' = lock
       ELSE lister' = [lister EXCEPT ![l] = "idle"] /\ lock' = Nobody
    /\ NoFault /\ UNCHANGED <<rows, cellTx, st, world, broken>>

RecoverCommit(l) ==
    LET settled == [dir EXCEPT !.life = lister[l], !.until = 0]
    IN  /\ lister[l] \in {"active", "deleted"}
        /\ \/ dir' = settled /\ NoFault
           \/ dir' \in {dir, settled} /\ Fault
        /\ lock' = Nobody /\ lister' = [lister EXCEPT ![l] = "idle"]
        /\ UNCHANGED <<cell, cellTx, st, world, broken>>

-----------------------------------------------------------------------------
(* A call's process stops; its open transactions are rolled back. *)
Crash(c) ==
    /\ ~At(c, "done") /\ ~At(c, "idle") /\ Fault
    /\ Answer(c, "unknown") /\ Release(c)
    /\ UNCHANGED <<rows, world, lister, broken>>

(* The control connection alone is lost: its lock goes, and the call does not see it yet. *)
LoseLink(c) ==
    /\ LinksBreak /\ lock = c /\ Fault
    /\ broken' = broken \cup {c} /\ lock' = Nobody
    /\ cellTx' = IF Shared /\ cellTx = c THEN Nobody ELSE cellTx
    /\ UNCHANGED <<rows, st, world, lister>>

EndSession(o) ==
    /\ o \in live /\ live' = live \ {o}
    /\ UNCHANGED <<rows, lock, cellTx, st, lister, broken, now, faults, setting>>

Tick ==
    /\ now < MaxTime \/ now < dir.until
    /\ now' = now + 1
    /\ UNCHANGED <<rows, lock, cellTx, st, lister, broken, live, faults, setting>>

Finished ==
    /\ \A c \in setting.callers : At(c, "done")
    /\ \A l \in Listers : lister[l] = "idle"
    /\ UNCHANGED vars

CreateStep(c) ==
    \/ Begin(c) \/ Insert(c) \/ Lock(c) \/ CreateCell(c) \/ CommitCell(c) \/ CommitDir(c)
    \/ Publish(c) \/ ReadBack(c) \/ RecoverFailed(c)
    \/ ResumeLock(c) \/ ResumeRead(c) \/ ResumeCell(c) \/ ResumeCommitCell(c) \/ ResumeCommit(c)

ListStep(l) == Meet(l) \/ Recover(l) \/ RecoverRead(l) \/ RecoverCommit(l)

Next ==
    \/ \E c \in Creators : CreateStep(c) \/ Crash(c) \/ LoseLink(c)
    \/ \E l \in Listers : ListStep(l)
    \/ \E o \in Accounts : EndSession(o)
    \/ Tick \/ Finished

Spec == Init /\ [][Next]_vars

-----------------------------------------------------------------------------
(* A published space has its owner's row in the cell. *)
ServedMeansCell == dir.life = "active" => cell = dir.owner

(* The lock of a reservation lasts while its creator's cell transaction does: *)
(* they are one transaction, or the control connection is not lost alone.     *)
LockLasts == Shared \/ ~LinksBreak

(* A retired ID has no row in the cell, whoever lost which answer when. *)
RetiredMeansNoCell == dir.life = "deleted" => cell = Nobody

(* What a call answers holds: a space it gives is published and its owner's,  *)
(* and an ID it calls taken is retired or another owner's.                    *)
AnswersHold ==
    \A c \in Creators :
        /\ st[c].answer = "info" => dir.life = "active" /\ Mine(c)
        /\ st[c].answer = "conflict" => dir.life = "deleted" \/ ~Mine(c)

(* A listing retires an ID only when its claim has ended and no call is between *)
(* locking the reservation and committing its cell, unless its connection, and  *)
(* the lock with it, is lost.                                                   *)
Working(c) == st[c].pc \in {"cell", "commitCell", "commitDir", "resumeRead", "resumeCell", "resumeCommitCell", "resumeCommit"}
RetiredWhenAbandoned ==
    (dir.life = "provisioning" /\ dir'.life = "deleted")
        => dir.until <= now /\ \A c \in Creators \ broken : ~Working(c)

(* A reservation does not stay pending: a retry, its creator or a listing ends  *)
(* it, unless its owner has no session left.                                    *)
ReservationsSettle ==
    dir.life = "provisioning" => dir.owner \notin live

-----------------------------------------------------------------------------
(* Its inductive invariant *)

(* Types, but for the end of a claim. *)
Typed ==
    /\ setting \in Settings
    /\ dir \in [life : Lifecycles, owner : Accounts \cup {Nobody}, until : Nat]
    /\ cell \in Accounts \cup {Nobody}
    /\ lock \in Creators \cup Listers \cup {Nobody}
    /\ cellTx \in Creators \cup {Nobody}
    /\ st \in [Creators -> [pc : Steps, err : Errors, answer : Answers]]
    /\ lister \in [Listers -> {"idle", "met", "read", "active", "deleted"}]
    /\ broken \subseteq Creators
    /\ live \subseteq Accounts
    /\ now \in Nat /\ faults \in 0 .. MaxFaults

Taken == dir.life # "absent"

Reads == {"read", "active", "deleted"}

(* The row of an ID: whoever owns the cell's row owns the directory's, and a
   published one has it. *)
RowOK ==
    /\ Taken <=> dir.owner # Nobody
    /\ cell # Nobody => cell = dir.owner
    /\ ServedMeansCell /\ (LockLasts => RetiredMeansNoCell)
    /\ ~LinksBreak => broken = {}
    /\ dir.until # 0 => dir.life = "provisioning"
    /\ dir.until <= MaxTime + Lease /\ now <= MaxTime + Lease
    /\ ~Taken => now <= MaxTime

(* A call past the reservation is the owner's; while it works it holds the lock,
   unless it has lost its connection, and nobody settles the row meanwhile. *)
CallOK(c) ==
    /\ st[c].pc # "idle" => c \in setting.callers
    /\ st[c].pc \in {"idle", "insert", "lock"} => c \notin broken
    /\ Working(c) \/ st[c].pc \in {"lock", "publish", "resume"} => Mine(c) /\ Taken
    /\ Working(c) /\ c \notin broken => lock = c /\ dir.life = "provisioning"
    /\ lock = c => Working(c) /\ c \notin broken
    /\ st[c].pc \in {"commitCell", "resumeCommitCell"} => ~Shared /\ cellTx = c
    /\ st[c].pc = "commitDir" /\ ~Shared => cell = dir.owner
    /\ st[c].pc = "publish" => cell = dir.owner
    /\ st[c].pc = "resumeCommit" /\ c \notin broken => cell = dir.owner \/ cellTx = c
    /\ st[c].answer = "info" => dir.life = "active" /\ Mine(c)
    /\ st[c].answer = "conflict" => Taken /\ (dir.life = "deleted" \/ ~Mine(c))

(* A listing that has read the row holds its lock, and what it read stands. *)
ListOK(l) ==
    /\ lister[l] \in Reads <=> lock = l
    /\ lister[l] \in Reads => dir.life = "provisioning" /\ dir.until <= now
    /\ lister[l] = "active" => cell = dir.owner
    /\ lister[l] = "deleted" /\ LockLasts => cell = Nobody

Inv ==
    /\ Typed /\ RowOK
    /\ \A c \in Creators : CallOK(c)
    /\ \A l \in Listers : ListOK(l)
=============================================================================
