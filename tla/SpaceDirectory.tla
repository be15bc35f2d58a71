-------------------------- MODULE SpaceDirectory --------------------------
(***************************************************************************)
(* One owned space across two databases: the authority row in its cell and *)
(* the control plane's directory row, with no transaction over both.       *)
(*                                                                         *)
(* Every transition commits in the cell first and is then published to the *)
(* directory by a compare-and-swap on what the caller had read there.  A   *)
(* caller may stop, or lose an answer, between any two statements; the     *)
(* next request recovers the publication before its own transition.        *)
(***************************************************************************)
EXTENDS Naturals

CONSTANTS
    Callers,    \* requests of owners and operators that run concurrently
    None,       \* no lease
    Lost,       \* the lease token of a request that crashed
    MaxCalls,   \* bound: requests each caller makes
    MaxFaults   \* bound: stops, lost answers, expired leases, repaired keys

ASSUME DirectoryAssumption ==
    /\ None \notin Callers /\ Lost \notin Callers \union {None}
    /\ MaxCalls \in Nat /\ MaxFaults \in Nat

VARIABLES
    cell,       \* the cell's spaces row
    directory,  \* the control plane's space_directory row
    past,       \* policy versions the cell has had, each with its lifecycle
    revoked,    \* whether the cell has revoked the space's agent key
    lease,      \* the caller that holds the directory row's issuance lease
    call,       \* each caller's request
    calls,      \* requests made so far (bound)
    faults      \* faults spent so far (bound)

vars == <<cell, directory, past, revoked, lease, call, calls, faults>>

Lifecycles == {"active", "readOnly", "suspended", "deleting", "deleted"}
Row == [lifecycle: Lifecycles, version: Nat \ {0}, generation: Nat \ {0}]
Kinds == {"change", "delete", "deleting", "revoke", "fence"}

NewRow == [lifecycle |-> "active", version |-> 1, generation |-> 1]
(* A new space that its owner has archived. *)
ArchivedRow == [lifecycle |-> "readOnly", version |-> 2, generation |-> 1]
NoCall == [pc |-> "idle", kind |-> "change", want |-> "active", expected |-> 1,
           space |-> NewRow, local |-> NewRow, token |-> "none"]

Init ==
    /\ \/ cell = NewRow /\ past = {<<1, "active">>}
       \/ cell = ArchivedRow /\ past = {<<1, "active">>, <<2, "readOnly">>}
    /\ directory = cell
    /\ revoked = FALSE
    /\ lease = None
    /\ call = [c \in Callers |-> NoCall]
    /\ calls = [c \in Callers |-> 0]
    /\ faults = 0

At(c, pc) == call[c].pc = pc
Goto(c, pc) == call' = [call EXCEPT ![c].pc = pc]
Fault == faults < MaxFaults /\ faults' = faults + 1

(* The finally of a lease's holder. *)
LeaseAfter(c) == IF lease = c THEN None ELSE lease

(* The cell commits a row of its own. *)
SetCell(row) ==
    /\ cell' = row
    /\ past' = past \union {<<row.version, row.lifecycle>>}

----------------------------------------------------------------------------
(* Requests *)

Request(c, kind, want) ==
    /\ call' = [call EXCEPT ![c] = [NoCall EXCEPT !.pc = IF kind = "fence" THEN "route" ELSE "observe",
                                                   !.kind = kind, !.want = want,
                                                   !.expected = directory.generation]]
    /\ UNCHANGED <<cell, directory, past, revoked, lease>>

Begin(c) ==
    /\ call[c].pc \in {"idle", "done", "refused"}
    /\ calls[c] < MaxCalls
    /\ calls' = [calls EXCEPT ![c] = @ + 1]
    /\ \/ \E want \in {"active", "readOnly", "suspended"} : Request(c, "change", want)
       \/ \E kind \in {"delete", "revoke", "fence"} : Request(c, kind, "deleting")
    /\ UNCHANGED faults

(* The same request again, after an error. *)
Retry(c) ==
    /\ At(c, "threw")
    /\ call' = [call EXCEPT ![c].pc = IF call[c].kind = "fence" THEN "route" ELSE "observe",
                            ![c].kind = IF @ = "deleting" THEN "delete" ELSE @,
                            ![c].token = "none"]
    /\ UNCHANGED <<cell, directory, past, revoked, lease, calls, faults>>

(* owned reads the directory. *)
Observe(c) ==
    /\ At(c, "observe")
    /\ LET kind == call[c].kind IN
       call' = [call EXCEPT ![c].space = directory, ![c].local = directory,
                            ![c].pc = IF directory.lifecycle = "deleted"
                                      THEN IF kind = "delete" THEN "tombstone" ELSE "refused"
                                      ELSE IF kind = "revoke" THEN "key" ELSE "recover"]
    /\ UNCHANGED <<cell, directory, past, revoked, lease, calls, faults>>

(* The cell is behind what the directory says. *)
Behind(c) ==
    cell.version < call[c].space.version \/ cell.generation < call[c].space.generation

(* publicationForRetry reads the cell. *)
Recover(c) ==
    /\ At(c, "recover")
    /\ Goto(c, IF Behind(c) THEN "threw" ELSE IF cell = call[c].space THEN "checked" ELSE "route")
    /\ UNCHANGED <<cell, directory, past, revoked, lease, calls, faults>>

----------------------------------------------------------------------------
(* Reconciliation *)

(* A deleted cell is reconciled without the lease. *)
Route(c) ==
    /\ At(c, "route")
    /\ Goto(c, IF cell.lifecycle = "deleted" THEN "locate" ELSE "claim")
    /\ UNCHANGED <<cell, directory, past, revoked, lease, calls, faults>>

Claim(c) ==
    /\ At(c, "claim")
    /\ IF lease = None
       THEN lease' = c /\ call' = [call EXCEPT ![c].pc = "locate", ![c].token = "lease"]
       ELSE Goto(c, "threw") /\ UNCHANGED lease
    /\ UNCHANGED <<cell, directory, past, revoked, calls, faults>>

Locate(c) ==
    /\ At(c, "locate")
    /\ call' = [call EXCEPT ![c].space = directory, ![c].pc = "repair"]
    /\ UNCHANGED <<cell, directory, past, revoked, lease, calls, faults>>

(* cleanupIssuances and repairCellCredentials may find an issued key to take
   back, which is another policy version of a live cell. *)
Repair(c) ==
    /\ At(c, "repair")
    /\ \/ UNCHANGED <<cell, past, faults>>
       \/ Fault /\ cell.lifecycle # "deleted" /\ SetCell([cell EXCEPT !.version = @ + 1])
    /\ Goto(c, "compare")
    /\ UNCHANGED <<directory, revoked, lease, calls>>

Compare(c) ==
    /\ At(c, "compare")
    /\ \/ /\ call[c].space.lifecycle # "deleted" /\ ~Behind(c)
          /\ call' = [call EXCEPT ![c].local = cell, ![c].pc = "setRow"]
          /\ UNCHANGED lease
       \/ /\ call[c].space.lifecycle = "deleted" \/ Behind(c)
          /\ Goto(c, IF call[c].space.lifecycle = "deleted" THEN "checked" ELSE "threw")
          /\ lease' = LeaseAfter(c)
    /\ UNCHANGED <<cell, directory, past, revoked, calls, faults>>

(* The directory row is still the one that was read. *)
SameRow(c) == directory = call[c].space

(* A reconciliation under a lease also needs it still. *)
Leased(c) == call[c].token = "lease" => lease = c

SetRow(c) ==
    /\ At(c, "setRow") \/ At(c, "setFence")
    /\ IF SameRow(c) /\ Leased(c)
       THEN /\ directory' = call[c].local
            /\ call' = [call EXCEPT ![c].space = call[c].local, ![c].token = "none",
                                    ![c].pc = IF @ = "setFence" THEN "done" ELSE "checked"]
       ELSE Goto(c, "threw") /\ UNCHANGED directory
    /\ lease' = LeaseAfter(c)
    /\ UNCHANGED <<cell, past, revoked, calls, faults>>

----------------------------------------------------------------------------
(* What a request does next *)

Prior(c) == call[c].space.lifecycle

DecideChange(c) ==
    /\ At(c, "checked") /\ call[c].kind \in {"change", "deleting"}
    /\ Goto(c, IF Prior(c) = call[c].want
               THEN IF call[c].kind = "change" THEN "done" ELSE "erase"
               ELSE IF \/ Prior(c) \in {"deleting", "deleted"}
                       \/ call[c].want = "deleting" /\ Prior(c) = "active"
               THEN "refused" ELSE "transition")
    /\ UNCHANGED <<cell, directory, past, revoked, lease, calls, faults>>

(* delete goes through changeLifecycle first, unless that is behind it. *)
DecideDelete(c) ==
    /\ At(c, "checked") /\ call[c].kind = "delete"
    /\ \/ Prior(c) = "deleted" /\ Goto(c, "tombstone")
       \/ Prior(c) = "deleting" /\ Goto(c, "erase")
       \/ /\ Prior(c) \notin {"deleting", "deleted"}
          /\ call' = [call EXCEPT ![c].pc = "observe", ![c].kind = "deleting"]
    /\ UNCHANGED <<cell, directory, past, revoked, lease, calls, faults>>

DecideFence(c) ==
    /\ At(c, "checked") /\ call[c].kind = "fence"
    /\ Goto(c, IF call[c].space.generation = call[c].expected /\ Prior(c) # "deleted"
               THEN "fence" ELSE "refused")
    /\ UNCHANGED <<cell, directory, past, revoked, lease, calls, faults>>

DecideRevoke(c) ==
    /\ At(c, "checked") /\ call[c].kind = "revoke"
    /\ Goto(c, "done")
    /\ UNCHANGED <<cell, directory, past, revoked, lease, calls, faults>>

----------------------------------------------------------------------------
(* Transitions, in the cell *)

(* The cell's transaction commits the row; its answer arrives, or is lost. *)
Commit(c, row, pc) ==
    /\ SetCell(row)
    /\ \/ call' = [call EXCEPT ![c].pc = pc, ![c].local = row] /\ UNCHANGED faults
       \/ Fault /\ Goto(c, "threw")

(* The cell's row is no longer the one the request was decided on. *)
Stale(c) == Goto(c, "threw") /\ UNCHANGED <<cell, past, faults>>

DecidedOn(c) == cell.version = call[c].space.version /\ cell.lifecycle = Prior(c)

Transition(c) ==
    /\ At(c, "transition")
    /\ IF DecidedOn(c)
       THEN Commit(c, [cell EXCEPT !.lifecycle = call[c].want, !.version = @ + 1], "publish")
       ELSE Stale(c)
    /\ UNCHANGED <<directory, revoked, lease, calls>>

(* Wrong: the key is revoked under a version the request has not seen. *)
RevocableUnseen(c) == TRUE

Revocable(c) == cell.version = call[c].space.version

RevokeKey(c) ==
    /\ At(c, "key") /\ ~revoked /\ cell.lifecycle # "deleted"
    /\ IF Revocable(c)
       THEN Commit(c, [cell EXCEPT !.version = @ + 1], "publish") /\ revoked' = TRUE
       ELSE Stale(c) /\ UNCHANGED revoked
    /\ UNCHANGED <<directory, lease, calls>>

(* Wrong: what is revoked is taken to be published. *)
KeyDone(c) == TRUE

KeyPublished(c) == cell.version = call[c].space.version

(* A key revoked before needs only its publication. *)
KeyRevoked(c) ==
    /\ At(c, "key") /\ revoked /\ cell.lifecycle # "deleted"
    /\ Goto(c, IF KeyPublished(c) THEN "done" ELSE "route")
    /\ UNCHANGED <<cell, directory, past, revoked, lease, calls, faults>>

(* The purge has taken the key's row with it. *)
KeyGone(c) ==
    /\ At(c, "key") /\ cell.lifecycle = "deleted"
    /\ Goto(c, "refused")
    /\ UNCHANGED <<cell, directory, past, revoked, lease, calls, faults>>

Fence(c) ==
    /\ At(c, "fence")
    /\ IF cell.generation = call[c].expected
       THEN Commit(c, [cell EXCEPT !.generation = @ + 1], "setFence")
       ELSE Stale(c)
    /\ UNCHANGED <<directory, revoked, lease, calls>>

(* delete reads the directory again, then what the cell makes of it. *)
Erase(c) ==
    /\ At(c, "erase")
    /\ call' = [call EXCEPT ![c].space = directory,
                            ![c].pc = IF directory.lifecycle = "deleted" THEN "threw" ELSE "inspect"]
    /\ UNCHANGED <<cell, directory, past, revoked, lease, calls, faults>>

Inspect(c) ==
    /\ At(c, "inspect")
    /\ Goto(c, IF cell.lifecycle = "deleting" THEN "purge"
               ELSE IF cell.lifecycle = "deleted" THEN "tombstone" ELSE "threw")
    /\ UNCHANGED <<cell, directory, past, revoked, lease, calls, faults>>

Purge(c) ==
    /\ At(c, "purge")
    /\ IF cell.lifecycle = "deleting"
       THEN Commit(c, [cell EXCEPT !.lifecycle = "deleted", !.version = @ + 1], "tombstone")
       ELSE Stale(c)
    /\ UNCHANGED <<directory, revoked, lease, calls>>

(* The deleted row's version is read for its publication. *)
Tombstone(c) ==
    /\ At(c, "tombstone")
    /\ call' = [call EXCEPT ![c].local = cell,
                            ![c].pc = IF cell.lifecycle = "deleted" THEN "publish" ELSE "threw"]
    /\ UNCHANGED <<cell, directory, past, revoked, lease, calls, faults>>

----------------------------------------------------------------------------
(* Publication, in the directory *)

Published(c) ==
    [call[c].space EXCEPT !.version = call[c].local.version,
                          !.lifecycle = IF call[c].kind = "revoke" THEN Prior(c)
                                        ELSE call[c].local.lifecycle]

(* Wrong: an older version is published over a newer one. *)
UnswappedVersion(c) == directory.generation = call[c].space.generation

(* The directory still has the versions the request had read. *)
Unpublished(c) ==
    /\ directory.version = call[c].space.version
    /\ directory.generation = call[c].space.generation

Publish(c) ==
    /\ At(c, "publish")
    /\ Unpublished(c)
    /\ directory' = Published(c)
    /\ \/ Goto(c, "published") /\ UNCHANGED faults
       \/ Fault /\ Goto(c, "threw")
    /\ UNCHANGED <<cell, past, revoked, lease, calls>>

(* Wrong: a directory that has moved is taken to have moved this far. *)
PublishedBySome(c) == TRUE

PublishedByAnother(c) == directory = Published(c)

(* Another request has published it; otherwise the outcome is unknown. *)
ReadBack(c) ==
    /\ At(c, "publish")
    /\ ~Unpublished(c)
    /\ Goto(c, IF PublishedByAnother(c) THEN "published" ELSE "threw")
    /\ UNCHANGED <<cell, directory, past, revoked, lease, calls, faults>>

Finish(c) ==
    /\ At(c, "published")
    /\ Goto(c, IF call[c].kind = "deleting" /\ call[c].local.lifecycle = "deleting" THEN "erase" ELSE "done")
    /\ UNCHANGED <<cell, directory, past, revoked, lease, calls, faults>>

----------------------------------------------------------------------------
(* Faults *)

(* The request fails between two statements; the finally lets the lease go. *)
Throw(c) ==
    /\ call[c].pc \notin {"idle", "done", "refused", "threw"}
    /\ Fault
    /\ Goto(c, "threw")
    /\ lease' = LeaseAfter(c)
    /\ UNCHANGED <<cell, directory, past, revoked, calls>>

(* The process ends; the lease stays until its time is up. *)
Crash(c) ==
    /\ lease = c
    /\ Fault
    /\ Goto(c, "threw")
    /\ lease' = Lost
    /\ UNCHANGED <<cell, directory, past, revoked, calls>>

(* The lease's time is up, of a request that crashed or, as a fault, of a slow
   one that will go on without it. *)
ExpireLease ==
    /\ \/ lease = Lost /\ UNCHANGED faults
       \/ lease \in Callers /\ Fault
    /\ lease' = None
    /\ UNCHANGED <<cell, directory, past, revoked, call, calls>>

----------------------------------------------------------------------------
RequestNext(c) ==
    \/ Retry(c) \/ Observe(c) \/ Recover(c) \/ Route(c) \/ Claim(c) \/ Locate(c) \/ Repair(c)
    \/ Compare(c) \/ SetRow(c)
    \/ DecideChange(c) \/ DecideDelete(c) \/ DecideFence(c) \/ DecideRevoke(c)
    \/ Transition(c) \/ RevokeKey(c) \/ KeyRevoked(c) \/ KeyGone(c) \/ Fence(c)
    \/ Erase(c) \/ Inspect(c) \/ Purge(c) \/ Tombstone(c)
    \/ Publish(c) \/ ReadBack(c) \/ Finish(c)

Next ==
    \/ \E c \in Callers : Begin(c) \/ RequestNext(c) \/ Throw(c) \/ Crash(c)
    \/ ExpireLease

Spec == Init /\ [][Next]_vars

(* Requests run on and are made again after an error; leases expire. *)
FairSpec ==
    /\ Spec
    /\ \A c \in Callers : WF_vars(RequestNext(c))
    /\ WF_vars(lease = Lost /\ ExpireLease)

----------------------------------------------------------------------------
(* Properties *)

Pcs == {"idle", "observe", "recover", "route", "claim", "locate", "repair", "compare", "setRow",
        "setFence", "checked", "transition", "key", "fence", "erase", "inspect", "purge", "tombstone",
        "publish", "published", "done", "refused", "threw"}

(* Every variable holds what its row or object can hold, and only a running
   reconciliation holds the lease. *)
TypeOK ==
    /\ cell \in Row /\ directory \in Row
    /\ past \subseteq (Nat \ {0}) \X Lifecycles
    /\ revoked \in BOOLEAN
    /\ lease \in Callers \union {None, Lost}
    /\ lease \in Callers => call[lease].pc \in {"locate", "repair", "compare", "setRow"}
    /\ call \in [Callers -> [pc: Pcs, kind: Kinds, want: Lifecycles, expected: Nat,
                             space: Row, local: Row, token: {"none", "lease"}]]
    /\ calls \in [Callers -> 0 .. MaxCalls] /\ faults \in 0 .. MaxFaults

(* The directory is never ahead of the cell, and the lifecycle it shows is the
   one the cell had at the policy version it shows: routing compares versions
   only, so equal versions must mean equal lifecycles. *)
DirectoryTellsPast ==
    /\ <<directory.version, directory.lifecycle>> \in past
    /\ directory.version <= cell.version /\ directory.generation <= cell.generation
    /\ \A v, w \in past : v[1] = w[1] => v = w

(* What the rows and calls hold, and the directory with them. *)
DirectoryHolds == TypeOK /\ DirectoryTellsPast

(* No publication, reconciliation or fence, however late, moves the directory
   back, and nothing revives a deleted space. *)
DirectoryOnlyAdvances ==
    [][/\ directory'.version >= directory.version /\ directory'.generation >= directory.generation
       /\ directory.lifecycle = "deleted" => directory'.lifecycle = "deleted"
       /\ cell.lifecycle = "deleted" => cell'.lifecycle = "deleted"]_vars

(* A change that answers has been published: the directory is at or past the
   version that answers it. *)
AnsweredMeansPublished ==
    \A c \in Callers : At(c, "done") /\ call[c].kind # "fence" =>
        directory.version >= call[c].local.version

InSync == directory = cell \/ directory.lifecycle = "deleted"

(* Requests that are made again until they are answered bring the directory
   back to the cell, whatever stopped before its publication. *)
Recovers == <>[]InSync
=============================================================================
