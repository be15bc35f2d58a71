------------------------------- MODULE Claims -------------------------------
(***************************************************************************)
(* A claim, the source it cites and the source's extraction versions.      *)
(* Claim revisions and extraction versions are append-only histories: a    *)
(* writer names the entry it builds on, and a retry finds its own entry    *)
(* instead of appending another.  The source and the claim are deleted     *)
(* beside them.                                                            *)
(*                                                                         *)
(* A call is a READ COMMITTED transaction (an extraction is two, and reads *)
(* the original's bytes between them); its writes appear at its COMMIT,    *)
(* whose answer may be lost.                                               *)
(***************************************************************************)
EXTENDS Integers, Sequences, FiniteSets

CONSTANTS
    Calls,
    Keys,       \* credentials
    Creator,    \* the credential the claim's ID is derived from
    Requests,   \* what the calls may ask
    Texts,      \* statements of the claim and contents of corrections
    MaxBase     \* bound: the latest entry a request builds on

VARIABLES
    deleted,    \* which of the source and the claim are tombstoned
    versions,   \* the source's extraction versions
    revisions,  \* the claim's revisions
    reads,      \* credentials that may read sources where the source is
    locks,      \* <<call, object>>
    call

vars == <<deleted, versions, revisions, reads, locks, call>>
db == <<deleted, versions, revisions>>

Statuses == {"unreviewed", "accepted", "rejected"}
SourceOps == {"extract", "correct", "deleteSource"}
ClaimOps == {"create", "revise", "review", "deleteClaim"}

(* A version names the parser, or the credential that corrected it; cites are
   versions of the source, or 0 for the source itself. *)
Version == [parser : {"text", "correction"}, by : Keys, text : Texts]
Revision == [text : Texts, cites : SUBSET (0 .. MaxBase + 1), by : Keys, status : Statuses]
Request == [op : SourceOps \union ClaimOps, by : Keys, base : 0 .. MaxBase, text : Texts,
            cites : SUBSET (0 .. MaxBase + 1), status : Statuses]

(* What the code admits: a creation has no base, other changes of a claim name a
   revision by a positive number, a review accepts or rejects. *)
ClaimsAssumption ==
    /\ Creator \in Keys /\ Texts # {} /\ MaxBase \in Nat
    /\ Requests \subseteq Request
    /\ \A r \in Requests :
         /\ r.op = "create" => r.base = 0
         /\ r.op \in {"revise", "review", "deleteClaim"} => r.base > 0
         /\ r.op = "review" => r.status # "unreviewed"

Pcs == {"idle", "bytes", "key", "look", "share", "content", "row", "check", "commit", "answered"}
Answers == {"none", "done", "replayed", "mismatch", "conflict", "notFound", "forbidden", "unavailable", "unknown"}

NoRequest == [op |-> "extract", by |-> Creator, base |-> 0, text |-> CHOOSE t \in Texts : TRUE, cites |-> {},
              status |-> "unreviewed"]
NoCall == [pc |-> "idle", request |-> NoRequest, answer |-> "none", entry |-> 0, planned |-> FALSE]

Init ==
    /\ deleted = {} /\ versions = <<>> /\ revisions = <<>>
    /\ reads = Keys
    /\ locks = {}
    /\ call = [c \in Calls |-> NoCall]

At(c, pc) == call[c].pc = pc
R(c) == call[c].request
Is(c, op) == R(c).op = op

Goto(c, pc) == call' = [call EXCEPT ![c].pc = pc]

(* Wrong: calls for one claim, or for one source's versions, do not queue. *)
FreeUnkeyed(c, o) ==
    \A k \in locks : k[1] # c =>
      IF o = "shared" THEN k[2] # "row" ELSE IF o = "row" THEN k[2] \notin {"row", "shared"} ELSE TRUE

(* The source's row is shared by the claims that cite it, and then not written;
   a key is one call's. *)
Free(c, o) ==
    \A k \in locks : k[1] # c =>
      IF o = "shared" THEN k[2] # "row" ELSE IF o = "row" THEN k[2] \notin {"row", "shared"} ELSE k[2] # o

Lock(c, o) == Free(c, o) /\ locks' = locks \union {<<c, o>>}

Answer(c, answer, entry) ==
    /\ locks' = {k \in locks : k[1] # c}
    /\ call' = [call EXCEPT ![c].pc = "answered", ![c].answer = answer, ![c].entry = entry]

(* SourceAccess: a claim is there for who may read the sources that any of
   its revisions cites. *)
Cited == UNION {revisions[r].cites : r \in DOMAIN revisions}
Sees(c) == Cited = {} \/ R(c).by \in reads

(* What a call relies on through its COMMIT: its own sources for a writer of
   versions, what is or comes to be cited for a writer of claims. *)
Relies(c) == R(c).op \in SourceOps \/ Cited \union R(c).cites # {}

Holds(c) == Relies(c) => R(c).by \in reads

(* Every transaction ends with the grants it relied on checked once more. *)
Replay(c, entry) ==
    IF Holds(c) THEN Answer(c, "replayed", entry) ELSE Answer(c, "forbidden", 0)

Begin(c, r) ==
    /\ At(c, "idle")
    /\ call' = [call EXCEPT ![c].request = r, ![c].pc = "key"]
    /\ UNCHANGED <<db, reads, locks>>

(* lockExtractable, lockClaim; citing needs to read first. *)
LockKey(c) ==
    /\ At(c, "key")
    /\ IF R(c).cites # {} /\ R(c).by \notin reads
       THEN Answer(c, "forbidden", 0)
       ELSE /\ Lock(c, IF R(c).op \in SourceOps THEN "source" ELSE "claim")
            /\ Goto(c, "look")
    /\ UNCHANGED <<db, reads>>

----------------------------------------------------------------------------
(* Extraction versions *)

Parsed == {v \in DOMAIN versions : versions[v].parser = "text"}

(* What a parser produced is not produced again. *)
Extracted(c) == Parsed # {}

LookExtract(c) ==
    IF "source" \in deleted THEN Answer(c, "notFound", 0)
    ELSE IF Extracted(c) THEN Replay(c, CHOOSE v \in Parsed : \A w \in Parsed : v <= w)
    ELSE IF call[c].planned THEN Goto(c, "check") /\ UNCHANGED locks
    ELSE IF ~Holds(c) THEN Answer(c, "forbidden", 0)
    ELSE /\ call' = [call EXCEPT ![c].pc = "bytes", ![c].planned = TRUE]
         /\ locks' = {k \in locks : k[1] # c}

(* The bytes are read outside of any transaction; those of a deleted source go. *)
ReadBytes(c) ==
    /\ At(c, "bytes")
    /\ \/ Goto(c, "key") /\ UNCHANGED locks
       \/ "source" \in deleted /\ Answer(c, "unavailable", 0)
    /\ UNCHANGED <<db, reads>>

Latest(c) == Len(IF R(c).op \in SourceOps THEN versions ELSE revisions)

(* Whether the entry after the base is this very request's. *)
SameVersion(c) ==
    LET v == versions[R(c).base + 1]
    IN v.parser = "correction" /\ v.by = R(c).by /\ v.text = R(c).text

(* A writer on a base that is not the latest finds its own entry, or a conflict. *)
OnBase(c, same, goes) ==
    IF R(c).base > Latest(c) THEN Answer(c, "notFound", 0)
    ELSE IF R(c).base = Latest(c) THEN Goto(c, goes) /\ UNCHANGED locks
    ELSE IF same THEN Replay(c, R(c).base + 1)
    ELSE Answer(c, "conflict", 0)

LookCorrect(c) ==
    IF "source" \in deleted THEN Answer(c, "notFound", 0)
    ELSE OnBase(c, SameVersion(c), "check")

LookDeleteSource(c) ==
    IF "source" \in deleted THEN Replay(c, 0) ELSE Goto(c, "row") /\ UNCHANGED locks

(* The tombstone's row lock waits for the claims that share the row. *)
LockSource(c) ==
    /\ At(c, "row")
    /\ Lock(c, "row") /\ Goto(c, "check")
    /\ UNCHANGED <<db, reads>>

----------------------------------------------------------------------------
(* Claim revisions *)

SameContent(r, s) == r.text = s.text /\ r.cites = s.cites

SameRevision(c, r) ==
    SameContent(revisions[r], R(c)) /\ revisions[r].by = R(c).by /\ revisions[r].status = "unreviewed"

SameReview(c) ==
    LET n == revisions[R(c).base + 1]
    IN n.by = R(c).by /\ n.status = R(c).status /\ SameContent(n, revisions[R(c).base])

LookCreate(c) ==
    IF revisions = <<>> THEN Goto(c, "share") /\ UNCHANGED locks
    ELSE IF ~SameRevision(c, 1) THEN Answer(c, "mismatch", 0)
    ELSE IF "claim" \in deleted \/ ~Sees(c) THEN Answer(c, "notFound", 0)
    ELSE Replay(c, 1)

(* Reviews and revisions build on a live revision they can see. *)
LookRevise(c) ==
    IF revisions = <<>> \/ "claim" \in deleted \/ ~Sees(c) THEN Answer(c, "notFound", 0)
    ELSE IF Is(c, "revise") THEN OnBase(c, R(c).base < Latest(c) /\ SameRevision(c, R(c).base + 1), "share")
    ELSE OnBase(c, R(c).base < Latest(c) /\ SameReview(c), "check")

LookDeleteClaim(c) ==
    IF revisions = <<>> \/ ~Sees(c) THEN Answer(c, "notFound", 0)
    ELSE IF "claim" \notin deleted THEN OnBase(c, FALSE, "check")
    ELSE IF R(c).base = Latest(c) THEN Replay(c, R(c).base)
    ELSE Answer(c, "notFound", 0)

Look(c) ==
    /\ At(c, "look")
    /\ CASE Is(c, "extract") -> LookExtract(c)
         [] Is(c, "correct") -> LookCorrect(c)
         [] Is(c, "deleteSource") -> LookDeleteSource(c)
         [] Is(c, "create") -> LookCreate(c)
         [] Is(c, "deleteClaim") -> LookDeleteClaim(c)
         [] OTHER -> LookRevise(c)
    /\ UNCHANGED <<db, reads>>

(* checkContent: the cited source is shared through COMMIT, then read. *)
ShareSource(c) ==
    /\ At(c, "share")
    /\ IF R(c).cites = {} THEN UNCHANGED locks ELSE Lock(c, "shared")
    /\ Goto(c, IF R(c).cites = {} THEN "check" ELSE "content")
    /\ UNCHANGED <<db, reads>>

Citable(c) == "source" \notin deleted /\ R(c).cites \subseteq 0 .. Len(versions)

CheckContent(c) ==
    /\ At(c, "content")
    /\ IF Citable(c) THEN Goto(c, "check") /\ UNCHANGED locks ELSE Answer(c, "notFound", 0)
    /\ UNCHANGED <<db, reads>>

----------------------------------------------------------------------------
(* The last statement, and COMMIT *)

Check(c) ==
    /\ At(c, "check")
    /\ IF Holds(c) THEN Goto(c, "commit") /\ UNCHANGED locks ELSE Answer(c, "forbidden", 0)
    /\ UNCHANGED <<db, reads>>

(* stateplane_check_claim_authority, stateplane_check_evidence_authority: a
   revision, or a deletion, still has the grants it needs at COMMIT; a version
   has no such trigger. *)
Authorized(c) == R(c).op \in {"extract", "correct"} \/ Holds(c)

Appended(c) ==
    IF Is(c, "extract") THEN [parser |-> "text", by |-> R(c).by, text |-> R(c).text]
    ELSE [parser |-> "correction", by |-> R(c).by, text |-> R(c).text]

(* insertRevision; insertReview copies the stored content of its base. *)
Revised(c) ==
    IF Is(c, "review") THEN [revisions[R(c).base] EXCEPT !.by = R(c).by, !.status = R(c).status]
    ELSE [text |-> R(c).text, cites |-> R(c).cites, by |-> R(c).by, status |-> "unreviewed"]

Apply(c) ==
    \/ /\ R(c).op \in {"extract", "correct"}
       /\ versions' = Append(versions, Appended(c))
       /\ UNCHANGED <<deleted, revisions>>
    \/ /\ R(c).op \in {"create", "revise", "review"}
       /\ revisions' = Append(revisions, Revised(c))
       /\ UNCHANGED <<deleted, versions>>
    \/ /\ R(c).op \in {"deleteSource", "deleteClaim"}
       /\ deleted' = deleted \union {IF Is(c, "deleteSource") THEN "source" ELSE "claim"}
       /\ UNCHANGED <<versions, revisions>>

Entry(c) == Latest(c) + IF R(c).op \in {"deleteSource", "deleteClaim"} THEN 0 ELSE 1

Commit(c) ==
    /\ At(c, "commit")
    /\ \/ Authorized(c) /\ Apply(c) /\ (Answer(c, "done", Entry(c)) \/ Answer(c, "unknown", 0))
       \/ ~Authorized(c) /\ UNCHANGED db /\ Answer(c, "forbidden", 0)
       \/ UNCHANGED db /\ Answer(c, "unknown", 0)
    /\ UNCHANGED reads

(* A grant expires, whatever is locked. *)
Lapse(k) ==
    /\ k \in reads
    /\ reads' = reads \ {k}
    /\ UNCHANGED <<db, locks, call>>

Steps(c) ==
    \/ LockKey(c) \/ Look(c) \/ ReadBytes(c) \/ LockSource(c) \/ ShareSource(c) \/ CheckContent(c)
    \/ Check(c) \/ Commit(c)

(* The steps of calls that may ask this. *)
NextOf(asks) ==
    \/ \E c \in Calls : Steps(c) \/ \E r \in asks : Begin(c, r)
    \/ \E k \in Keys : Lapse(k)

Next == NextOf(Requests)

Spec == Init /\ [][Next]_vars

----------------------------------------------------------------------------
TypeOK ==
    /\ deleted \subseteq {"source", "claim"} /\ reads \subseteq Keys
    /\ versions \in Seq(Version) /\ revisions \in Seq(Revision)
    /\ "claim" \in deleted => revisions # <<>>
    /\ \A c \in Calls :
         /\ call[c].pc \in Pcs /\ R(c) \in Request /\ call[c].answer \in Answers
         /\ (call[c].pc = "answered") = (call[c].answer # "none")
         /\ call[c].pc \in {"idle", "bytes", "answered"} => \A k \in locks : k[1] # c

(* What an answer says of the entry it names. *)
Tells(r, n) ==
    CASE r.op \in {"create", "revise"} -> SameContent(revisions[n], r) /\ revisions[n].by = r.by
                                           /\ revisions[n].status = "unreviewed" /\ n = r.base + 1
      [] r.op = "review" -> revisions[n].by = r.by /\ revisions[n].status = r.status /\ n = r.base + 1
      [] r.op = "correct" -> versions[n].by = r.by /\ versions[n].text = r.text /\ n = r.base + 1
      [] r.op = "extract" -> versions[n].parser = "text"
      [] r.op = "deleteClaim" -> "claim" \in deleted /\ n = Len(revisions)
      [] OTHER -> "source" \in deleted

(* What a call was told of an entry stays true: the entry is the one it asked
   for, by its own credential, also when a retry was given it back. *)
AnswersAreEntries ==
    \A c \in Calls : call[c].answer \in {"done", "replayed"} => Tells(R(c), call[c].entry)

(* A review says of the content it names: nothing slips between the revision
   that was read and the one that carries the verdict. *)
ReviewsKeepContent ==
    \A r \in DOMAIN revisions :
      revisions[r].status # "unreviewed" => r > 1 /\ SameContent(revisions[r], revisions[r - 1])

(* A parser's extraction is stored once, though two calls read the bytes. *)
ParsedAtMostOnce == Cardinality(Parsed) <= 1

(* What a claim cites was extracted: ranges name versions that exist. *)
CitedExist == Cited \subseteq 0 .. Len(versions)

(* A deletion ends a history: no version follows its source's, no revision its
   claim's, and no new content cites a source that is deleted (a review's
   copied evidence may). *)
DeletionsEndHistories ==
    /\ "source" \in deleted => versions' = versions
    /\ "claim" \in deleted => revisions' = revisions
    /\ revisions' # revisions /\ revisions'[Len(revisions')].status = "unreviewed"
         /\ revisions'[Len(revisions')].cites # {} => "source" \notin deleted

(* A revision commits only while its key may read every source the claim,
   with this revision, cites. *)
RevisionsAuthorized ==
    revisions' # revisions /\ UNION {revisions'[r].cites : r \in DOMAIN revisions'} # {} =>
         revisions'[Len(revisions')].by \in reads

----------------------------------------------------------------------------
(* The inductive invariant: one call at a time writes a history, and what it
   has found of the history, and of the source it cites, is so until it ends. *)

(* Past its key a call holds it. *)
Keyed == {"look", "share", "content", "row", "check", "commit"}
KeyOf(r) == IF r.op \in SourceOps THEN "source" ELSE "claim"

Typed ==
    /\ deleted \subseteq {"source", "claim"} /\ reads \subseteq Keys
    /\ versions \in Seq(Version) /\ revisions \in Seq(Revision)
    /\ call \in [Calls -> [pc : Pcs, request : Request, answer : Answers, entry : Nat, planned : BOOLEAN]]

LocksExclude ==
    /\ \A k \in locks : /\ k \in Calls \X {"source", "claim", "row", "shared"}
                        /\ call[k[1]].pc \in Keyed
    /\ \A k, l \in locks : k[1] # l[1] => /\ k[2] = l[2] => k[2] = "shared"
                                          /\ k[2] = "row" => l[2] # "shared"

(* A call was asked what the code admits. *)
AskedRight(c) ==
    ~At(c, "idle") => /\ R(c).op = "create" => R(c).base = 0
                      /\ R(c).op \in {"revise", "review", "deleteClaim"} => R(c).base > 0
                      /\ R(c).op = "review" => R(c).status # "unreviewed"

(* The place of a call in the code, and the locks it has there. *)
InPlace(c) ==
    /\ (call[c].pc = "answered") = (call[c].answer # "none")
    /\ At(c, "bytes") => Is(c, "extract")
    /\ At(c, "row") => Is(c, "deleteSource")
    /\ call[c].pc \in {"share", "content"} => R(c).op \in {"create", "revise"}
    /\ At(c, "content") => R(c).cites # {}
    /\ call[c].pc \in Keyed => <<c, KeyOf(R(c))>> \in locks
    /\ Is(c, "deleteSource") /\ call[c].pc \in {"check", "commit"} => <<c, "row">> \in locks
    /\ R(c).op \in {"create", "revise"} /\ R(c).cites # {} /\ call[c].pc \in {"content", "check", "commit"}
         => <<c, "shared">> \in locks

(* What a writer of versions has found, and nobody else can change. *)
FoundOfSource(c) ==
    /\ Is(c, "extract") /\ call[c].pc \in {"check", "commit"} => Parsed = {} /\ "source" \notin deleted
    /\ Is(c, "correct") /\ call[c].pc \in {"check", "commit"} =>
         R(c).base = Len(versions) /\ "source" \notin deleted

(* What a writer of the claim has found. *)
FoundOfClaim(c) ==
    /\ Is(c, "create") /\ call[c].pc \in {"share", "content", "check", "commit"} => revisions = <<>>
    /\ R(c).op \in {"revise", "review", "deleteClaim"} /\ call[c].pc \in {"share", "content", "check", "commit"} =>
         revisions # <<>> /\ "claim" \notin deleted /\ R(c).base = Len(revisions)
    /\ R(c).op \in {"create", "revise"} /\ R(c).cites # {} /\ call[c].pc \in {"check", "commit"} =>
         "source" \notin deleted /\ R(c).cites \subseteq 0 .. Len(versions)

(* An answer names an entry that there is. *)
Told(c) ==
    call[c].answer \in {"done", "replayed"} =>
      /\ Tells(R(c), call[c].entry)
      /\ R(c).op \in {"create", "revise", "review"} => call[c].entry \in DOMAIN revisions
      /\ R(c).op \in {"extract", "correct"} => call[c].entry \in DOMAIN versions

Histories ==
    /\ "claim" \in deleted => revisions # <<>>
    /\ \A v, w \in Parsed : v = w
    /\ ReviewsKeepContent /\ CitedExist

Inv ==
    /\ Typed /\ LocksExclude /\ Histories
    /\ \A c \in Calls : AskedRight(c) /\ InPlace(c) /\ FoundOfSource(c) /\ FoundOfClaim(c) /\ Told(c)
=============================================================================
