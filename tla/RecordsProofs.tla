--------------------------- MODULE RecordsProofs ---------------------------
(****************************************************************************)
(* Proofs about the suite of the record authority (MCRecords), whatever its *)
(* constants are.  Five parts, each with an inductive invariant of its own: *)
(*                                                                          *)
(*   mutations       RecordMutations, by its own names: what each lock a    *)
(*                   transaction holds is worth (Inv, Kept)                 *)
(*   batch           BatchIngestion!Inv: the rows of a batch agree, and     *)
(*                   what a call has passed is settled                      *)
(*   claims, sources Claims!Inv: what a writer has found of a history is so *)
(*                   until it ends                                          *)
(*   links, lists    Links!Inv: rows are locked in their order, so what a   *)
(*                   transaction found of them stands, and nobody waits in  *)
(*                   a circle                                               *)
(*   backfill, pages IndexedQueries!Inv: what a write beside a backfill     *)
(*                   leaves, and where a cursor stands between what a       *)
(*                   traversal gave and what it owes                        *)
(*                                                                          *)
(* The last section puts them together: a behaviour of the suite is one of  *)
(* its part.  A part's variables are the suite's slots, in the order its    *)
(* module declares them:                                                    *)
(*                                                                          *)
(*          batch      claims,    links,     backfill,                      *)
(*                     sources    lists      pages                          *)
(*   s1     batch      deleted    deleted    version                        *)
(*   s2     item       versions   cites      decl                           *)
(*   s3     receipt    revisions  link       records                        *)
(*   s4     effects    reads      events     index                          *)
(*   s5     holder     locks      held       writer                         *)
(*   s6     caller     call       locks      fill                           *)
(*   s7     calls                 call       reader                         *)
(*   s8     faults                           created                        *)
(*   s9                                      writes                         *)
(*   s10                                     faults                         *)
(*                                                                          *)
(* Mutations.  The share lock of the space keeps its policy (Scoped); the   *)
(* reservation of the identity keeps its receipt expired until the          *)
(* transaction that found it so commits (Reserved); the row lock keeps the  *)
(* record as it was read (RowKept) and the unique key keeps the value free  *)
(* or its own (ValueKept).  What commits is then what was read.             *)
(****************************************************************************)
EXTENDS MCRecords, FiniteSetTheorems, NaturalsInduction, WellFoundedInduction, TLAPS

(* Before it writes, a transaction replays nothing and has let go no value. *)
Early ==
    \A s \in Sessions : session[s].pc \in {"begun", "scoped", "fresh", "slot"} =>
        /\ ~session[s].replay
        /\ session[s].freed = NoValue

(* Its space keeps the policy it was admitted under, and stays active while it has an effect to make. *)
Scoped ==
    \A s \in Sessions : session[s].pc \in InScopePcs =>
        /\ session[s].policy = space.policy
        /\ session[s].pc # "scoped" /\ ~session[s].replay => space.lifecycle = "active"

(* One transaction reserves an identity; the receipt it is to replace stays expired. *)
Reserved ==
    /\ \A s, t \in Sessions :
         s # t /\ session[s].pc \in ReservedPcs /\ session[t].pc \in ReservedPcs
            => session[s].req.id # session[t].req.id
    /\ \A s \in Sessions :
         session[s].pc \in ReservedPcs /\ ~session[s].replay => receipts[session[s].req.id].expired

(* An effect of this identity and payload, record and revision, has committed. *)
Effected(id, digest, record, rev) ==
    \E e \in effects :
        e.req.id = id /\ e.req.digest = digest /\ e.record = record /\ e.rev = rev

(* A receipt that has not expired tells an effect, and so does a replay of one that has since. *)
ReceiptsTell ==
    /\ \A i \in Identities : ~receipts[i].expired =>
         Effected(i, receipts[i].digest, receipts[i].record, receipts[i].rev)
    /\ \A s \in Sessions : session[s].pc # "idle" /\ session[s].replay =>
         Effected(session[s].req.id, session[s].req.digest, session[s].record, session[s].rev)

(* The record a transaction writes is as it was when its row was locked, and it is the only one to write it. *)
RowKept ==
    /\ \A s \in Sessions : Writes(s, RowPcs) =>
         LET t == session[s] IN
         /\ t.record \in Ids /\ t.rev = records[t.record].rev + 1 /\ t.rev = t.req.expected + 1
         /\ t.freed = IF t.req.op = "delete" THEN NoValue ELSE records[t.record].value
    /\ \A s, t \in Sessions :
         s # t /\ Writes(s, RowPcs) /\ Writes(t, RowPcs) => session[s].record # session[t].record

(* The value a transaction reserved has no record but its own, and no other transaction reserved it. *)
ValueKept ==
    /\ \A s \in Sessions : Writes(s, ValuePcs) /\ Wanted(s) \in Values =>
         \/ holder[Wanted(s)] = 0
         \/ Wanted(s) = session[s].freed /\ holder[Wanted(s)] = session[s].record
    /\ \A s, t \in Sessions :
         s # t /\ Writes(s, ValuePcs) /\ Writes(t, ValuePcs) /\ Wanted(s) \in Values
            => Wanted(s) # Wanted(t)

(* A record that was never created is as it was at first. *)
Unborn == \A r \in Ids : records[r].rev = 0 => records[r] = NoRecord

Inv ==
    /\ TypeOK /\ Early /\ Scoped /\ Reserved /\ ReceiptsTell /\ Unborn
    /\ RowKept /\ ValueKept /\ ValuesHeld /\ RevisionsChain /\ AnswersAreEffects

----------------------------------------------------------------------------
(* A session in a transaction is one of the transactions the types describe. *)
LEMMA Live ==
  ASSUME TypeOK, NEW s \in Sessions, session[s].pc # "idle"
  PROVE  session[s] \in Transaction /\ session[s].req \in Requests /\ session[s].req \in RequestType
BY MutationAssumed DEF TypeOK, Idle, Transaction, MutationAssumption

(* Nothing is locked, written or answered at first. *)
LEMMA InitInv == Init => Inv
<1> SUFFICES ASSUME Init PROVE Inv
  OBVIOUS
<1>1. TypeOK
  BY MutationAssumed DEF Init, TypeOK, NoRecord, NoReceipt, Idle, MutationAssumption, Ids
<1>2. Early /\ Scoped /\ Reserved /\ ReceiptsTell /\ Unborn
  BY DEF Init, Early, Scoped, Reserved, ReceiptsTell, Unborn, Idle, InScopePcs, ReservedPcs,
    NoReceipt
<1>3. RowKept /\ ValueKept
  BY DEF Init, RowKept, ValueKept, Writes, At, Idle, RowPcs, ValuePcs, SlotPcs, InScopePcs
<1>4. ValuesHeld /\ AnswersAreEffects
  BY DEF Init, ValuesHeld, AnswersAreEffects, NoRecord
<1>5. RevisionsChain
  <2>1. \A r \in Ids : records[r].rev = 0
    BY DEF Init, NoRecord
  <2> QED BY <2>1 DEF Init, RevisionsChain
<1> QED BY <1>1, <1>2, <1>3, <1>4, <1>5 DEF Inv

(* What a step may spend of its bounds. *)
LEMMA Spends ==
  ASSUME TypeOK, NEW what \in {"fault", "expiry", "op"}, Spend(what)
  PROVE  budget' \in Budget
<1>1. CASE what = "fault"
  BY <1>1 DEF Spend, TypeOK, Budget
<1>2. CASE what = "expiry"
  BY <1>2 DEF Spend, TypeOK, Budget
<1>3. CASE what = "op"
  BY <1>3 DEF Spend, TypeOK, Budget
<1> QED BY <1>1, <1>2, <1>3

(* An attempt spent leaves a budget. *)
LEMMA Tries ==
  ASSUME TypeOK, NEW q \in Requests, budget.attempt[q] > 0,
         budget' = [budget EXCEPT !.attempt[q] = @ - 1]
  PROVE  budget' \in Budget
BY DEF TypeOK, Budget

(* What a transaction whose COMMIT lands holds. *)
LEMMA Lands ==
  ASSUME Inv, NEW s \in Sessions, CommitLands(s)
  PROVE  /\ session[s] \in Transaction /\ session[s].pc = "commit"
         /\ session[s].req \in Requests /\ session[s].req \in RequestType
         /\ session[s].record \in Ids /\ session[s].rev \in Nat \ {0} /\ session[s].policy \in Nat
         /\ session[s].expired \in BOOLEAN /\ session[s].replay \in BOOLEAN
<1>1. /\ session[s].pc = "commit" /\ session[s] \in Transaction
      /\ session[s].req \in Requests /\ session[s].req \in RequestType
  BY Live DEF CommitLands, At, Inv
<1>2. session[s].record \in Ids /\ session[s].rev \in Nat \ {0}
  <2>1. CASE session[s].replay
    BY <1>1, <2>1 DEF Inv, ReceiptsTell, Effected, TypeOK, Committed
  <2>2. CASE ~session[s].replay
    BY <1>1, <2>2 DEF Inv, RowKept, TypeOK, Writes, At, RowPcs
  <2> QED BY <2>1, <2>2
<1> QED BY <1>1, <1>2 DEF Transaction

(* The row an update locks. *)
LEMMA Updates ==
  ASSUME Inv, NEW s \in Sessions, UpdateRecord(s)
  PROVE  /\ session[s] \in Transaction /\ session[s].pc = "slot" /\ session[s].req \in RequestType
         /\ session[s].req.op \in {"replace", "delete"} /\ session[s].req.record \in Ids
<1>1. /\ session[s] \in Transaction /\ session[s].pc = "slot" /\ session[s].req \in Requests
      /\ session[s].req \in RequestType /\ session[s].req.op # "create"
  BY Live DEF UpdateRecord, At, Inv
<1> QED BY <1>1, MutationAssumed DEF MutationAssumption, RequestType

(* What a transaction whose COMMIT lands writes, fresh or replayed. *)
LEMMA LandsReplay ==
  ASSUME NEW s \in Sessions, CommitLands(s), session[s].replay
  PROVE  /\ UNCHANGED <<records, holder, receipts, effects, space, budget>>
         /\ session' = [session EXCEPT ![s] = Idle]
         /\ answers' \subseteq answers \cup {[req |-> session[s].req, record |-> session[s].record, rev |-> session[s].rev]}
BY DEF CommitLands, End, Goto

(* A COMMIT that lands ends its transaction and nobody else's. *)
LEMMA LandsSession ==
  ASSUME NEW s \in Sessions, CommitLands(s), ~session[s].replay
  PROVE  UNCHANGED <<space, budget>> /\ session' = [session EXCEPT ![s] = Idle]
BY DEF CommitLands, End, Goto

(* It writes its own record, at the revision it has computed. *)
LEMMA LandsRecord ==
  ASSUME Inv, NEW s \in Sessions, CommitLands(s), ~session[s].replay
  PROVE  /\ records' \in [Ids -> [rev: Nat, live: BOOLEAN, value: Values \cup {NoValue}]]
         /\ \A r \in Ids \ {session[s].record} : records'[r] = records[r]
         /\ records'[session[s].record].rev = session[s].rev
         /\ records'[session[s].record].value = IF session[s].req.op = "delete" THEN records[session[s].record].value
                                                ELSE session[s].req.value
<1> DEFINE new == [rev |-> session[s].rev, live |-> session[s].req.op # "delete",
                   value |-> IF session[s].req.op = "delete" THEN records[session[s].record].value
                             ELSE session[s].req.value]
<1>1. records' = [records EXCEPT ![session[s].record] = new]
  BY DEF CommitLands
<1>2. records[session[s].record].value \in Values \cup {NoValue} /\ session[s].req.value \in Values \cup {NoValue}
  BY Lands DEF Inv, TypeOK, RequestType
<1>3. new \in [rev: Nat, live: BOOLEAN, value: Values \cup {NoValue}]
  BY <1>2, Lands
<1>4. /\ new.rev = session[s].rev
      /\ new.value = IF session[s].req.op = "delete" THEN records[session[s].record].value ELSE session[s].req.value
  OBVIOUS
<1> HIDE DEF new
<1> QED BY <1>1, <1>3, <1>4, Lands DEF Inv, TypeOK

(* It takes and gives back the unique values it has reserved. *)
LEMMA LandsHolder ==
  ASSUME NEW s \in Sessions, CommitLands(s), ~session[s].replay
  PROVE  holder' = HolderAfter(s)
BY DEF CommitLands, End, Goto

(* It writes the receipt of its own identity. *)
LEMMA LandsReceipt ==
  ASSUME Inv, NEW s \in Sessions, CommitLands(s), ~session[s].replay
  PROVE  /\ receipts' \in [Identities -> [digest: Nat, record: Ids \cup {0}, rev: Nat, expired: BOOLEAN]]
         /\ \A i \in Identities \ {session[s].req.id} : receipts'[i] = receipts[i]
         /\ session[s].req.id \in Identities
         /\ receipts'[session[s].req.id].digest = session[s].req.digest
         /\ receipts'[session[s].req.id].record = session[s].record
         /\ receipts'[session[s].req.id].rev = session[s].rev
<1> DEFINE new == [digest |-> session[s].req.digest, record |-> session[s].record,
                   rev |-> session[s].rev, expired |-> session[s].expired]
<1>1. receipts' = [receipts EXCEPT ![session[s].req.id] = new]
  BY DEF CommitLands
<1>2. session[s].req.digest \in Nat /\ session[s].req.id \in Identities
  BY Lands DEF RequestType
<1>3. new \in [digest: Nat, record: Ids \cup {0}, rev: Nat, expired: BOOLEAN]
  BY <1>2, Lands
<1>4. /\ new.digest = session[s].req.digest /\ new.record = session[s].record /\ new.rev = session[s].rev
  OBVIOUS
<1> HIDE DEF new
<1> QED BY <1>1, <1>2, <1>3, <1>4, Lands DEF Inv, TypeOK

(* Its effect joins those that committed. *)
LEMMA LandsEffect ==
  ASSUME NEW s \in Sessions, CommitLands(s), ~session[s].replay
  PROVE  effects' = effects \cup {[req |-> session[s].req, record |-> session[s].record,
                                     rev |-> session[s].rev, policy |-> session[s].policy]}
BY DEF CommitLands, End, Goto

(* Its answer, if it arrives, is that of its effect. *)
LEMMA LandsAnswer ==
  ASSUME NEW s \in Sessions, CommitLands(s), ~session[s].replay
  PROVE  answers' \subseteq answers \cup {[req |-> session[s].req, record |-> session[s].record, rev |-> session[s].rev]}
BY DEF CommitLands, End, Goto

(* A step keeps the types. *)
LEMMA TypeNext == Inv /\ [Next]_vars => TypeOK'
<1> SUFFICES ASSUME Inv, [Next]_vars PROVE TypeOK'
  OBVIOUS
<1>1. ASSUME NEW s \in Sessions, NEW q \in Requests, Begin(s, q) PROVE TypeOK'
  <2>1. Busy(q, space.policy) \in Transaction
    BY <1>1, Live, MutationAssumed DEF Begin, At, Inv, Transaction, InScopePcs, Busy, TypeOK, Ids
  <2>2. session' \in [Sessions -> {Idle} \cup Transaction]
    BY <1>1, <2>1 DEF Begin, Goto, Inv, TypeOK
  <2> QED BY <1>1, <2>2, Tries DEF Begin, Inv, TypeOK
<1>2. ASSUME NEW s \in Sessions, CheckScope(s) PROVE TypeOK'
  <2>1. [session[s] EXCEPT !.pc = "scoped"] \in Transaction
    BY <1>2, Live, MutationAssumed DEF CheckScope, At, Inv, Transaction, InScopePcs
  <2>2. session' \in [Sessions -> {Idle} \cup Transaction]
    BY <1>2, <2>1 DEF CheckScope, Goto, Inv, TypeOK
  <2> QED BY <1>2, <2>2 DEF CheckScope, Inv, TypeOK
<1>3. ASSUME NEW s \in Sessions, Replay(s) PROVE TypeOK'
  <2>1. [session[s] EXCEPT !.pc = "stamped", !.replay = TRUE, !.record = receipts[session[s].req.id].record, !.rev = receipts[session[s].req.id].rev] \in Transaction
    <3>1. session[s] \in Transaction /\ session[s].req.id \in Identities
      BY <1>3, Live DEF Replay, At, Inv, RequestType
    <3>2. receipts[session[s].req.id].record \in Ids \cup {0} /\ receipts[session[s].req.id].rev \in Nat
      BY <3>1 DEF Inv, TypeOK
    <3> QED BY <3>1, <3>2 DEF Transaction, InScopePcs
  <2>2. session' \in [Sessions -> {Idle} \cup Transaction]
    BY <1>3, <2>1 DEF Replay, Goto, Inv, TypeOK
  <2> QED BY <1>3, <2>2 DEF Replay, Inv, TypeOK
<1>4. ASSUME NEW s \in Sessions, Fresh(s) PROVE TypeOK'
  <2>1. [session[s] EXCEPT !.pc = "fresh"] \in Transaction
    BY <1>4, Live, MutationAssumed DEF Fresh, At, Inv, Transaction, InScopePcs
  <2>2. session' \in [Sessions -> {Idle} \cup Transaction]
    BY <1>4, <2>1 DEF Fresh, Goto, Inv, TypeOK
  <2> QED BY <1>4, <2>2 DEF Fresh, Inv, TypeOK
<1>5. ASSUME NEW s \in Sessions, TakeSlot(s) PROVE TypeOK'
  <2>1. [session[s] EXCEPT !.pc = "slot"] \in Transaction
    BY <1>5, Live, MutationAssumed DEF TakeSlot, At, Inv, Transaction, InScopePcs
  <2>2. session' \in [Sessions -> {Idle} \cup Transaction]
    BY <1>5, <2>1 DEF TakeSlot, Goto, Inv, TypeOK
  <2> QED BY <1>5, <2>2 DEF TakeSlot, Inv, TypeOK
<1>6. ASSUME NEW s \in Sessions, CreateRecord(s) PROVE TypeOK'
  <2>0. PICK r \in Ids : Goto(s, [session[s] EXCEPT !.pc = "record", !.record = r, !.rev = FirstRevision])
    BY <1>6 DEF CreateRecord
  <2>1. [session[s] EXCEPT !.pc = "record", !.record = r, !.rev = FirstRevision] \in Transaction
    BY <1>6, Live, MutationAssumed DEF CreateRecord, At, Inv, Transaction, InScopePcs, FirstRevision
  <2>2. session' \in [Sessions -> {Idle} \cup Transaction]
    BY <2>0, <2>1 DEF CreateRecord, Goto, Inv, TypeOK
  <2> QED BY <1>6, <2>2 DEF CreateRecord, Inv, TypeOK
<1>7. ASSUME NEW s \in Sessions, UpdateRecord(s) PROVE TypeOK'
  <2>1. [session[s] EXCEPT !.pc = "record", !.record = session[s].req.record, !.rev = records[session[s].req.record].rev + 1, !.freed = IF session[s].req.op = "replace" THEN records[session[s].req.record].value ELSE NoValue] \in Transaction
    <3>1. session[s] \in Transaction /\ session[s].req.record \in Ids
      BY <1>7, Updates
    <3>2. records[session[s].req.record].rev \in Nat /\ records[session[s].req.record].value \in Values \cup {NoValue}
      BY <3>1 DEF Inv, TypeOK
    <3>3. PICK n \in Nat : n = records[session[s].req.record].rev + 1
      BY <3>2
    <3>4. PICK f \in Values \cup {NoValue} :
            f = IF session[s].req.op = "replace" THEN records[session[s].req.record].value ELSE NoValue
      BY <3>2
    <3>5. [session[s] EXCEPT !.pc = "record", !.record = session[s].req.record, !.rev = n, !.freed = f] \in Transaction
      BY <3>1 DEF Transaction, InScopePcs
    <3> QED BY <3>3, <3>4, <3>5
  <2>2. session' \in [Sessions -> {Idle} \cup Transaction]
    BY <1>7, <2>1 DEF UpdateRecord, Goto, Inv, TypeOK
  <2> QED BY <1>7, <2>2 DEF UpdateRecord, Inv, TypeOK
<1>8. ASSUME NEW s \in Sessions, ReserveValue(s) PROVE TypeOK'
  <2>1. [session[s] EXCEPT !.pc = "written"] \in Transaction
    BY <1>8, Live, MutationAssumed DEF ReserveValue, At, Inv, Transaction, InScopePcs
  <2>2. session' \in [Sessions -> {Idle} \cup Transaction]
    BY <1>8, <2>1 DEF ReserveValue, Goto, Inv, TypeOK
  <2> QED BY <1>8, <2>2 DEF ReserveValue, Inv, TypeOK
<1>9. ASSUME NEW s \in Sessions, Stamp(s) PROVE TypeOK'
  <2>1. [session[s] EXCEPT !.pc = "stamped"] \in Transaction
    BY <1>9, Live, MutationAssumed DEF Stamp, At, Inv, Transaction, InScopePcs
  <2>2. session' \in [Sessions -> {Idle} \cup Transaction]
    BY <1>9, <2>1 DEF Stamp, Goto, Inv, TypeOK
  <2> QED BY <1>9, <2>2 DEF Stamp, Inv, TypeOK
<1>10. ASSUME NEW s \in Sessions, SendCommit(s) PROVE TypeOK'
  <2>1. [session[s] EXCEPT !.pc = "commit"] \in Transaction
    BY <1>10, Live, MutationAssumed DEF SendCommit, At, Inv, Transaction, InScopePcs
  <2>2. session' \in [Sessions -> {Idle} \cup Transaction]
    BY <1>10, <2>1 DEF SendCommit, Goto, Inv, TypeOK
  <2> QED BY <1>10, <2>2 DEF SendCommit, Inv, TypeOK
<1>11. ASSUME NEW s \in Sessions, CommitLands(s) PROVE TypeOK'
  <2>1. CASE session[s].replay
    <3>1. [req |-> session[s].req, record |-> session[s].record, rev |-> session[s].rev] \in Answer
      BY <1>11, Lands DEF Answer
    <3>2. answers' \subseteq Answer
      BY <1>11, <2>1, <3>1, LandsReplay DEF Inv, TypeOK
    <3> QED BY <1>11, <2>1, <3>2, LandsReplay DEF Inv, TypeOK
  <2>2. CASE ~session[s].replay
    <3>1. records' \in [Ids -> [rev: Nat, live: BOOLEAN, value: Values \cup {NoValue}]]
      BY <1>11, <2>2, LandsRecord
    <3>2. holder' \in [Values -> Ids \cup {0}]
      BY <1>11, <2>2, Lands, LandsHolder DEF Inv, TypeOK, HolderAfter
    <3>3. receipts' \in [Identities -> [digest: Nat, record: Ids \cup {0}, rev: Nat, expired: BOOLEAN]]
      BY <1>11, <2>2, LandsReceipt
    <3>4. effects' \subseteq Committed
      BY <1>11, <2>2, Lands, LandsEffect DEF Inv, TypeOK, Committed
    <3>5. answers' \subseteq Answer
      BY <1>11, <2>2, Lands, LandsAnswer DEF Inv, TypeOK, Answer
    <3>6. session' \in [Sessions -> {Idle} \cup Transaction]
      BY <1>11, <2>2, LandsSession DEF Inv, TypeOK
    <3> QED BY <1>11, <2>2, <3>1, <3>2, <3>3, <3>4, <3>5, <3>6, LandsSession DEF Inv, TypeOK
  <2> QED BY <2>1, <2>2
<1>12. ASSUME NEW s \in Sessions, Refuse(s) PROVE TypeOK'
  <2>1. session' \in [Sessions -> {Idle} \cup Transaction]
    BY <1>12 DEF Refuse, Goto, End, Inv, TypeOK
  <2> QED BY <1>12, <2>1 DEF Refuse, Inv, TypeOK
<1>13. ASSUME NEW s \in Sessions, Deadlock(s) PROVE TypeOK'
  <2>1. Busy(session[s].req, session[s].policy) \in Transaction
    BY <1>13, Live, MutationAssumed DEF Deadlock, At, Inv, Transaction, InScopePcs, Busy, Others,
      WaitsForValue, RowPcs, Ids
  <2>2. session' \in [Sessions -> {Idle} \cup Transaction]
    BY <1>13, <2>1 DEF Deadlock, Goto, Inv, TypeOK
  <2> QED BY <1>13, <2>2, Tries, Live DEF Deadlock, Inv, TypeOK, WaitsForValue, At
<1>14. ASSUME NEW s \in Sessions, AckTimeout(s) PROVE TypeOK'
  <2>1. [session[s] EXCEPT !.waiting = FALSE] \in Transaction
    BY <1>14, Live, MutationAssumed DEF AckTimeout, At, Inv, Transaction, InScopePcs
  <2>2. session' \in [Sessions -> {Idle} \cup Transaction]
    BY <1>14, <2>1 DEF AckTimeout, Goto, Inv, TypeOK
  <2> QED BY <1>14, <2>2, Spends DEF AckTimeout, Inv, TypeOK
<1>15. ASSUME NEW s \in Sessions, Abort(s) PROVE TypeOK'
  <2>1. session' \in [Sessions -> {Idle} \cup Transaction]
    BY <1>15 DEF Abort, Goto, End, Inv, TypeOK
  <2> QED BY <1>15, <2>1, Spends DEF Abort, Inv, TypeOK
<1>16. ASSUME NEW s \in Sessions, ExpireStamped(s) PROVE TypeOK'
  <2>1. [session[s] EXCEPT !.expired = TRUE] \in Transaction
    BY <1>16, Live, MutationAssumed DEF ExpireStamped, At, Inv, Transaction, InScopePcs, Writes
  <2>2. session' \in [Sessions -> {Idle} \cup Transaction]
    BY <1>16, <2>1 DEF ExpireStamped, Goto, Inv, TypeOK
  <2> QED BY <1>16, <2>2, Spends DEF ExpireStamped, Inv, TypeOK
<1>17. ASSUME NEW i \in Identities, ExpireReceipt(i) PROVE TypeOK'
  BY <1>17, Spends DEF ExpireReceipt, Inv, TypeOK
<1>18. ASSUME NEW l \in {"active", "readOnly", "suspended"}, ChangePolicy(l) PROVE TypeOK'
  BY <1>18, Spends DEF ChangePolicy, Inv, TypeOK
<1>19. ASSUME UNCHANGED vars PROVE TypeOK'
  BY <1>19, Live DEF Inv, At, Goto, End, Idle, Busy, TypeOK, Transaction, RequestType, Spend,
    HolderAfter, Ids, InScopePcs, FirstRevision, vars
<1> QED BY <1>1, <1>2, <1>3, <1>4, <1>5, <1>6, <1>7, <1>8, <1>9, <1>10, <1>11, <1>12, <1>13, <1>14,
    <1>15, <1>16, <1>17, <1>18, <1>19 DEF Next, SessionNext

(* A step keeps what a transaction is at its beginning. *)
LEMMA EarlyNext == Inv /\ [Next]_vars => Early'
<1> SUFFICES ASSUME Inv, [Next]_vars PROVE Early'
  OBVIOUS
<1>1. ASSUME NEW s \in Sessions, NEW q \in Requests, Begin(s, q) PROVE Early'
  BY <1>1, Live DEF Begin, Inv, At, Goto, End, Idle, Busy, Early, TypeOK
<1>2. ASSUME NEW s \in Sessions, CheckScope(s) PROVE Early'
  BY <1>2, Live DEF CheckScope, Inv, At, Goto, End, Idle, Busy, Early, TypeOK
<1>3. ASSUME NEW s \in Sessions, Replay(s) PROVE Early'
  BY <1>3, Live DEF Replay, Inv, At, Goto, End, Idle, Busy, Early, TypeOK
<1>4. ASSUME NEW s \in Sessions, Fresh(s) PROVE Early'
  BY <1>4, Live DEF Fresh, Writable, Inv, At, Goto, End, Idle, Busy, Early, TypeOK
<1>5. ASSUME NEW s \in Sessions, TakeSlot(s) PROVE Early'
  BY <1>5, Live DEF TakeSlot, Inv, At, Goto, End, Idle, Busy, Early, TypeOK
<1>6. ASSUME NEW s \in Sessions, CreateRecord(s) PROVE Early'
  BY <1>6, Live DEF CreateRecord, Inv, At, Goto, End, Idle, Busy, Early, TypeOK
<1>7. ASSUME NEW s \in Sessions, UpdateRecord(s) PROVE Early'
  BY <1>7, Live DEF UpdateRecord, Inv, At, Goto, End, Idle, Busy, Early, TypeOK
<1>8. ASSUME NEW s \in Sessions, ReserveValue(s) PROVE Early'
  BY <1>8, Live DEF ReserveValue, Inv, At, Goto, End, Idle, Busy, Early, TypeOK
<1>9. ASSUME NEW s \in Sessions, Stamp(s) PROVE Early'
  BY <1>9, Live DEF Stamp, Inv, At, Goto, End, Idle, Busy, Early, TypeOK
<1>10. ASSUME NEW s \in Sessions, SendCommit(s) PROVE Early'
  BY <1>10, Live DEF SendCommit, Inv, At, Goto, End, Idle, Busy, Early, TypeOK
<1>11. ASSUME NEW s \in Sessions, CommitLands(s) PROVE Early'
  BY <1>11, Live DEF CommitLands, Inv, At, Goto, End, Idle, Busy, Early, TypeOK
<1>12. ASSUME NEW s \in Sessions, Refuse(s) PROVE Early'
  BY <1>12, Live DEF Refuse, Inv, At, Goto, End, Idle, Busy, Early, TypeOK
<1>13. ASSUME NEW s \in Sessions, Deadlock(s) PROVE Early'
  BY <1>13, Live DEF Deadlock, Inv, At, Goto, End, Idle, Busy, Early, TypeOK
<1>14. ASSUME NEW s \in Sessions, AckTimeout(s) PROVE Early'
  BY <1>14, Live DEF AckTimeout, Inv, At, Goto, End, Idle, Busy, Early, TypeOK
<1>15. ASSUME NEW s \in Sessions, Abort(s) PROVE Early'
  BY <1>15, Live DEF Abort, Inv, At, Goto, End, Idle, Busy, Early, TypeOK
<1>16. ASSUME NEW s \in Sessions, ExpireStamped(s) PROVE Early'
  BY <1>16, Live DEF ExpireStamped, Inv, At, Goto, End, Idle, Busy, Early, TypeOK
<1>17. ASSUME NEW i \in Identities, ExpireReceipt(i) PROVE Early'
  BY <1>17, Live DEF ExpireReceipt, Inv, At, Goto, End, Idle, Busy, Early, TypeOK
<1>18. ASSUME NEW l \in {"active", "readOnly", "suspended"}, ChangePolicy(l) PROVE Early'
  BY <1>18, Live DEF ChangePolicy, Inv, At, Goto, End, Idle, Busy, Early, TypeOK
<1>19. ASSUME UNCHANGED vars PROVE Early'
  BY <1>19, Live DEF Inv, At, Goto, End, Idle, Busy, Early, TypeOK, vars
<1> QED BY <1>1, <1>2, <1>3, <1>4, <1>5, <1>6, <1>7, <1>8, <1>9, <1>10, <1>11, <1>12, <1>13, <1>14,
    <1>15, <1>16, <1>17, <1>18, <1>19 DEF Next, SessionNext

(* A step keeps the policy of a space that is locked. *)
LEMMA ScopedNext == Inv /\ [Next]_vars => Scoped'
<1> SUFFICES ASSUME Inv, [Next]_vars PROVE Scoped'
  OBVIOUS
<1>1. ASSUME NEW s \in Sessions, NEW q \in Requests, Begin(s, q) PROVE Scoped'
  BY <1>1, Live DEF Begin, Inv, At, Goto, End, Idle, Busy, Scoped, Early, TypeOK, InScope,
    InScopePcs, ScopeFree, Current
<1>2. ASSUME NEW s \in Sessions, CheckScope(s) PROVE Scoped'
  BY <1>2, Live DEF CheckScope, Inv, At, Goto, End, Idle, Busy, Scoped, Early, TypeOK, InScope,
    InScopePcs, ScopeFree, Current
<1>3. ASSUME NEW s \in Sessions, Replay(s) PROVE Scoped'
  BY <1>3, Live DEF Replay, Inv, At, Goto, End, Idle, Busy, Scoped, Early, TypeOK, InScope,
    InScopePcs, ScopeFree, Current
<1>4. ASSUME NEW s \in Sessions, Fresh(s) PROVE Scoped'
  BY <1>4, Live DEF Fresh, Writable, Inv, At, Goto, End, Idle, Busy, Scoped, Early, TypeOK, InScope,
    InScopePcs, ScopeFree, Current
<1>5. ASSUME NEW s \in Sessions, TakeSlot(s) PROVE Scoped'
  BY <1>5, Live DEF TakeSlot, Inv, At, Goto, End, Idle, Busy, Scoped, Early, TypeOK, InScope,
    InScopePcs, ScopeFree, Current
<1>6. ASSUME NEW s \in Sessions, CreateRecord(s) PROVE Scoped'
  BY <1>6, Live DEF CreateRecord, Inv, At, Goto, End, Idle, Busy, Scoped, Early, TypeOK, InScope,
    InScopePcs, ScopeFree, Current
<1>7. ASSUME NEW s \in Sessions, UpdateRecord(s) PROVE Scoped'
  BY <1>7, Live DEF UpdateRecord, Inv, At, Goto, End, Idle, Busy, Scoped, Early, TypeOK, InScope,
    InScopePcs, ScopeFree, Current
<1>8. ASSUME NEW s \in Sessions, ReserveValue(s) PROVE Scoped'
  BY <1>8, Live DEF ReserveValue, Inv, At, Goto, End, Idle, Busy, Scoped, Early, TypeOK, InScope,
    InScopePcs, ScopeFree, Current
<1>9. ASSUME NEW s \in Sessions, Stamp(s) PROVE Scoped'
  BY <1>9, Live DEF Stamp, Inv, At, Goto, End, Idle, Busy, Scoped, Early, TypeOK, InScope,
    InScopePcs, ScopeFree, Current
<1>10. ASSUME NEW s \in Sessions, SendCommit(s) PROVE Scoped'
  BY <1>10, Live DEF SendCommit, Inv, At, Goto, End, Idle, Busy, Scoped, Early, TypeOK, InScope,
    InScopePcs, ScopeFree, Current
<1>11. ASSUME NEW s \in Sessions, CommitLands(s) PROVE Scoped'
  BY <1>11, Live DEF CommitLands, Inv, At, Goto, End, Idle, Busy, Scoped, Early, TypeOK, InScope,
    InScopePcs, ScopeFree, Current
<1>12. ASSUME NEW s \in Sessions, Refuse(s) PROVE Scoped'
  BY <1>12, Live DEF Refuse, Inv, At, Goto, End, Idle, Busy, Scoped, Early, TypeOK, InScope,
    InScopePcs, ScopeFree, Current
<1>13. ASSUME NEW s \in Sessions, Deadlock(s) PROVE Scoped'
  BY <1>13, Live DEF Deadlock, Inv, At, Goto, End, Idle, Busy, Scoped, Early, TypeOK, InScope,
    InScopePcs, ScopeFree, Current
<1>14. ASSUME NEW s \in Sessions, AckTimeout(s) PROVE Scoped'
  BY <1>14, Live DEF AckTimeout, Inv, At, Goto, End, Idle, Busy, Scoped, Early, TypeOK, InScope,
    InScopePcs, ScopeFree, Current
<1>15. ASSUME NEW s \in Sessions, Abort(s) PROVE Scoped'
  BY <1>15, Live DEF Abort, Inv, At, Goto, End, Idle, Busy, Scoped, Early, TypeOK, InScope,
    InScopePcs, ScopeFree, Current
<1>16. ASSUME NEW s \in Sessions, ExpireStamped(s) PROVE Scoped'
  BY <1>16, Live DEF ExpireStamped, Inv, At, Goto, End, Idle, Busy, Scoped, Early, TypeOK, InScope,
    InScopePcs, ScopeFree, Current
<1>17. ASSUME NEW i \in Identities, ExpireReceipt(i) PROVE Scoped'
  BY <1>17, Live DEF ExpireReceipt, Inv, At, Goto, End, Idle, Busy, Scoped, Early, TypeOK, InScope,
    InScopePcs, ScopeFree, Current
<1>18. ASSUME NEW l \in {"active", "readOnly", "suspended"}, ChangePolicy(l) PROVE Scoped'
  BY <1>18, Live DEF ChangePolicy, Inv, At, Goto, End, Idle, Busy, Scoped, Early, TypeOK, InScope,
    InScopePcs, ScopeFree, Current
<1>19. ASSUME UNCHANGED vars PROVE Scoped'
  BY <1>19, Live DEF Inv, At, Goto, End, Idle, Busy, Scoped, Early, TypeOK, InScope, InScopePcs,
    ScopeFree, Current, vars
<1> QED BY <1>1, <1>2, <1>3, <1>4, <1>5, <1>6, <1>7, <1>8, <1>9, <1>10, <1>11, <1>12, <1>13, <1>14,
    <1>15, <1>16, <1>17, <1>18, <1>19 DEF Next, SessionNext

(* A step keeps a reserved identity to one transaction. *)
LEMMA ReservedNext == Inv /\ [Next]_vars => Reserved'
<1> SUFFICES ASSUME Inv, [Next]_vars PROVE Reserved'
  OBVIOUS
<1>1. ASSUME NEW s \in Sessions, NEW q \in Requests, Begin(s, q) PROVE Reserved'
  BY <1>1, Live DEF Begin, Inv, At, Goto, End, Idle, Busy, Reserved, Early, TypeOK, InScopePcs,
    ReservedPcs, IdentityFree, Others, Current, Expired
<1>2. ASSUME NEW s \in Sessions, CheckScope(s) PROVE Reserved'
  BY <1>2, Live DEF CheckScope, Inv, At, Goto, End, Idle, Busy, Reserved, Early, TypeOK, InScopePcs,
    ReservedPcs, IdentityFree, Others, Current, Expired
<1>3. ASSUME NEW s \in Sessions, Replay(s) PROVE Reserved'
  BY <1>3, Live DEF Replay, Inv, At, Goto, End, Idle, Busy, Reserved, Early, TypeOK, InScopePcs,
    ReservedPcs, IdentityFree, Others, Current, Expired
<1>4. ASSUME NEW s \in Sessions, Fresh(s) PROVE Reserved'
  <2>1. /\ session[s] \in Transaction /\ session[s].pc = "scoped"
        /\ session' = [session EXCEPT ![s] = [session[s] EXCEPT !.pc = "fresh"]] /\ receipts' = receipts
        /\ \A t \in Sessions \ {s} : session[t].pc \in ReservedPcs => session[t].req.id # session[s].req.id
        /\ ~Current(session[s].req.id) /\ session[s].req.id \in Identities
    BY <1>4, Live DEF Fresh, Goto, At, Inv, IdentityFree, Others, RequestType
  <2>2. receipts[session[s].req.id].expired
    BY <2>1 DEF Current, Expired, NoReceipt
  <2> QED BY <2>1, <2>2 DEF Inv, TypeOK, Reserved, Transaction, ReservedPcs, InScopePcs
<1>5. ASSUME NEW s \in Sessions, TakeSlot(s) PROVE Reserved'
  BY <1>5, Live DEF TakeSlot, Inv, At, Goto, End, Idle, Busy, Reserved, Early, TypeOK, InScopePcs,
    ReservedPcs, IdentityFree, Others, Current, Expired
<1>6. ASSUME NEW s \in Sessions, CreateRecord(s) PROVE Reserved'
  BY <1>6, Live DEF CreateRecord, Inv, At, Goto, End, Idle, Busy, Reserved, Early, TypeOK,
    InScopePcs, ReservedPcs, IdentityFree, Others, Current, Expired
<1>7. ASSUME NEW s \in Sessions, UpdateRecord(s) PROVE Reserved'
  BY <1>7, Live DEF UpdateRecord, Inv, At, Goto, End, Idle, Busy, Reserved, Early, TypeOK,
    InScopePcs, ReservedPcs, IdentityFree, Others, Current, Expired
<1>8. ASSUME NEW s \in Sessions, ReserveValue(s) PROVE Reserved'
  BY <1>8, Live DEF ReserveValue, Inv, At, Goto, End, Idle, Busy, Reserved, Early, TypeOK,
    InScopePcs, ReservedPcs, IdentityFree, Others, Current, Expired
<1>9. ASSUME NEW s \in Sessions, Stamp(s) PROVE Reserved'
  BY <1>9, Live DEF Stamp, Inv, At, Goto, End, Idle, Busy, Reserved, Early, TypeOK, InScopePcs,
    ReservedPcs, IdentityFree, Others, Current, Expired
<1>10. ASSUME NEW s \in Sessions, SendCommit(s) PROVE Reserved'
  BY <1>10, Live DEF SendCommit, Inv, At, Goto, End, Idle, Busy, Reserved, Early, TypeOK,
    InScopePcs, ReservedPcs, IdentityFree, Others, Current, Expired
<1>11. ASSUME NEW s \in Sessions, CommitLands(s) PROVE Reserved'
  <2>1. CASE session[s].replay
    BY <1>11, <2>1, Lands, LandsReplay, SMTT(60) DEF Inv, TypeOK, Idle, Reserved, ReservedPcs,
      InScopePcs, RequestType
  <2>2. CASE ~session[s].replay
    <3>1. /\ \A t \in Sessions \ {s} : session'[t] = session[t]
          /\ session'[s].pc = "idle"
      BY <1>11, <2>2, LandsSession DEF Inv, TypeOK, Idle
    <3>2. \A t \in Sessions \ {s} : session[t].pc \in ReservedPcs =>
            session[t].req.id \in Identities \ {session[s].req.id}
      BY <1>11, Lands, Live DEF Inv, Reserved, ReservedPcs, InScopePcs, RequestType
    <3>3. \A i \in Identities \ {session[s].req.id} : receipts'[i] = receipts[i]
      BY <1>11, <2>2, LandsReceipt
    <3> QED BY <3>1, <3>2, <3>3 DEF Inv, Reserved, ReservedPcs, InScopePcs
  <2> QED BY <2>1, <2>2
<1>12. ASSUME NEW s \in Sessions, Refuse(s) PROVE Reserved'
  BY <1>12, Live DEF Refuse, Inv, At, Goto, End, Idle, Busy, Reserved, Early, TypeOK, InScopePcs,
    ReservedPcs, IdentityFree, Others, Current, Expired
<1>13. ASSUME NEW s \in Sessions, Deadlock(s) PROVE Reserved'
  BY <1>13, Live DEF Deadlock, Inv, At, Goto, End, Idle, Busy, Reserved, Early, TypeOK, InScopePcs,
    ReservedPcs, IdentityFree, Others, Current, Expired
<1>14. ASSUME NEW s \in Sessions, AckTimeout(s) PROVE Reserved'
  BY <1>14, Live DEF AckTimeout, Inv, At, Goto, End, Idle, Busy, Reserved, Early, TypeOK,
    InScopePcs, ReservedPcs, IdentityFree, Others, Current, Expired
<1>15. ASSUME NEW s \in Sessions, Abort(s) PROVE Reserved'
  BY <1>15, Live DEF Abort, Inv, At, Goto, End, Idle, Busy, Reserved, Early, TypeOK, InScopePcs,
    ReservedPcs, IdentityFree, Others, Current, Expired
<1>16. ASSUME NEW s \in Sessions, ExpireStamped(s) PROVE Reserved'
  BY <1>16, Live DEF ExpireStamped, Inv, At, Goto, End, Idle, Busy, Reserved, Early, TypeOK,
    InScopePcs, ReservedPcs, IdentityFree, Others, Current, Expired
<1>17. ASSUME NEW i \in Identities, ExpireReceipt(i) PROVE Reserved'
  BY <1>17, Live DEF ExpireReceipt, Inv, At, Goto, End, Idle, Busy, Reserved, Early, TypeOK,
    InScopePcs, ReservedPcs, IdentityFree, Others, Current, Expired
<1>18. ASSUME NEW l \in {"active", "readOnly", "suspended"}, ChangePolicy(l) PROVE Reserved'
  BY <1>18, Live DEF ChangePolicy, Inv, At, Goto, End, Idle, Busy, Reserved, Early, TypeOK,
    InScopePcs, ReservedPcs, IdentityFree, Others, Current, Expired
<1>19. ASSUME UNCHANGED vars PROVE Reserved'
  BY <1>19, Live DEF Inv, At, Goto, End, Idle, Busy, Reserved, Early, TypeOK, InScopePcs,
    ReservedPcs, IdentityFree, Others, Current, Expired, vars
<1> QED BY <1>1, <1>2, <1>3, <1>4, <1>5, <1>6, <1>7, <1>8, <1>9, <1>10, <1>11, <1>12, <1>13, <1>14,
    <1>15, <1>16, <1>17, <1>18, <1>19 DEF Next, SessionNext

(* A step keeps receipts telling effects. *)
LEMMA TellNext == Inv /\ [Next]_vars => ReceiptsTell'
<1> SUFFICES ASSUME Inv, [Next]_vars PROVE ReceiptsTell'
  OBVIOUS
<1>1. ASSUME NEW s \in Sessions, NEW q \in Requests, Begin(s, q) PROVE ReceiptsTell'
  BY <1>1, Live DEF Begin, Inv, At, Goto, End, Idle, Busy, ReceiptsTell, Effected, Early, TypeOK,
    Current, Expired, SameRequest
<1>2. ASSUME NEW s \in Sessions, CheckScope(s) PROVE ReceiptsTell'
  BY <1>2, Live DEF CheckScope, Inv, At, Goto, End, Idle, Busy, ReceiptsTell, Effected, Early,
    TypeOK, Current, Expired, SameRequest
<1>3. ASSUME NEW s \in Sessions, Replay(s) PROVE ReceiptsTell'
  <2>1. /\ session[s] \in Transaction /\ session[s].req.id \in Identities
        /\ ~receipts[session[s].req.id].expired /\ receipts[session[s].req.id].digest = session[s].req.digest
        /\ session' = [session EXCEPT ![s] = [session[s] EXCEPT !.pc = "stamped", !.replay = TRUE,
             !.record = receipts[session[s].req.id].record, !.rev = receipts[session[s].req.id].rev]]
        /\ UNCHANGED <<receipts, effects>>
    BY <1>3, Live DEF Replay, Goto, At, Inv, Current, Expired, SameRequest, RequestType
  <2>2. Effected(session[s].req.id, session[s].req.digest, receipts[session[s].req.id].record, receipts[session[s].req.id].rev)
    BY <2>1 DEF Inv, ReceiptsTell
  <2> QED BY <2>1, <2>2 DEF Inv, TypeOK, ReceiptsTell, Effected, Transaction
<1>4. ASSUME NEW s \in Sessions, Fresh(s) PROVE ReceiptsTell'
  BY <1>4, Live DEF Fresh, Writable, Inv, At, Goto, End, Idle, Busy, ReceiptsTell, Effected, Early,
    TypeOK, Current, Expired, SameRequest
<1>5. ASSUME NEW s \in Sessions, TakeSlot(s) PROVE ReceiptsTell'
  BY <1>5, Live DEF TakeSlot, Inv, At, Goto, End, Idle, Busy, ReceiptsTell, Effected, Early, TypeOK,
    Current, Expired, SameRequest
<1>6. ASSUME NEW s \in Sessions, CreateRecord(s) PROVE ReceiptsTell'
  BY <1>6, Live DEF CreateRecord, Inv, At, Goto, End, Idle, Busy, ReceiptsTell, Effected, Early,
    TypeOK, Current, Expired, SameRequest
<1>7. ASSUME NEW s \in Sessions, UpdateRecord(s) PROVE ReceiptsTell'
  BY <1>7, Live DEF UpdateRecord, Inv, At, Goto, End, Idle, Busy, ReceiptsTell, Effected, Early,
    TypeOK, Current, Expired, SameRequest
<1>8. ASSUME NEW s \in Sessions, ReserveValue(s) PROVE ReceiptsTell'
  BY <1>8, Live DEF ReserveValue, Inv, At, Goto, End, Idle, Busy, ReceiptsTell, Effected, Early,
    TypeOK, Current, Expired, SameRequest
<1>9. ASSUME NEW s \in Sessions, Stamp(s) PROVE ReceiptsTell'
  BY <1>9, Live DEF Stamp, Inv, At, Goto, End, Idle, Busy, ReceiptsTell, Effected, Early, TypeOK,
    Current, Expired, SameRequest
<1>10. ASSUME NEW s \in Sessions, SendCommit(s) PROVE ReceiptsTell'
  BY <1>10, Live DEF SendCommit, Inv, At, Goto, End, Idle, Busy, ReceiptsTell, Effected, Early,
    TypeOK, Current, Expired, SameRequest
<1>11. ASSUME NEW s \in Sessions, CommitLands(s) PROVE ReceiptsTell'
  <2>1. CASE session[s].replay
    BY <1>11, <2>1, Lands, LandsReplay DEF Inv, TypeOK, Idle, ReceiptsTell, Effected, RequestType
  <2>2. CASE ~session[s].replay
    <3>1. /\ \A t \in Sessions \ {s} : session'[t] = session[t]
          /\ session'[s].pc = "idle"
      BY <1>11, <2>2, LandsSession DEF Inv, TypeOK, Idle
    <3>2. PICK n \in effects' : n = [req |-> session[s].req, record |-> session[s].record,
                                     rev |-> session[s].rev, policy |-> session[s].policy]
      BY <1>11, <2>2, LandsEffect
    <3>3. n.req = session[s].req /\ n.record = session[s].record /\ n.rev = session[s].rev
      BY <3>2
    <3>4. effects \subseteq effects'
      BY <1>11, <2>2, LandsEffect
    <3>5. ASSUME NEW i \in Identities, ~receipts'[i].expired
          PROVE  \E e \in effects' : /\ e.req.id = i /\ e.req.digest = receipts'[i].digest
                                     /\ e.record = receipts'[i].record /\ e.rev = receipts'[i].rev
      <4>1. CASE i = session[s].req.id
        BY <1>11, <2>2, <3>3, <4>1, LandsReceipt
      <4>2. CASE i # session[s].req.id
        BY <1>11, <2>2, <3>4, <3>5, <4>2, LandsReceipt DEF Inv, ReceiptsTell, Effected
      <4> QED BY <4>1, <4>2
    <3>6. ASSUME NEW t \in Sessions, session'[t].pc # "idle", session'[t].replay
          PROVE  \E e \in effects' : /\ e.req.id = session'[t].req.id /\ e.req.digest = session'[t].req.digest
                                     /\ e.record = session'[t].record /\ e.rev = session'[t].rev
      BY <3>1, <3>4, <3>6 DEF Inv, ReceiptsTell, Effected
    <3> QED BY <3>5, <3>6 DEF ReceiptsTell, Effected
  <2> QED BY <2>1, <2>2
<1>12. ASSUME NEW s \in Sessions, Refuse(s) PROVE ReceiptsTell'
  BY <1>12, Live DEF Refuse, Inv, At, Goto, End, Idle, Busy, ReceiptsTell, Effected, Early, TypeOK,
    Current, Expired, SameRequest
<1>13. ASSUME NEW s \in Sessions, Deadlock(s) PROVE ReceiptsTell'
  BY <1>13, Live DEF Deadlock, Inv, At, Goto, End, Idle, Busy, ReceiptsTell, Effected, Early,
    TypeOK, Current, Expired, SameRequest
<1>14. ASSUME NEW s \in Sessions, AckTimeout(s) PROVE ReceiptsTell'
  BY <1>14, Live DEF AckTimeout, Inv, At, Goto, End, Idle, Busy, ReceiptsTell, Effected, Early,
    TypeOK, Current, Expired, SameRequest
<1>15. ASSUME NEW s \in Sessions, Abort(s) PROVE ReceiptsTell'
  BY <1>15, Live DEF Abort, Inv, At, Goto, End, Idle, Busy, ReceiptsTell, Effected, Early, TypeOK,
    Current, Expired, SameRequest
<1>16. ASSUME NEW s \in Sessions, ExpireStamped(s) PROVE ReceiptsTell'
  BY <1>16, Live DEF ExpireStamped, Inv, At, Goto, End, Idle, Busy, ReceiptsTell, Effected, Early,
    TypeOK, Current, Expired, SameRequest
<1>17. ASSUME NEW i \in Identities, ExpireReceipt(i) PROVE ReceiptsTell'
  BY <1>17, Live DEF ExpireReceipt, Inv, At, Goto, End, Idle, Busy, ReceiptsTell, Effected, Early,
    TypeOK, Current, Expired, SameRequest
<1>18. ASSUME NEW l \in {"active", "readOnly", "suspended"}, ChangePolicy(l) PROVE ReceiptsTell'
  BY <1>18, Live DEF ChangePolicy, Inv, At, Goto, End, Idle, Busy, ReceiptsTell, Effected, Early,
    TypeOK, Current, Expired, SameRequest
<1>19. ASSUME UNCHANGED vars PROVE ReceiptsTell'
  BY <1>19, Live DEF Inv, At, Goto, End, Idle, Busy, ReceiptsTell, Effected, Early, TypeOK, Current,
    Expired, SameRequest, vars
<1> QED BY <1>1, <1>2, <1>3, <1>4, <1>5, <1>6, <1>7, <1>8, <1>9, <1>10, <1>11, <1>12, <1>13, <1>14,
    <1>15, <1>16, <1>17, <1>18, <1>19 DEF Next, SessionNext

(* A step keeps what was never created. *)
LEMMA UnbornNext == Inv /\ [Next]_vars => Unborn'
<1> SUFFICES ASSUME Inv, [Next]_vars PROVE Unborn'
  OBVIOUS
<1>1. ASSUME NEW s \in Sessions, NEW q \in Requests, Begin(s, q) PROVE Unborn'
  BY <1>1, Live DEF Begin, Inv, At, Goto, End, Idle, Busy, Unborn, TypeOK, RowKept, Writes
<1>2. ASSUME NEW s \in Sessions, CheckScope(s) PROVE Unborn'
  BY <1>2, Live DEF CheckScope, Inv, At, Goto, End, Idle, Busy, Unborn, TypeOK, RowKept, Writes
<1>3. ASSUME NEW s \in Sessions, Replay(s) PROVE Unborn'
  BY <1>3, Live DEF Replay, Inv, At, Goto, End, Idle, Busy, Unborn, TypeOK, RowKept, Writes
<1>4. ASSUME NEW s \in Sessions, Fresh(s) PROVE Unborn'
  BY <1>4, Live DEF Fresh, Writable, Inv, At, Goto, End, Idle, Busy, Unborn, TypeOK, RowKept, Writes
<1>5. ASSUME NEW s \in Sessions, TakeSlot(s) PROVE Unborn'
  BY <1>5, Live DEF TakeSlot, Inv, At, Goto, End, Idle, Busy, Unborn, TypeOK, RowKept, Writes
<1>6. ASSUME NEW s \in Sessions, CreateRecord(s) PROVE Unborn'
  BY <1>6, Live DEF CreateRecord, Inv, At, Goto, End, Idle, Busy, Unborn, TypeOK, RowKept, Writes
<1>7. ASSUME NEW s \in Sessions, UpdateRecord(s) PROVE Unborn'
  BY <1>7, Live DEF UpdateRecord, Inv, At, Goto, End, Idle, Busy, Unborn, TypeOK, RowKept, Writes
<1>8. ASSUME NEW s \in Sessions, ReserveValue(s) PROVE Unborn'
  BY <1>8, Live DEF ReserveValue, Inv, At, Goto, End, Idle, Busy, Unborn, TypeOK, RowKept, Writes
<1>9. ASSUME NEW s \in Sessions, Stamp(s) PROVE Unborn'
  BY <1>9, Live DEF Stamp, Inv, At, Goto, End, Idle, Busy, Unborn, TypeOK, RowKept, Writes
<1>10. ASSUME NEW s \in Sessions, SendCommit(s) PROVE Unborn'
  BY <1>10, Live DEF SendCommit, Inv, At, Goto, End, Idle, Busy, Unborn, TypeOK, RowKept, Writes
<1>11. ASSUME NEW s \in Sessions, CommitLands(s) PROVE Unborn'
  <2>1. CASE session[s].replay
    BY <1>11, <2>1, Lands, LandsReplay DEF Inv, TypeOK, Idle, Unborn
  <2>2. CASE ~session[s].replay
    BY <1>11, <2>2, Lands, LandsRecord DEF Inv, TypeOK, Idle, Unborn
  <2> QED BY <2>1, <2>2
<1>12. ASSUME NEW s \in Sessions, Refuse(s) PROVE Unborn'
  BY <1>12, Live DEF Refuse, Inv, At, Goto, End, Idle, Busy, Unborn, TypeOK, RowKept, Writes
<1>13. ASSUME NEW s \in Sessions, Deadlock(s) PROVE Unborn'
  BY <1>13, Live DEF Deadlock, Inv, At, Goto, End, Idle, Busy, Unborn, TypeOK, RowKept, Writes
<1>14. ASSUME NEW s \in Sessions, AckTimeout(s) PROVE Unborn'
  BY <1>14, Live DEF AckTimeout, Inv, At, Goto, End, Idle, Busy, Unborn, TypeOK, RowKept, Writes
<1>15. ASSUME NEW s \in Sessions, Abort(s) PROVE Unborn'
  BY <1>15, Live DEF Abort, Inv, At, Goto, End, Idle, Busy, Unborn, TypeOK, RowKept, Writes
<1>16. ASSUME NEW s \in Sessions, ExpireStamped(s) PROVE Unborn'
  BY <1>16, Live DEF ExpireStamped, Inv, At, Goto, End, Idle, Busy, Unborn, TypeOK, RowKept, Writes
<1>17. ASSUME NEW i \in Identities, ExpireReceipt(i) PROVE Unborn'
  BY <1>17, Live DEF ExpireReceipt, Inv, At, Goto, End, Idle, Busy, Unborn, TypeOK, RowKept, Writes
<1>18. ASSUME NEW l \in {"active", "readOnly", "suspended"}, ChangePolicy(l) PROVE Unborn'
  BY <1>18, Live DEF ChangePolicy, Inv, At, Goto, End, Idle, Busy, Unborn, TypeOK, RowKept, Writes
<1>19. ASSUME UNCHANGED vars PROVE Unborn'
  BY <1>19, Live DEF Inv, At, Goto, End, Idle, Busy, Unborn, TypeOK, RowKept, Writes, vars
<1> QED BY <1>1, <1>2, <1>3, <1>4, <1>5, <1>6, <1>7, <1>8, <1>9, <1>10, <1>11, <1>12, <1>13, <1>14,
    <1>15, <1>16, <1>17, <1>18, <1>19 DEF Next, SessionNext

(* A step keeps a locked row as it was read. *)
LEMMA RowNext == Inv /\ [Next]_vars => RowKept'
<1> SUFFICES ASSUME Inv, [Next]_vars PROVE RowKept'
  OBVIOUS
<1>1. ASSUME NEW s \in Sessions, NEW q \in Requests, Begin(s, q) PROVE RowKept'
  BY <1>1, Live DEF Begin, Inv, At, Goto, End, Idle, Busy, RowKept, TypeOK, Writes, Early, RowPcs,
    SlotPcs, Unborn, NoRecord, UsedIds, RowFree, Others, Matches, FirstRevision
<1>2. ASSUME NEW s \in Sessions, CheckScope(s) PROVE RowKept'
  BY <1>2, Live DEF CheckScope, Inv, At, Goto, End, Idle, Busy, RowKept, TypeOK, Writes, Early,
    RowPcs, SlotPcs, Unborn, NoRecord, UsedIds, RowFree, Others, Matches, FirstRevision
<1>3. ASSUME NEW s \in Sessions, Replay(s) PROVE RowKept'
  BY <1>3, Live DEF Replay, Inv, At, Goto, End, Idle, Busy, RowKept, TypeOK, Writes, Early, RowPcs,
    SlotPcs, Unborn, NoRecord, UsedIds, RowFree, Others, Matches, FirstRevision
<1>4. ASSUME NEW s \in Sessions, Fresh(s) PROVE RowKept'
  BY <1>4, Live DEF Fresh, Writable, Inv, At, Goto, End, Idle, Busy, RowKept, TypeOK, Writes, Early,
    RowPcs, SlotPcs, Unborn, NoRecord, UsedIds, RowFree, Others, Matches, FirstRevision
<1>5. ASSUME NEW s \in Sessions, TakeSlot(s) PROVE RowKept'
  BY <1>5, Live DEF TakeSlot, Inv, At, Goto, End, Idle, Busy, RowKept, TypeOK, Writes, Early,
    RowPcs, SlotPcs, Unborn, NoRecord, UsedIds, RowFree, Others, Matches, FirstRevision
<1>6. ASSUME NEW s \in Sessions, CreateRecord(s) PROVE RowKept'
  <2>1. PICK r \in Ids \ UsedIds : session' = [session EXCEPT ![s] = [session[s] EXCEPT !.pc = "record", !.record = r, !.rev = 1]]
    BY <1>6 DEF CreateRecord, Goto, FirstRevision
  <2>2. /\ session[s] \in Transaction /\ session[s].pc = "slot" /\ session[s].req.op = "create"
        /\ session[s].req.expected = 0 /\ ~session[s].replay /\ session[s].freed = NoValue /\ records' = records
    BY <1>6, Live, MutationAssumed DEF CreateRecord, At, Inv, Early, MutationAssumption
  <2>3. /\ records[r].rev = 0 /\ records[r].value = NoValue
        /\ \A t \in Sessions : Writes(t, RowPcs) => session[t].record # r
    BY <2>1 DEF UsedIds, Inv, TypeOK, Unborn, NoRecord
  <2> QED BY <2>1, <2>2, <2>3 DEF Inv, TypeOK, RowKept, Writes, At, RowPcs, Transaction
<1>7. ASSUME NEW s \in Sessions, UpdateRecord(s) PROVE RowKept'
  <2>1. session' = [session EXCEPT ![s] = [session[s] EXCEPT !.pc = "record", !.record = session[s].req.record,
          !.rev = records[session[s].req.record].rev + 1,
          !.freed = IF session[s].req.op = "replace" THEN records[session[s].req.record].value ELSE NoValue]]
    BY <1>7 DEF UpdateRecord, Goto
  <2>2. /\ session[s] \in Transaction /\ session[s].req \in RequestType /\ session[s].pc = "slot"
        /\ session[s].req.op \in {"replace", "delete"} /\ session[s].req.record \in Ids
        /\ records[session[s].req.record].rev = session[s].req.expected /\ records' = records
        /\ \A t \in Sessions \ {s} : Writes(t, RowPcs) => session[t].record # session[s].req.record
    BY <1>7, Updates DEF UpdateRecord, Matches, RowFree, Others
  <2>3. ~session[s].replay
    BY <2>2 DEF Inv, Early
  <2> QED BY <2>1, <2>2, <2>3 DEF Inv, TypeOK, RowKept, Writes, At, RowPcs, Transaction, RequestType
<1>8. ASSUME NEW s \in Sessions, ReserveValue(s) PROVE RowKept'
  BY <1>8, Live DEF ReserveValue, Inv, At, Goto, End, Idle, Busy, RowKept, TypeOK, Writes, Early,
    RowPcs, SlotPcs, Unborn, NoRecord, UsedIds, RowFree, Others, Matches, FirstRevision
<1>9. ASSUME NEW s \in Sessions, Stamp(s) PROVE RowKept'
  BY <1>9, Live DEF Stamp, Inv, At, Goto, End, Idle, Busy, RowKept, TypeOK, Writes, Early, RowPcs,
    SlotPcs, Unborn, NoRecord, UsedIds, RowFree, Others, Matches, FirstRevision
<1>10. ASSUME NEW s \in Sessions, SendCommit(s) PROVE RowKept'
  BY <1>10, Live DEF SendCommit, Inv, At, Goto, End, Idle, Busy, RowKept, TypeOK, Writes, Early,
    RowPcs, SlotPcs, Unborn, NoRecord, UsedIds, RowFree, Others, Matches, FirstRevision
<1>11. ASSUME NEW s \in Sessions, CommitLands(s) PROVE RowKept'
  <2>1. CASE session[s].replay
    BY <1>11, <2>1, Lands, LandsReplay DEF Inv, TypeOK, Idle, RowKept, Writes, At, RowPcs
  <2>2. CASE ~session[s].replay
    <3>1. /\ \A t \in Sessions \ {s} : session'[t] = session[t]
          /\ session'[s].pc = "idle"
      BY <1>11, <2>2, LandsSession DEF Inv, TypeOK, Idle
    <3>2. \A t \in Sessions : Writes(t, RowPcs)' => t # s /\ Writes(t, RowPcs)
      BY <3>1 DEF Writes, At, RowPcs
    <3>3. \A t \in Sessions \ {s} : Writes(t, RowPcs) => session[t].record # session[s].record
      BY <1>11, <2>2, Lands DEF Inv, RowKept, Writes, At, RowPcs
    <3>4. \A r \in Ids \ {session[s].record} : records'[r] = records[r]
      BY <1>11, <2>2, LandsRecord
    <3> QED BY <3>1, <3>2, <3>3, <3>4 DEF Inv, RowKept
  <2> QED BY <2>1, <2>2
<1>12. ASSUME NEW s \in Sessions, Refuse(s) PROVE RowKept'
  BY <1>12, Live DEF Refuse, Inv, At, Goto, End, Idle, Busy, RowKept, TypeOK, Writes, Early, RowPcs,
    SlotPcs, Unborn, NoRecord, UsedIds, RowFree, Others, Matches, FirstRevision
<1>13. ASSUME NEW s \in Sessions, Deadlock(s) PROVE RowKept'
  BY <1>13, Live DEF Deadlock, Inv, At, Goto, End, Idle, Busy, RowKept, TypeOK, Writes, Early,
    RowPcs, SlotPcs, Unborn, NoRecord, UsedIds, RowFree, Others, Matches, FirstRevision
<1>14. ASSUME NEW s \in Sessions, AckTimeout(s) PROVE RowKept'
  BY <1>14, Live DEF AckTimeout, Inv, At, Goto, End, Idle, Busy, RowKept, TypeOK, Writes, Early,
    RowPcs, SlotPcs, Unborn, NoRecord, UsedIds, RowFree, Others, Matches, FirstRevision
<1>15. ASSUME NEW s \in Sessions, Abort(s) PROVE RowKept'
  BY <1>15, Live DEF Abort, Inv, At, Goto, End, Idle, Busy, RowKept, TypeOK, Writes, Early, RowPcs,
    SlotPcs, Unborn, NoRecord, UsedIds, RowFree, Others, Matches, FirstRevision
<1>16. ASSUME NEW s \in Sessions, ExpireStamped(s) PROVE RowKept'
  BY <1>16, Live DEF ExpireStamped, Inv, At, Goto, End, Idle, Busy, RowKept, TypeOK, Writes, Early,
    RowPcs, SlotPcs, Unborn, NoRecord, UsedIds, RowFree, Others, Matches, FirstRevision
<1>17. ASSUME NEW i \in Identities, ExpireReceipt(i) PROVE RowKept'
  BY <1>17, Live DEF ExpireReceipt, Inv, At, Goto, End, Idle, Busy, RowKept, TypeOK, Writes, Early,
    RowPcs, SlotPcs, Unborn, NoRecord, UsedIds, RowFree, Others, Matches, FirstRevision
<1>18. ASSUME NEW l \in {"active", "readOnly", "suspended"}, ChangePolicy(l) PROVE RowKept'
  BY <1>18, Live DEF ChangePolicy, Inv, At, Goto, End, Idle, Busy, RowKept, TypeOK, Writes, Early,
    RowPcs, SlotPcs, Unborn, NoRecord, UsedIds, RowFree, Others, Matches, FirstRevision
<1>19. ASSUME UNCHANGED vars PROVE RowKept'
  BY <1>19, Live DEF Inv, At, Goto, End, Idle, Busy, RowKept, TypeOK, Writes, Early, RowPcs,
    SlotPcs, Unborn, NoRecord, UsedIds, RowFree, Others, Matches, FirstRevision, vars
<1> QED BY <1>1, <1>2, <1>3, <1>4, <1>5, <1>6, <1>7, <1>8, <1>9, <1>10, <1>11, <1>12, <1>13, <1>14,
    <1>15, <1>16, <1>17, <1>18, <1>19 DEF Next, SessionNext

(* A step keeps a reserved value. *)
LEMMA ValueNext == Inv /\ [Next]_vars => ValueKept'
<1> SUFFICES ASSUME Inv, [Next]_vars PROVE ValueKept'
  OBVIOUS
<1>1. ASSUME NEW s \in Sessions, NEW q \in Requests, Begin(s, q) PROVE ValueKept'
  BY <1>1, Live DEF Begin, Inv, At, Goto, End, Idle, Busy, ValueKept, TypeOK, Writes, Wanted,
    RowPcs, ValuePcs, Early, ValuesHeld, ValueFree, Others, Touched, Reservable, HolderAfter
<1>2. ASSUME NEW s \in Sessions, CheckScope(s) PROVE ValueKept'
  BY <1>2, Live DEF CheckScope, Inv, At, Goto, End, Idle, Busy, ValueKept, TypeOK, Writes, Wanted,
    RowPcs, ValuePcs, Early, ValuesHeld, ValueFree, Others, Touched, Reservable, HolderAfter
<1>3. ASSUME NEW s \in Sessions, Replay(s) PROVE ValueKept'
  BY <1>3, Live DEF Replay, Inv, At, Goto, End, Idle, Busy, ValueKept, TypeOK, Writes, Wanted,
    RowPcs, ValuePcs, Early, ValuesHeld, ValueFree, Others, Touched, Reservable, HolderAfter
<1>4. ASSUME NEW s \in Sessions, Fresh(s) PROVE ValueKept'
  BY <1>4, Live DEF Fresh, Writable, Inv, At, Goto, End, Idle, Busy, ValueKept, TypeOK, Writes,
    Wanted, RowPcs, ValuePcs, Early, ValuesHeld, ValueFree, Others, Touched, Reservable, HolderAfter
<1>5. ASSUME NEW s \in Sessions, TakeSlot(s) PROVE ValueKept'
  BY <1>5, Live DEF TakeSlot, Inv, At, Goto, End, Idle, Busy, ValueKept, TypeOK, Writes, Wanted,
    RowPcs, ValuePcs, Early, ValuesHeld, ValueFree, Others, Touched, Reservable, HolderAfter
<1>6. ASSUME NEW s \in Sessions, CreateRecord(s) PROVE ValueKept'
  BY <1>6, Live DEF CreateRecord, Inv, At, Goto, End, Idle, Busy, ValueKept, TypeOK, Writes, Wanted,
    RowPcs, ValuePcs, Early, ValuesHeld, ValueFree, Others, Touched, Reservable, HolderAfter
<1>7. ASSUME NEW s \in Sessions, UpdateRecord(s) PROVE ValueKept'
  BY <1>7, Live DEF UpdateRecord, Inv, At, Goto, End, Idle, Busy, ValueKept, TypeOK, Writes, Wanted,
    RowPcs, ValuePcs, Early, ValuesHeld, ValueFree, Others, Touched, Reservable, HolderAfter
<1>8. ASSUME NEW s \in Sessions, ReserveValue(s) PROVE ValueKept'
  BY <1>8, Live DEF ReserveValue, Inv, At, Goto, End, Idle, Busy, ValueKept, TypeOK, Writes, Wanted,
    RowPcs, ValuePcs, Early, ValuesHeld, ValueFree, Others, Touched, Reservable, HolderAfter
<1>9. ASSUME NEW s \in Sessions, Stamp(s) PROVE ValueKept'
  BY <1>9, Live DEF Stamp, Inv, At, Goto, End, Idle, Busy, ValueKept, TypeOK, Writes, Wanted,
    RowPcs, ValuePcs, Early, ValuesHeld, ValueFree, Others, Touched, Reservable, HolderAfter
<1>10. ASSUME NEW s \in Sessions, SendCommit(s) PROVE ValueKept'
  BY <1>10, Live DEF SendCommit, Inv, At, Goto, End, Idle, Busy, ValueKept, TypeOK, Writes, Wanted,
    RowPcs, ValuePcs, Early, ValuesHeld, ValueFree, Others, Touched, Reservable, HolderAfter
<1>11. ASSUME NEW s \in Sessions, CommitLands(s) PROVE ValueKept'
  BY <1>11, Live DEF CommitLands, Inv, At, Goto, End, Idle, Busy, ValueKept, TypeOK, Writes, Wanted,
    RowPcs, ValuePcs, Early, ValuesHeld, ValueFree, Others, Touched, Reservable, HolderAfter
<1>12. ASSUME NEW s \in Sessions, Refuse(s) PROVE ValueKept'
  BY <1>12, Live DEF Refuse, Inv, At, Goto, End, Idle, Busy, ValueKept, TypeOK, Writes, Wanted,
    RowPcs, ValuePcs, Early, ValuesHeld, ValueFree, Others, Touched, Reservable, HolderAfter
<1>13. ASSUME NEW s \in Sessions, Deadlock(s) PROVE ValueKept'
  BY <1>13, Live DEF Deadlock, Inv, At, Goto, End, Idle, Busy, ValueKept, TypeOK, Writes, Wanted,
    RowPcs, ValuePcs, Early, ValuesHeld, ValueFree, Others, Touched, Reservable, HolderAfter
<1>14. ASSUME NEW s \in Sessions, AckTimeout(s) PROVE ValueKept'
  BY <1>14, Live DEF AckTimeout, Inv, At, Goto, End, Idle, Busy, ValueKept, TypeOK, Writes, Wanted,
    RowPcs, ValuePcs, Early, ValuesHeld, ValueFree, Others, Touched, Reservable, HolderAfter
<1>15. ASSUME NEW s \in Sessions, Abort(s) PROVE ValueKept'
  BY <1>15, Live DEF Abort, Inv, At, Goto, End, Idle, Busy, ValueKept, TypeOK, Writes, Wanted,
    RowPcs, ValuePcs, Early, ValuesHeld, ValueFree, Others, Touched, Reservable, HolderAfter
<1>16. ASSUME NEW s \in Sessions, ExpireStamped(s) PROVE ValueKept'
  BY <1>16, Live DEF ExpireStamped, Inv, At, Goto, End, Idle, Busy, ValueKept, TypeOK, Writes,
    Wanted, RowPcs, ValuePcs, Early, ValuesHeld, ValueFree, Others, Touched, Reservable, HolderAfter
<1>17. ASSUME NEW i \in Identities, ExpireReceipt(i) PROVE ValueKept'
  BY <1>17, Live DEF ExpireReceipt, Inv, At, Goto, End, Idle, Busy, ValueKept, TypeOK, Writes,
    Wanted, RowPcs, ValuePcs, Early, ValuesHeld, ValueFree, Others, Touched, Reservable, HolderAfter
<1>18. ASSUME NEW l \in {"active", "readOnly", "suspended"}, ChangePolicy(l) PROVE ValueKept'
  BY <1>18, Live DEF ChangePolicy, Inv, At, Goto, End, Idle, Busy, ValueKept, TypeOK, Writes,
    Wanted, RowPcs, ValuePcs, Early, ValuesHeld, ValueFree, Others, Touched, Reservable, HolderAfter
<1>19. ASSUME UNCHANGED vars PROVE ValueKept'
  BY <1>19, Live DEF Inv, At, Goto, End, Idle, Busy, ValueKept, TypeOK, Writes, Wanted, RowPcs,
    ValuePcs, Early, ValuesHeld, ValueFree, Others, Touched, Reservable, HolderAfter, vars
<1> QED BY <1>1, <1>2, <1>3, <1>4, <1>5, <1>6, <1>7, <1>8, <1>9, <1>10, <1>11, <1>12, <1>13, <1>14,
    <1>15, <1>16, <1>17, <1>18, <1>19 DEF Next, SessionNext

(* A step keeps a unique value to the record that has it. *)
LEMMA HeldNext == Inv /\ [Next]_vars => ValuesHeld'
<1> SUFFICES ASSUME Inv, [Next]_vars PROVE ValuesHeld'
  OBVIOUS
<1>1. ASSUME NEW s \in Sessions, NEW q \in Requests, Begin(s, q) PROVE ValuesHeld'
  BY <1>1, Live DEF Begin, Inv, At, Goto, End, Idle, Busy, ValueKept, TypeOK, Writes, Wanted,
    RowPcs, ValuePcs, RowKept, ValuesHeld, HolderAfter
<1>2. ASSUME NEW s \in Sessions, CheckScope(s) PROVE ValuesHeld'
  BY <1>2, Live DEF CheckScope, Inv, At, Goto, End, Idle, Busy, ValueKept, TypeOK, Writes, Wanted,
    RowPcs, ValuePcs, RowKept, ValuesHeld, HolderAfter
<1>3. ASSUME NEW s \in Sessions, Replay(s) PROVE ValuesHeld'
  BY <1>3, Live DEF Replay, Inv, At, Goto, End, Idle, Busy, ValueKept, TypeOK, Writes, Wanted,
    RowPcs, ValuePcs, RowKept, ValuesHeld, HolderAfter
<1>4. ASSUME NEW s \in Sessions, Fresh(s) PROVE ValuesHeld'
  BY <1>4, Live DEF Fresh, Writable, Inv, At, Goto, End, Idle, Busy, ValueKept, TypeOK, Writes,
    Wanted, RowPcs, ValuePcs, RowKept, ValuesHeld, HolderAfter
<1>5. ASSUME NEW s \in Sessions, TakeSlot(s) PROVE ValuesHeld'
  BY <1>5, Live DEF TakeSlot, Inv, At, Goto, End, Idle, Busy, ValueKept, TypeOK, Writes, Wanted,
    RowPcs, ValuePcs, RowKept, ValuesHeld, HolderAfter
<1>6. ASSUME NEW s \in Sessions, CreateRecord(s) PROVE ValuesHeld'
  BY <1>6, Live DEF CreateRecord, Inv, At, Goto, End, Idle, Busy, ValueKept, TypeOK, Writes, Wanted,
    RowPcs, ValuePcs, RowKept, ValuesHeld, HolderAfter
<1>7. ASSUME NEW s \in Sessions, UpdateRecord(s) PROVE ValuesHeld'
  BY <1>7, Live DEF UpdateRecord, Inv, At, Goto, End, Idle, Busy, ValueKept, TypeOK, Writes, Wanted,
    RowPcs, ValuePcs, RowKept, ValuesHeld, HolderAfter
<1>8. ASSUME NEW s \in Sessions, ReserveValue(s) PROVE ValuesHeld'
  BY <1>8, Live DEF ReserveValue, Inv, At, Goto, End, Idle, Busy, ValueKept, TypeOK, Writes, Wanted,
    RowPcs, ValuePcs, RowKept, ValuesHeld, HolderAfter
<1>9. ASSUME NEW s \in Sessions, Stamp(s) PROVE ValuesHeld'
  BY <1>9, Live DEF Stamp, Inv, At, Goto, End, Idle, Busy, ValueKept, TypeOK, Writes, Wanted,
    RowPcs, ValuePcs, RowKept, ValuesHeld, HolderAfter
<1>10. ASSUME NEW s \in Sessions, SendCommit(s) PROVE ValuesHeld'
  BY <1>10, Live DEF SendCommit, Inv, At, Goto, End, Idle, Busy, ValueKept, TypeOK, Writes, Wanted,
    RowPcs, ValuePcs, RowKept, ValuesHeld, HolderAfter
<1>11. ASSUME NEW s \in Sessions, CommitLands(s) PROVE ValuesHeld'
  <2>1. CASE session[s].replay
    BY <1>11, <2>1, LandsReplay DEF Inv, ValuesHeld
  <2>2. CASE ~session[s].replay
    <3>1. Writes(s, RowPcs) /\ Writes(s, ValuePcs)
      BY <1>11, <2>2, Lands DEF Writes, At, RowPcs, ValuePcs
    <3>2. /\ session[s].freed = IF session[s].req.op = "delete" THEN NoValue ELSE records[session[s].record].value
          /\ Wanted(s) \in Values => \/ holder[Wanted(s)] = 0
                                     \/ Wanted(s) = session[s].freed /\ holder[Wanted(s)] = session[s].record
      BY <3>1 DEF Inv, RowKept, ValueKept
    <3>3. /\ \A r \in Ids : r # session[s].record => records'[r].value = records[r].value
          /\ records'[session[s].record].value = IF session[s].req.op = "delete" THEN records[session[s].record].value ELSE session[s].req.value
      BY <1>11, <2>2, Lands, LandsRecord DEF Inv, TypeOK
    <3>4. \A v \in Values : holder'[v] = IF v = Wanted(s) THEN session[s].record ELSE IF v = session[s].freed THEN 0 ELSE holder[v]
      BY <1>11, <2>2, LandsHolder DEF HolderAfter
    <3>5. /\ \A r \in Ids : records[r].value \in Values \cup {NoValue}
          /\ \A v \in Values : holder[v] \in Ids \cup {0}
          /\ session[s].record \in Ids /\ session[s].req.value \in Values \cup {NoValue} /\ NoValue \notin Values
      BY <1>11, Lands, MutationAssumed DEF Inv, TypeOK, RequestType, MutationAssumption
    <3>6. CASE session[s].req.op = "delete"
      <4>1. /\ \A r \in Ids : records'[r].value = records[r].value
            /\ \A v \in Values : holder'[v] = holder[v]
        BY <3>2, <3>3, <3>4, <3>5, <3>6 DEF Wanted
      <4> QED BY <4>1, <3>5 DEF Inv, ValuesHeld, Ids
    <3>7. CASE session[s].req.op # "delete"
      <4>1. \A r \in Ids : records'[r].value # NoValue => holder'[records'[r].value] = r
        BY <3>2, <3>3, <3>4, <3>5, <3>7 DEF Wanted, Inv, ValuesHeld, Ids
      <4>2. \A v \in Values : holder'[v] # 0 => records'[holder'[v]].value = v
        BY <3>2, <3>3, <3>4, <3>5, <3>7 DEF Wanted, Inv, ValuesHeld, Ids
      <4> QED BY <4>1, <4>2 DEF ValuesHeld
    <3> QED BY <3>6, <3>7
  <2> QED BY <2>1, <2>2
<1>12. ASSUME NEW s \in Sessions, Refuse(s) PROVE ValuesHeld'
  BY <1>12, Live DEF Refuse, Inv, At, Goto, End, Idle, Busy, ValueKept, TypeOK, Writes, Wanted,
    RowPcs, ValuePcs, RowKept, ValuesHeld, HolderAfter
<1>13. ASSUME NEW s \in Sessions, Deadlock(s) PROVE ValuesHeld'
  BY <1>13, Live DEF Deadlock, Inv, At, Goto, End, Idle, Busy, ValueKept, TypeOK, Writes, Wanted,
    RowPcs, ValuePcs, RowKept, ValuesHeld, HolderAfter
<1>14. ASSUME NEW s \in Sessions, AckTimeout(s) PROVE ValuesHeld'
  BY <1>14, Live DEF AckTimeout, Inv, At, Goto, End, Idle, Busy, ValueKept, TypeOK, Writes, Wanted,
    RowPcs, ValuePcs, RowKept, ValuesHeld, HolderAfter
<1>15. ASSUME NEW s \in Sessions, Abort(s) PROVE ValuesHeld'
  BY <1>15, Live DEF Abort, Inv, At, Goto, End, Idle, Busy, ValueKept, TypeOK, Writes, Wanted,
    RowPcs, ValuePcs, RowKept, ValuesHeld, HolderAfter
<1>16. ASSUME NEW s \in Sessions, ExpireStamped(s) PROVE ValuesHeld'
  BY <1>16, Live DEF ExpireStamped, Inv, At, Goto, End, Idle, Busy, ValueKept, TypeOK, Writes,
    Wanted, RowPcs, ValuePcs, RowKept, ValuesHeld, HolderAfter
<1>17. ASSUME NEW i \in Identities, ExpireReceipt(i) PROVE ValuesHeld'
  BY <1>17, Live DEF ExpireReceipt, Inv, At, Goto, End, Idle, Busy, ValueKept, TypeOK, Writes,
    Wanted, RowPcs, ValuePcs, RowKept, ValuesHeld, HolderAfter
<1>18. ASSUME NEW l \in {"active", "readOnly", "suspended"}, ChangePolicy(l) PROVE ValuesHeld'
  BY <1>18, Live DEF ChangePolicy, Inv, At, Goto, End, Idle, Busy, ValueKept, TypeOK, Writes,
    Wanted, RowPcs, ValuePcs, RowKept, ValuesHeld, HolderAfter
<1>19. ASSUME UNCHANGED vars PROVE ValuesHeld'
  BY <1>19, Live DEF Inv, At, Goto, End, Idle, Busy, ValueKept, TypeOK, Writes, Wanted, RowPcs,
    ValuePcs, RowKept, ValuesHeld, HolderAfter, vars
<1> QED BY <1>1, <1>2, <1>3, <1>4, <1>5, <1>6, <1>7, <1>8, <1>9, <1>10, <1>11, <1>12, <1>13, <1>14,
    <1>15, <1>16, <1>17, <1>18, <1>19 DEF Next, SessionNext

(* A step keeps the revisions of a record one chain. *)
LEMMA ChainNext == Inv /\ [Next]_vars => RevisionsChain'
<1> SUFFICES ASSUME Inv, [Next]_vars PROVE RevisionsChain'
  OBVIOUS
<1>1. ASSUME NEW s \in Sessions, NEW q \in Requests, Begin(s, q) PROVE RevisionsChain'
  BY <1>1, Live DEF Begin, Inv, At, Goto, End, Idle, Busy, RevisionsChain, TypeOK, RowKept, Writes,
    RowPcs
<1>2. ASSUME NEW s \in Sessions, CheckScope(s) PROVE RevisionsChain'
  BY <1>2, Live DEF CheckScope, Inv, At, Goto, End, Idle, Busy, RevisionsChain, TypeOK, RowKept,
    Writes, RowPcs
<1>3. ASSUME NEW s \in Sessions, Replay(s) PROVE RevisionsChain'
  BY <1>3, Live DEF Replay, Inv, At, Goto, End, Idle, Busy, RevisionsChain, TypeOK, RowKept, Writes,
    RowPcs
<1>4. ASSUME NEW s \in Sessions, Fresh(s) PROVE RevisionsChain'
  BY <1>4, Live DEF Fresh, Writable, Inv, At, Goto, End, Idle, Busy, RevisionsChain, TypeOK,
    RowKept, Writes, RowPcs
<1>5. ASSUME NEW s \in Sessions, TakeSlot(s) PROVE RevisionsChain'
  BY <1>5, Live DEF TakeSlot, Inv, At, Goto, End, Idle, Busy, RevisionsChain, TypeOK, RowKept,
    Writes, RowPcs
<1>6. ASSUME NEW s \in Sessions, CreateRecord(s) PROVE RevisionsChain'
  BY <1>6, Live DEF CreateRecord, Inv, At, Goto, End, Idle, Busy, RevisionsChain, TypeOK, RowKept,
    Writes, RowPcs
<1>7. ASSUME NEW s \in Sessions, UpdateRecord(s) PROVE RevisionsChain'
  BY <1>7, Live DEF UpdateRecord, Inv, At, Goto, End, Idle, Busy, RevisionsChain, TypeOK, RowKept,
    Writes, RowPcs
<1>8. ASSUME NEW s \in Sessions, ReserveValue(s) PROVE RevisionsChain'
  BY <1>8, Live DEF ReserveValue, Inv, At, Goto, End, Idle, Busy, RevisionsChain, TypeOK, RowKept,
    Writes, RowPcs
<1>9. ASSUME NEW s \in Sessions, Stamp(s) PROVE RevisionsChain'
  BY <1>9, Live DEF Stamp, Inv, At, Goto, End, Idle, Busy, RevisionsChain, TypeOK, RowKept, Writes,
    RowPcs
<1>10. ASSUME NEW s \in Sessions, SendCommit(s) PROVE RevisionsChain'
  BY <1>10, Live DEF SendCommit, Inv, At, Goto, End, Idle, Busy, RevisionsChain, TypeOK, RowKept,
    Writes, RowPcs
<1>11. ASSUME NEW s \in Sessions, CommitLands(s) PROVE RevisionsChain'
  <2>1. CASE session[s].replay
    BY <1>11, <2>1, LandsReplay DEF Inv, RevisionsChain
  <2>2. CASE ~session[s].replay
    <3>1. PICK n \in effects' : n = [req |-> session[s].req, record |-> session[s].record,
                                     rev |-> session[s].rev, policy |-> session[s].policy]
      BY <1>11, <2>2, LandsEffect
    <3>2. PICK r \in Ids : r = session[s].record
      BY <1>11, Lands
    <3>3. /\ effects' = effects \cup {n} /\ n.record = r /\ n.req = session[s].req
          /\ n.rev = records[r].rev + 1 /\ n.rev = n.req.expected + 1 /\ records'[r].rev = n.rev
          /\ \A q \in Ids \ {r} : records'[q].rev = records[q].rev
      BY <1>11, <2>2, <3>1, <3>2, Lands, LandsEffect, LandsRecord DEF Inv, TypeOK, RowKept, Writes,
        At, RowPcs
    <3>4. \A e \in effects : e.record \in Ids /\ e.rev \in 1 .. records[e.record].rev
      BY DEF Inv, TypeOK, Committed, RevisionsChain
    <3>5. \A e \in effects' : e.rev = e.req.expected + 1
      BY <3>3 DEF Inv, RevisionsChain
    <3>6. \A e, f \in effects' : e.record = f.record /\ e.rev = f.rev => e = f
      BY <3>3, <3>4 DEF Inv, RevisionsChain, TypeOK
    <3>7. ASSUME NEW q \in Ids
          PROVE  {e.rev : e \in {f \in effects' : f.record = q}} = 1 .. records'[q].rev
      <4>1. {e.rev : e \in {f \in effects : f.record = q}} = 1 .. records[q].rev /\ records[q].rev \in Nat
        BY DEF Inv, RevisionsChain, TypeOK
      <4>2. CASE q = r
        <5>1. {e.rev : e \in {f \in effects' : f.record = q}} = {e.rev : e \in {f \in effects : f.record = q}} \cup {n.rev}
          BY <3>3, <4>2
        <5> QED BY <3>3, <4>1, <4>2, <5>1
      <4>3. CASE q # r
        <5>1. {e.rev : e \in {f \in effects' : f.record = q}} = {e.rev : e \in {f \in effects : f.record = q}}
          BY <3>3, <4>3
        <5> QED BY <3>3, <4>1, <4>3, <5>1
      <4> QED BY <4>2, <4>3
    <3> QED BY <3>5, <3>6, <3>7 DEF RevisionsChain
  <2> QED BY <2>1, <2>2
<1>12. ASSUME NEW s \in Sessions, Refuse(s) PROVE RevisionsChain'
  BY <1>12, Live DEF Refuse, Inv, At, Goto, End, Idle, Busy, RevisionsChain, TypeOK, RowKept,
    Writes, RowPcs
<1>13. ASSUME NEW s \in Sessions, Deadlock(s) PROVE RevisionsChain'
  BY <1>13, Live DEF Deadlock, Inv, At, Goto, End, Idle, Busy, RevisionsChain, TypeOK, RowKept,
    Writes, RowPcs
<1>14. ASSUME NEW s \in Sessions, AckTimeout(s) PROVE RevisionsChain'
  BY <1>14, Live DEF AckTimeout, Inv, At, Goto, End, Idle, Busy, RevisionsChain, TypeOK, RowKept,
    Writes, RowPcs
<1>15. ASSUME NEW s \in Sessions, Abort(s) PROVE RevisionsChain'
  BY <1>15, Live DEF Abort, Inv, At, Goto, End, Idle, Busy, RevisionsChain, TypeOK, RowKept, Writes,
    RowPcs
<1>16. ASSUME NEW s \in Sessions, ExpireStamped(s) PROVE RevisionsChain'
  BY <1>16, Live DEF ExpireStamped, Inv, At, Goto, End, Idle, Busy, RevisionsChain, TypeOK, RowKept,
    Writes, RowPcs
<1>17. ASSUME NEW i \in Identities, ExpireReceipt(i) PROVE RevisionsChain'
  BY <1>17, Live DEF ExpireReceipt, Inv, At, Goto, End, Idle, Busy, RevisionsChain, TypeOK, RowKept,
    Writes, RowPcs
<1>18. ASSUME NEW l \in {"active", "readOnly", "suspended"}, ChangePolicy(l) PROVE RevisionsChain'
  BY <1>18, Live DEF ChangePolicy, Inv, At, Goto, End, Idle, Busy, RevisionsChain, TypeOK, RowKept,
    Writes, RowPcs
<1>19. ASSUME UNCHANGED vars PROVE RevisionsChain'
  BY <1>19, Live DEF Inv, At, Goto, End, Idle, Busy, RevisionsChain, TypeOK, RowKept, Writes,
    RowPcs, vars
<1> QED BY <1>1, <1>2, <1>3, <1>4, <1>5, <1>6, <1>7, <1>8, <1>9, <1>10, <1>11, <1>12, <1>13, <1>14,
    <1>15, <1>16, <1>17, <1>18, <1>19 DEF Next, SessionNext

(* A step keeps answers telling effects. *)
LEMMA AnswersNext == Inv /\ [Next]_vars => AnswersAreEffects'
<1> SUFFICES ASSUME Inv, [Next]_vars PROVE AnswersAreEffects'
  OBVIOUS
<1>1. ASSUME NEW s \in Sessions, NEW q \in Requests, Begin(s, q) PROVE AnswersAreEffects'
  BY <1>1, Live DEF Begin, Inv, At, Goto, End, Idle, Busy, AnswersAreEffects, ReceiptsTell,
    Effected, TypeOK
<1>2. ASSUME NEW s \in Sessions, CheckScope(s) PROVE AnswersAreEffects'
  BY <1>2, Live DEF CheckScope, Inv, At, Goto, End, Idle, Busy, AnswersAreEffects, ReceiptsTell,
    Effected, TypeOK
<1>3. ASSUME NEW s \in Sessions, Replay(s) PROVE AnswersAreEffects'
  BY <1>3, Live DEF Replay, Inv, At, Goto, End, Idle, Busy, AnswersAreEffects, ReceiptsTell,
    Effected, TypeOK
<1>4. ASSUME NEW s \in Sessions, Fresh(s) PROVE AnswersAreEffects'
  BY <1>4, Live DEF Fresh, Writable, Inv, At, Goto, End, Idle, Busy, AnswersAreEffects,
    ReceiptsTell, Effected, TypeOK
<1>5. ASSUME NEW s \in Sessions, TakeSlot(s) PROVE AnswersAreEffects'
  BY <1>5, Live DEF TakeSlot, Inv, At, Goto, End, Idle, Busy, AnswersAreEffects, ReceiptsTell,
    Effected, TypeOK
<1>6. ASSUME NEW s \in Sessions, CreateRecord(s) PROVE AnswersAreEffects'
  BY <1>6, Live DEF CreateRecord, Inv, At, Goto, End, Idle, Busy, AnswersAreEffects, ReceiptsTell,
    Effected, TypeOK
<1>7. ASSUME NEW s \in Sessions, UpdateRecord(s) PROVE AnswersAreEffects'
  BY <1>7, Live DEF UpdateRecord, Inv, At, Goto, End, Idle, Busy, AnswersAreEffects, ReceiptsTell,
    Effected, TypeOK
<1>8. ASSUME NEW s \in Sessions, ReserveValue(s) PROVE AnswersAreEffects'
  BY <1>8, Live DEF ReserveValue, Inv, At, Goto, End, Idle, Busy, AnswersAreEffects, ReceiptsTell,
    Effected, TypeOK
<1>9. ASSUME NEW s \in Sessions, Stamp(s) PROVE AnswersAreEffects'
  BY <1>9, Live DEF Stamp, Inv, At, Goto, End, Idle, Busy, AnswersAreEffects, ReceiptsTell,
    Effected, TypeOK
<1>10. ASSUME NEW s \in Sessions, SendCommit(s) PROVE AnswersAreEffects'
  BY <1>10, Live DEF SendCommit, Inv, At, Goto, End, Idle, Busy, AnswersAreEffects, ReceiptsTell,
    Effected, TypeOK
<1>11. ASSUME NEW s \in Sessions, CommitLands(s) PROVE AnswersAreEffects'
  <2>1. CASE session[s].replay
    BY <1>11, <2>1, Lands, LandsReplay DEF Inv, TypeOK, Idle, AnswersAreEffects, ReceiptsTell,
      Effected
  <2>2. CASE ~session[s].replay
    <3>1. PICK n \in effects' : n = [req |-> session[s].req, record |-> session[s].record,
                                     rev |-> session[s].rev, policy |-> session[s].policy]
      BY <1>11, <2>2, LandsEffect
    <3>2. n.req = session[s].req /\ n.record = session[s].record /\ n.rev = session[s].rev
      BY <3>1
    <3>3. ASSUME NEW a \in answers', a \notin answers
          PROVE  a.req = session[s].req /\ a.record = session[s].record /\ a.rev = session[s].rev
      BY <1>11, <2>2, <3>3, LandsAnswer
    <3>4. effects \subseteq effects'
      BY <1>11, <2>2, LandsEffect
    <3> QED BY <3>1, <3>2, <3>3, <3>4 DEF Inv, AnswersAreEffects
  <2> QED BY <2>1, <2>2
<1>12. ASSUME NEW s \in Sessions, Refuse(s) PROVE AnswersAreEffects'
  BY <1>12, Live DEF Refuse, Inv, At, Goto, End, Idle, Busy, AnswersAreEffects, ReceiptsTell,
    Effected, TypeOK
<1>13. ASSUME NEW s \in Sessions, Deadlock(s) PROVE AnswersAreEffects'
  BY <1>13, Live DEF Deadlock, Inv, At, Goto, End, Idle, Busy, AnswersAreEffects, ReceiptsTell,
    Effected, TypeOK
<1>14. ASSUME NEW s \in Sessions, AckTimeout(s) PROVE AnswersAreEffects'
  BY <1>14, Live DEF AckTimeout, Inv, At, Goto, End, Idle, Busy, AnswersAreEffects, ReceiptsTell,
    Effected, TypeOK
<1>15. ASSUME NEW s \in Sessions, Abort(s) PROVE AnswersAreEffects'
  BY <1>15, Live DEF Abort, Inv, At, Goto, End, Idle, Busy, AnswersAreEffects, ReceiptsTell,
    Effected, TypeOK
<1>16. ASSUME NEW s \in Sessions, ExpireStamped(s) PROVE AnswersAreEffects'
  BY <1>16, Live DEF ExpireStamped, Inv, At, Goto, End, Idle, Busy, AnswersAreEffects, ReceiptsTell,
    Effected, TypeOK
<1>17. ASSUME NEW i \in Identities, ExpireReceipt(i) PROVE AnswersAreEffects'
  BY <1>17, Live DEF ExpireReceipt, Inv, At, Goto, End, Idle, Busy, AnswersAreEffects, ReceiptsTell,
    Effected, TypeOK
<1>18. ASSUME NEW l \in {"active", "readOnly", "suspended"}, ChangePolicy(l) PROVE AnswersAreEffects'
  BY <1>18, Live DEF ChangePolicy, Inv, At, Goto, End, Idle, Busy, AnswersAreEffects, ReceiptsTell,
    Effected, TypeOK
<1>19. ASSUME UNCHANGED vars PROVE AnswersAreEffects'
  BY <1>19, Live DEF Inv, At, Goto, End, Idle, Busy, AnswersAreEffects, ReceiptsTell, Effected,
    TypeOK, vars
<1> QED BY <1>1, <1>2, <1>3, <1>4, <1>5, <1>6, <1>7, <1>8, <1>9, <1>10, <1>11, <1>12, <1>13, <1>14,
    <1>15, <1>16, <1>17, <1>18, <1>19 DEF Next, SessionNext

(* Every step keeps the invariant. *)
LEMMA NextInv == Inv /\ [Next]_vars => Inv'
BY TypeNext, EarlyNext, ScopedNext, ReservedNext, TellNext, UnbornNext, RowNext, ValueNext,
  HeldNext, ChainNext, AnswersNext DEF Inv

(* The invariant holds throughout. *)
LEMMA Invariant == Spec => []Inv
BY InitInv, NextInv, PTL DEF Spec

----------------------------------------------------------------------------
(* Types hold, and every answer, first or replayed, names a committed effect *)
(* of its own identity and payload: for any requests, sessions and faults.   *)
THEOREM ReceiptsSafe == Spec => []ReceiptsHold
<1>1. Inv => ReceiptsHold
  BY DEF Inv, ReceiptsHold
<1> QED BY <1>1, Invariant, PTL

(* No update is lost, each revision is one request's effect, and a unique    *)
(* value has one record, even a deleted one.                                 *)
THEOREM ChainsSafe == Spec => []ChainsHold
<1>1. Inv => ChainsHold
  BY DEF Inv, ChainsHold
<1> QED BY <1>1, Invariant, PTL

(* No step adds an effect whose receipt was current, or one that the policy  *)
(* of its space no longer admits.                                            *)
THEOREM EffectsOnce == Spec => EffectsHold
<1>1. ASSUME Inv, [Next]_vars PROVE [OneEffectPerReceipt /\ EffectsInScope]_vars
  <2> SUFFICES ASSUME NEW e \in effects' \ effects
               PROVE  receipts[e.req.id].expired /\ e.policy = space.policy /\ space.lifecycle = "active"
    BY DEF OneEffectPerReceipt, EffectsInScope
  <2>1. PICK s \in Sessions : CommitLands(s)
    BY <1>1 DEF Next, SessionNext, vars, Begin, CheckScope, Replay, Fresh, TakeSlot, CreateRecord,
      UpdateRecord,
       ReserveValue, Stamp, SendCommit, Refuse, Deadlock, AckTimeout, Abort, ExpireStamped, ExpireReceipt, ChangePolicy
  <2>2. ~session[s].replay
    BY <2>1, LandsReplay
  <2>3. e.req = session[s].req /\ e.policy = session[s].policy
    BY <2>1, <2>2, LandsEffect
  <2>4. session[s].pc = "commit"
    BY <1>1, <2>1, Lands
  <2> QED BY <1>1, <2>2, <2>3, <2>4 DEF Inv, Reserved, ReservedPcs, Scoped, InScopePcs
<1> QED BY <1>1, Invariant, PTL DEF Spec, EffectsHold

----------------------------------------------------------------------------
(* What a mutation read is what its COMMIT finds: the lifecycle its scope    *)
(* allows, the live record it names, and the receipt it replays.             *)
KeptOf(s) ==
    /\ session[s].pc \in InScopePcs => space.lifecycle \in {"active", "readOnly"}
    /\ Writes(s, RowPcs) /\ session[s].req.op # "create" =>
         session[s].record = session[s].req.record /\ records[session[s].record].live
    /\ session[s].pc # "idle" /\ session[s].replay =>
         /\ session[s].pc \in {"stamped", "commit"}
         /\ receipts[session[s].req.id].digest = session[s].req.digest
         /\ receipts[session[s].req.id].record = session[s].record
         /\ receipts[session[s].req.id].rev = session[s].rev

Kept == \A s \in Sessions : KeptOf(s)

(* A step of one transaction that commits nothing. *)
Quiet(s) ==
    /\ UNCHANGED <<records, receipts, space, answers>>
    /\ \A t \in Sessions \ {s} : session'[t] = session[t]

(* A step that writes no row keeps what the others hold. *)
LEMMA QuietKeeps ==
  ASSUME Kept, NEW s \in Sessions, Quiet(s), KeptOf(s)'
  PROVE  Kept'
<1>1. ASSUME NEW t \in Sessions \ {s} PROVE KeptOf(t)'
  BY DEF Quiet, Kept, KeptOf, Writes, At
<1> QED BY <1>1 DEF Kept

(* A step within a transaction writes no row. *)
LEMMA MovesQuiet ==
  ASSUME TypeOK, NEW s \in Sessions, NEW t, Goto(s, t), UNCHANGED <<records, receipts, space, answers>>
  PROVE  Quiet(s) /\ session'[s] = t
BY DEF TypeOK, Goto, Quiet

(* Where a transaction is not yet, or no longer, in its space there is nothing to keep. *)
LEMMA OutsideKeeps ==
  ASSUME NEW s \in Sessions, session'[s].pc = "idle" \/ (session'[s].pc = "begun" /\ ~session'[s].replay)
  PROVE  KeptOf(s)'
BY DEF KeptOf, Writes, At, InScopePcs, RowPcs

(* Every step but a COMMIT is such a step. *)
LEMMA QuietSteps ==
  ASSUME Inv, Kept, NEW s \in Sessions, SessionNext(s), ~CommitLands(s)
  PROVE  Quiet(s) /\ KeptOf(s)'
<1>1. /\ TypeOK /\ KeptOf(s)
      /\ session[s].pc \in {"begun", "scoped", "fresh", "slot"} => ~session[s].replay
  BY DEF Inv, Kept, Early
<1>2. CASE \E q \in Requests : Begin(s, q)
  <2>1. PICK q \in Requests : Begin(s, q)
    BY <1>2
  <2>2. Quiet(s) /\ session'[s] = Busy(q, space.policy)
    BY <1>1, <2>1, MovesQuiet DEF Begin
  <2> QED BY <2>2, OutsideKeeps DEF Busy
<1>3. CASE CheckScope(s)
  <2>1. /\ session[s] \in Transaction /\ session[s].pc = "begun"
        /\ Quiet(s) /\ session'[s] = [session[s] EXCEPT !.pc = "scoped"]
    BY <1>1, <1>3, Live, MovesQuiet DEF CheckScope, At
  <2>2. session'[s].pc = "scoped" /\ ~session'[s].replay
    BY <2>1, <1>1 DEF Transaction
  <2> QED BY <2>1, <2>2, <1>3 DEF KeptOf, Writes, At, RowPcs, CheckScope, InScope, Quiet
<1>4. CASE Replay(s)
  <2>1. /\ session[s] \in Transaction /\ session[s].pc = "scoped"
        /\ Quiet(s)
        /\ session'[s] = [session[s] EXCEPT !.pc = "stamped", !.replay = TRUE,
             !.record = receipts[session[s].req.id].record, !.rev = receipts[session[s].req.id].rev]
    BY <1>1, <1>4, Live, MovesQuiet DEF Replay, At
  <2>2. /\ session'[s].pc = "stamped" /\ session'[s].replay /\ session'[s].req = session[s].req
        /\ session'[s].record = receipts[session[s].req.id].record
        /\ session'[s].rev = receipts[session[s].req.id].rev
    BY <2>1 DEF Transaction
  <2>3. receipts[session[s].req.id].digest = session[s].req.digest
    BY <1>4 DEF Replay, SameRequest
  <2> QED BY <2>1, <2>2, <2>3, <1>1 DEF KeptOf, Writes, At, InScopePcs, Quiet
<1>5. CASE Fresh(s) \/ TakeSlot(s)
  <2>1. /\ session[s] \in Transaction /\ session[s].pc \in {"scoped", "fresh"} /\ Quiet(s)
        /\ \E pc \in {"fresh", "slot"} : session'[s] = [session[s] EXCEPT !.pc = pc]
    BY <1>1, <1>5, Live, MovesQuiet DEF Fresh, TakeSlot, At
  <2>2. session'[s].pc \in {"fresh", "slot"} /\ ~session'[s].replay
    BY <2>1, <1>1 DEF Transaction
  <2> QED BY <2>1, <2>2, <1>1 DEF KeptOf, Writes, At, RowPcs, InScopePcs, Quiet
<1>6. CASE CreateRecord(s)
  <2>1. PICK r \in Ids : Goto(s, [session[s] EXCEPT !.pc = "record", !.record = r, !.rev = FirstRevision])
    BY <1>6 DEF CreateRecord
  <2>2. /\ session[s] \in Transaction /\ session[s].pc = "slot" /\ session[s].req.op = "create" /\ Quiet(s)
        /\ session'[s] = [session[s] EXCEPT !.pc = "record", !.record = r, !.rev = FirstRevision]
    BY <1>1, <1>6, <2>1, Live, MovesQuiet DEF CreateRecord, At
  <2>3. session'[s].pc = "record" /\ session'[s].req = session[s].req /\ ~session'[s].replay
    BY <2>2, <1>1 DEF Transaction
  <2> QED BY <2>2, <2>3, <1>1 DEF KeptOf, InScopePcs, Quiet
<1>7. CASE UpdateRecord(s)
  <2>1. /\ session[s] \in Transaction /\ session[s].pc = "slot" /\ Quiet(s)
        /\ session'[s] = [session[s] EXCEPT !.pc = "record", !.record = session[s].req.record,
             !.rev = records[session[s].req.record].rev + 1,
             !.freed = IF session[s].req.op = "replace" THEN records[session[s].req.record].value ELSE NoValue]
    BY <1>1, <1>7, Live, MovesQuiet DEF UpdateRecord, At
  <2>2. /\ session'[s].pc = "record" /\ session'[s].req = session[s].req
        /\ session'[s].record = session[s].req.record /\ ~session'[s].replay
    BY <2>1, <1>1 DEF Transaction
  <2>3. records[session[s].req.record].live
    BY <1>7 DEF UpdateRecord, Matches
  <2> QED BY <2>1, <2>2, <2>3, <1>1 DEF KeptOf, InScopePcs, Quiet
<1>8. CASE ReserveValue(s) \/ Stamp(s) \/ SendCommit(s)
  <2>1. /\ session[s] \in Transaction /\ session[s].pc \in {"record", "written", "stamped"} /\ Quiet(s)
        /\ \E pc \in {"written", "stamped", "commit"} :
             /\ session'[s] = [session[s] EXCEPT !.pc = pc]
             /\ session[s].pc = "stamped" <=> pc = "commit"
             /\ session[s].pc = "written" <=> pc = "stamped"
    BY <1>1, <1>8, Live, MovesQuiet DEF ReserveValue, Stamp, SendCommit, At
  <2>2. /\ session'[s].pc \in {"written", "stamped", "commit"}
        /\ session'[s].req = session[s].req /\ session'[s].replay = session[s].replay
        /\ session'[s].record = session[s].record /\ session'[s].rev = session[s].rev
    BY <2>1 DEF Transaction
  <2> QED BY <2>1, <2>2, <1>1 DEF KeptOf, Writes, At, RowPcs, InScopePcs, Quiet
<1>9. CASE Refuse(s) \/ Abort(s)
  <2>1. Quiet(s) /\ session'[s] = Idle
    BY <1>1, <1>9, MovesQuiet DEF Refuse, Abort, End
  <2> QED BY <2>1, OutsideKeeps DEF Idle
<1>10. CASE Deadlock(s)
  <2>1. Quiet(s) /\ session'[s] = Busy(session[s].req, session[s].policy)
    BY <1>1, <1>10, MovesQuiet DEF Deadlock
  <2> QED BY <2>1, OutsideKeeps DEF Busy
<1>11. CASE AckTimeout(s) \/ ExpireStamped(s)
  <2>1. /\ session[s] \in Transaction /\ Quiet(s)
        /\ \/ session'[s] = [session[s] EXCEPT !.waiting = FALSE]
           \/ session'[s] = [session[s] EXCEPT !.expired = TRUE]
    BY <1>1, <1>11, Live, MovesQuiet DEF AckTimeout, ExpireStamped, Writes, At
  <2>2. /\ session'[s].pc = session[s].pc
        /\ session'[s].req = session[s].req /\ session'[s].replay = session[s].replay
        /\ session'[s].record = session[s].record /\ session'[s].rev = session[s].rev
    BY <2>1 DEF Transaction
  <2> QED BY <2>1, <2>2, <1>1 DEF KeptOf, Writes, At, Quiet
<1> QED BY <1>2, <1>3, <1>4, <1>5, <1>6, <1>7, <1>8, <1>9, <1>10, <1>11 DEF SessionNext

(* At first nobody holds anything. *)
LEMMA KeptInit == Init => Kept
BY DEF Init, Kept, KeptOf, Idle, Writes, At, InScopePcs, RowPcs

(* A COMMIT writes the one record it has locked and the one receipt it has reserved. *)
LEMMA CommitKeeps ==
  ASSUME Inv, Kept, NEW s \in Sessions, CommitLands(s)
  PROVE  Kept'
<1>1. /\ session'[s].pc = "idle" /\ \A t \in Sessions \ {s} : session'[t] = session[t]
      /\ space' = space
  BY DEF CommitLands, End, Goto, Inv, TypeOK, Idle
<1>2. KeptOf(s)'
  BY <1>1, OutsideKeeps
<1>3. ASSUME NEW t \in Sessions \ {s} PROVE KeptOf(t)'
  <2>1. KeptOf(t) /\ session'[t] = session[t]
    BY <1>1, <1>3 DEF Kept
  <2>2. CASE session[s].replay
    BY <2>1, <2>2, <1>1, LandsReplay DEF KeptOf, Writes, At
  <2>3. CASE ~session[s].replay
    <3>1. Writes(t, RowPcs) /\ session[t].req.op # "create" => records'[session[t].record] = records[session[t].record]
      <4>1. Writes(t, RowPcs) => session[t].record \in Ids \ {session[s].record}
        BY <1>3, <2>3, Lands DEF Inv, RowKept, Writes, At, RowPcs
      <4> QED BY <4>1, <2>3, LandsRecord
    <3>2. session[t].pc \in {"stamped", "commit"} => receipts'[session[t].req.id] = receipts[session[t].req.id]
      <4>1. session[t].pc \in {"stamped", "commit"} => session[t].req.id \in Identities \ {session[s].req.id}
        BY <1>3, Lands, Live DEF Inv, Reserved, ReservedPcs, InScopePcs, RequestType
      <4> QED BY <4>1, <2>3, LandsReceipt
    <3> QED BY <2>1, <1>1, <3>1, <3>2 DEF KeptOf, Writes, At
  <2> QED BY <2>2, <2>3
<1> QED BY <1>2, <1>3 DEF Kept

(* Every step keeps what is held. *)
LEMMA KeptNext == Inv /\ Kept /\ [Next]_vars => Kept'
<1> SUFFICES ASSUME Inv, Kept, [Next]_vars PROVE Kept'
  OBVIOUS
<1>1. ASSUME NEW s \in Sessions, SessionNext(s) PROVE Kept'
  <2>1. CASE CommitLands(s)
    BY <2>1, CommitKeeps
  <2>2. CASE ~CommitLands(s)
    BY <1>1, <2>2, QuietSteps, QuietKeeps
  <2> QED BY <2>1, <2>2
<1>2. ASSUME NEW i \in Identities, ExpireReceipt(i) PROVE Kept'
  <2>1. /\ UNCHANGED <<records, space, session>>
        /\ \A j \in Identities : /\ receipts'[j].digest = receipts[j].digest
                                 /\ receipts'[j].record = receipts[j].record /\ receipts'[j].rev = receipts[j].rev
    BY <1>2 DEF ExpireReceipt, Inv, TypeOK
  <2>2. ASSUME NEW s \in Sessions PROVE KeptOf(s)'
    <3>1. KeptOf(s) /\ (session[s].pc # "idle" => session[s].req.id \in Identities)
      BY Live DEF Inv, Kept, RequestType
    <3> QED BY <2>1, <3>1 DEF KeptOf, Writes, At
  <2> QED BY <2>2 DEF Kept
<1>3. ASSUME NEW l \in {"active", "readOnly", "suspended"}, ChangePolicy(l) PROVE Kept'
  <2>1. UNCHANGED <<records, receipts, session>> /\ \A s \in Sessions : session[s].pc \notin InScopePcs
    BY <1>3 DEF ChangePolicy, ScopeFree, At
  <2>2. ASSUME NEW s \in Sessions PROVE KeptOf(s)'
    BY <2>1 DEF Kept, KeptOf, Writes, At
  <2> QED BY <2>2 DEF Kept
<1>4. CASE UNCHANGED vars
  BY <1>4 DEF vars, Kept, KeptOf, Writes, At
<1> QED BY <1>1, <1>2, <1>3, <1>4 DEF Next

----------------------------------------------------------------------------
(* A fresh COMMIT is the ledger's Apply, for all it read still holds. *)
LEMMA CommitApplies ==
  ASSUME Inv, Kept, NEW s \in Sessions, CommitLands(s), ~session[s].replay
  PROVE  \E q \in Requests, r \in Ids : Ledger!Apply(q, r)
<1> DEFINE q == session[s].req
           r == session[s].record
<1>1. /\ q \in Requests /\ q \in RequestType /\ r \in Ids /\ session[s].pc = "commit"
      /\ session[s].rev = records[r].rev + 1 /\ session[s].rev = q.expected + 1 /\ records[r].rev \in Nat
      /\ session[s].expired \in BOOLEAN /\ Writes(s, RowPcs) /\ Writes(s, ValuePcs)
  BY Lands DEF Inv, RowKept, Writes, At, RowPcs, ValuePcs, TypeOK
<1>2. space.lifecycle = "active" /\ receipts[q.id].expired
  BY <1>1 DEF Inv, Scoped, Reserved, InScopePcs, ReservedPcs
<1>3. Ledger!Target(q, r)
  <2>1. CASE q.op = "create"
    <3>1. q.expected = 0
      BY <2>1, <1>1, MutationAssumed DEF MutationAssumption
    <3> QED BY <2>1, <3>1, <1>1 DEF Ledger!Target, RequestType
  <2>2. CASE q.op # "create"
    <3>1. r = q.record /\ records[r].live
      BY <2>2, <1>1 DEF Kept, KeptOf
    <3> QED BY <2>2, <3>1, <1>1 DEF Ledger!Target, RequestType
  <2> QED BY <2>1, <2>2
<1>4. Ledger!ValueUnheld(q, r)
  <2>1. SUFFICES ASSUME q.op # "delete", q.value # NoValue, NEW p \in Ids \ {r}, records[p].value = q.value
                 PROVE  FALSE
    BY DEF Ledger!ValueUnheld, Ledger!Ids, Ids
  <2>2. Wanted(s) = q.value /\ q.value \in Values
    BY <2>1, <1>1 DEF Wanted, RequestType
  <2>3. holder[q.value] = p /\ p # 0
    BY <2>1 DEF Inv, ValuesHeld, Ids
  <2>4. holder[q.value] \in {0, r}
    BY <1>1, <2>2 DEF Inv, ValueKept
  <2> QED BY <2>1, <2>3, <2>4
<1>5. /\ records' = [records EXCEPT ![r] =
                       [rev |-> records[r].rev + 1, live |-> q.op # "delete",
                        value |-> IF q.op = "delete" THEN records[r].value ELSE q.value]]
      /\ records'[r].rev = session[s].rev
  BY <1>1, LandsRecord DEF CommitLands
<1>6. receipts' = [receipts EXCEPT ![q.id] =
                     [digest |-> q.digest, record |-> r, rev |-> records'[r].rev, expired |-> session[s].expired]]
  BY <1>5 DEF CommitLands
<1>7. \/ answers' = answers \union {[req |-> q, record |-> r, rev |-> records'[r].rev]}
      \/ UNCHANGED answers
  BY <1>5 DEF CommitLands
<1>8. UNCHANGED space
  BY DEF CommitLands
<1>9. Ledger!Apply(q, r)
  <2> HIDE DEF q, r
  <2> QED BY <1>1, <1>2, <1>3, <1>4, <1>5, <1>6, <1>7, <1>8 DEF Ledger!Apply
<1> QED BY <1>1, <1>9

(* A replayed COMMIT is the ledger's Replay, or nothing where the client has gone. *)
LEMMA CommitReplays ==
  ASSUME Inv, Kept, NEW s \in Sessions, CommitLands(s), session[s].replay
  PROVE  [Ledger!Next]_(Ledger!vars)
<1> DEFINE q == session[s].req
<1>1. /\ q \in Requests /\ session[s].pc = "commit" /\ session[s].rev \in Nat \ {0}
      /\ receipts[q.id].digest = q.digest /\ receipts[q.id].record = session[s].record
      /\ receipts[q.id].rev = session[s].rev /\ space.lifecycle \in {"active", "readOnly"}
  BY Lands DEF Kept, KeptOf, InScopePcs
<1>2. UNCHANGED <<records, receipts, space>>
  BY LandsReplay
<1>3. CASE session[s].waiting
  <2>1. answers' = answers \union {[req |-> q, record |-> session[s].record, rev |-> session[s].rev]}
    BY <1>3 DEF CommitLands
  <2>2. receipts[q.id].rev > 0
    BY <1>1
  <2>3. Ledger!Replay(q)
    BY <1>1, <1>2, <2>1, <2>2 DEF Ledger!Replay
  <2> QED BY <1>1, <2>3 DEF Ledger!Next
<1>4. CASE ~session[s].waiting
  <2>1. UNCHANGED answers
    BY <1>4 DEF CommitLands
  <2> QED BY <1>2, <2>1 DEF Ledger!vars
<1> QED BY <1>3, <1>4

(* A step of the authority is one of the ledger, or none that it can tell. *)
LEMMA LedgerStep == ASSUME Inv, Kept, [Next]_vars PROVE [Ledger!Next]_(Ledger!vars)
<1>1. ASSUME NEW s \in Sessions, CommitLands(s) PROVE [Ledger!Next]_(Ledger!vars)
  <2>1. CASE session[s].replay
    BY <1>1, <2>1, CommitReplays
  <2>2. CASE ~session[s].replay
    BY <1>1, <2>2, CommitApplies DEF Ledger!Next, Ledger!Ids, Ids
  <2> QED BY <2>1, <2>2
<1>2. ASSUME NEW s \in Sessions, SessionNext(s), ~CommitLands(s) PROVE UNCHANGED Ledger!vars
  BY <1>2, QuietSteps DEF Quiet, Ledger!vars
<1>3. ASSUME NEW i \in Identities, ExpireReceipt(i) PROVE Ledger!Next
  BY <1>3 DEF ExpireReceipt, Ledger!RunOut, Ledger!Next
<1>4. ASSUME NEW l \in {"active", "readOnly", "suspended"}, ChangePolicy(l) PROVE Ledger!Next
  BY <1>4 DEF ChangePolicy, Ledger!ChangePolicy, Ledger!Next
<1>5. CASE UNCHANGED vars
  BY <1>5 DEF vars, Ledger!vars
<1> QED BY <1>1, <1>2, <1>3, <1>4, <1>5 DEF Next

(* The transaction of a mutation, whatever runs beside it, is one step of    *)
(* RecordLedger: at its COMMIT the record is at the revision it expects, its *)
(* value unheld, its receipt run out and the space active.                   *)
THEOREM MutationsAreAtomic == Spec => ImplementsLedger
<1>1. Init => Ledger!Init
  BY DEF Init, Ledger!Init, NoRecord, NoReceipt, Ids, Ledger!Ids
<1>2. Spec => []Kept
  BY KeptInit, KeptNext, Invariant, PTL DEF Spec
<1>3. Inv /\ Kept /\ [Next]_vars => [Ledger!Next]_(Ledger!vars)
  BY LedgerStep
<1> QED BY <1>1, <1>2, <1>3, Invariant, PTL DEF Spec, ImplementsLedger, Ledger!Spec

----------------------------------------------------------------------------
(* Batches: the part "batch" of the suite, whatever its constants are. *)

(* The batches' constants are as BatchIngestion assumes. *)
LEMMA BatchConstants == Ingesting!BatchAssumption
  BY SuiteAssumption

(* Before any call there is no batch, and nothing to agree about. *)
LEMMA BatchInitInv == Ingesting!Init => Ingesting!Inv
<1> SUFFICES ASSUME Ingesting!Init PROVE Ingesting!Inv
  OBVIOUS
<1> USE BatchConstants DEF Ingesting!Init, Ingesting!BatchAssumption
<1>1. Ingesting!Typed
  BY DEF Ingesting!Typed, Ingesting!NoItem, Ingesting!NoCall, Ingesting!Call, Ingesting!Pcs
<1>2. Ingesting!ItemsFollowBatch /\ Ingesting!ReceiptsFollowItems /\ Ingesting!ItemsTellEffects
  BY DEF Ingesting!ItemsFollowBatch, Ingesting!ReceiptsFollowItems, Ingesting!ItemsTellEffects,
    Ingesting!NoItem
<1>3. Ingesting!RowsHeld /\ Ingesting!WritersMay /\ Ingesting!PassedIsSettled
  BY DEF Ingesting!RowsHeld, Ingesting!WritersMay, Ingesting!PassedIsSettled, Ingesting!NoCall,
    Ingesting!AtItem
<1> QED BY <1>1, <1>2, <1>3 DEF Ingesting!Inv

(* A call that only goes on, as one of the steps it can be at. *)
LEMMA BatchGoes ==
  ASSUME Ingesting!Typed, NEW c \in BatchCallers, NEW pc \in Ingesting!Pcs, Ingesting!Goto(c, pc)
  PROVE  s6' \in [BatchCallers -> Ingesting!Call]
<1>1. [s6[c] EXCEPT !.pc = pc] \in Ingesting!Call
  BY DEF Ingesting!Typed, Ingesting!Call, Ingesting!Pcs
<1> QED BY <1>1 DEF Ingesting!Typed, Ingesting!Goto

(* A call that goes on and has passed an item. *)
LEMMA BatchGoesBy ==
  ASSUME Ingesting!Typed, NEW c \in BatchCallers, NEW pc \in Ingesting!Pcs, NEW o \in BatchItems,
         s6' = [s6 EXCEPT ![c].pc = pc, ![c].eligible = @ \ {o}]
  PROVE  s6' \in [BatchCallers -> Ingesting!Call]
<1>1. [s6[c] EXCEPT !.pc = pc, !.eligible = s6[c].eligible \ {o}] \in Ingesting!Call
  BY DEF Ingesting!Typed, Ingesting!Call, Ingesting!Pcs
<1> QED BY <1>1 DEF Ingesting!Typed

(* What taking rows does to their holders. *)
LEMMA BatchTakes ==
  ASSUME Ingesting!Typed, NEW c \in BatchCallers, NEW rows, Ingesting!Holding(c, rows)
  PROVE  /\ s5' \in [BatchItems \union {Ingesting!BatchRow} -> BatchCallers \union {None}]
         /\ \A r \in BatchItems \union {Ingesting!BatchRow} : s5'[r] = IF r \in rows THEN c ELSE s5[r]
  BY DEF Ingesting!Typed, Ingesting!Holding

(* What the end of a transaction does to the rows it held. *)
LEMMA BatchReleases ==
  ASSUME Ingesting!Typed, NEW c \in BatchCallers, Ingesting!Releasing(c)
  PROVE  /\ s5' \in [BatchItems \union {Ingesting!BatchRow} -> BatchCallers \union {None}]
         /\ \A r \in BatchItems \union {Ingesting!BatchRow} : s5'[r] = IF s5[r] = c THEN None ELSE s5[r]
  BY DEF Ingesting!Typed, Ingesting!Releasing

(* A call that begins, one that selects its items, and one that takes an item, are calls. *)
LEMMA BatchAsks ==
  ASSUME NEW k \in Ingesting!Call, NEW m \in BatchManifests, NEW retry \in BOOLEAN
  PROVE  [k EXCEPT !.pc = "start", !.manifest = m, !.retryFailed = retry] \in Ingesting!Call
  BY DEF Ingesting!Call, Ingesting!Pcs

(* A call that has read what is left of its batch is still a call. *)
LEMMA BatchSelects ==
  ASSUME NEW k \in Ingesting!Call, NEW pc \in Ingesting!Pcs, NEW rest \in SUBSET BatchItems
  PROVE  [k EXCEPT !.pc = pc, !.eligible = rest] \in Ingesting!Call
  BY DEF Ingesting!Call, Ingesting!Pcs

(* So is one that takes an item. *)
LEMMA BatchTakesItem ==
  ASSUME NEW k \in Ingesting!Call, NEW o \in BatchItems
  PROVE  [k EXCEPT !.pc = "writing", !.ordinal = o] \in Ingesting!Call
  BY DEF Ingesting!Call, Ingesting!Pcs


(* A call that begins touches no row. *)
LEMMA BatchBeginKeeps == ASSUME Ingesting!Inv, NEW c \in BatchCallers, Ingesting!Begin(c) PROVE Ingesting!Inv'
<1> USE BatchConstants DEF Ingesting!BatchAssumption, Ingesting!Inv, Ingesting!Goto, Ingesting!Free, Ingesting!Fault, Ingesting!Releasing, Ingesting!Begin, Ingesting!AtItem
<1>1. Ingesting!Typed'
  <2>1. PICK m \in BatchManifests, retry \in BOOLEAN :
          s6' = [s6 EXCEPT ![c].pc = "start", ![c].manifest = m, ![c].retryFailed = retry]
    OBVIOUS
  <2>2. s6[c] \in Ingesting!Call
    BY DEF Ingesting!Typed
  <2>3. [s6[c] EXCEPT !.pc = "start", !.manifest = m, !.retryFailed = retry] \in Ingesting!Call
    BY <2>2, BatchAsks
  <2>4. s6' \in [BatchCallers -> Ingesting!Call]
    BY <2>1, <2>3 DEF Ingesting!Typed
  <2> QED
    BY <2>4 DEF Ingesting!Typed
<1>2. Ingesting!ItemsFollowBatch'
  BY DEF Ingesting!Typed, Ingesting!ItemsFollowBatch, Ingesting!WritersMay,
    Ingesting!PassedIsSettled, Ingesting!Call
<1>3. Ingesting!ReceiptsFollowItems'
  BY DEF Ingesting!Typed, Ingesting!Call, Ingesting!ReceiptsFollowItems, Ingesting!WritersMay,
    Ingesting!ItemsFollowBatch
<1>4. Ingesting!ItemsTellEffects'
  BY DEF Ingesting!Typed, Ingesting!Call, Ingesting!ItemsTellEffects, Ingesting!ReceiptsFollowItems,
    Ingesting!ItemsFollowBatch, Ingesting!WritersMay
<1>5. Ingesting!RowsHeld'
  BY DEF Ingesting!Typed, Ingesting!Call, Ingesting!RowsHeld, Ingesting!WritersMay
<1>6. Ingesting!WritersMay'
  BY DEF Ingesting!Typed, Ingesting!Call, Ingesting!WritersMay, Ingesting!RowsHeld,
    Ingesting!ItemsFollowBatch, Ingesting!PassedIsSettled
<1>7. Ingesting!PassedIsSettled'
  BY DEF Ingesting!Typed, Ingesting!Call, Ingesting!PassedIsSettled, Ingesting!WritersMay,
    Ingesting!ItemsFollowBatch
<1> QED
  BY <1>1, <1>2, <1>3, <1>4, <1>5, <1>6, <1>7

(* A manifest commits: its items are inserted, and those that are settled are not the call's. *)
LEMMA BatchStartKeeps == ASSUME Ingesting!Inv, NEW c \in BatchCallers, Ingesting!Start(c) PROVE Ingesting!Inv'
<1> USE BatchConstants DEF Ingesting!BatchAssumption, Ingesting!Inv, Ingesting!Goto, Ingesting!Free, Ingesting!Fault, Ingesting!Releasing, Ingesting!Start, Ingesting!StartEffect, Ingesting!SameManifest, Ingesting!Eligible, Ingesting!AtItem
<1>1. Ingesting!Typed'
  <2>1. s6[c] \in Ingesting!Call /\ Ingesting!Eligible(c) \in SUBSET BatchItems
    BY DEF Ingesting!Typed
  <2>2. [s6[c] EXCEPT !.pc = "between", !.eligible = Ingesting!Eligible(c)] \in Ingesting!Call
    BY <2>1, BatchSelects DEF Ingesting!Pcs
  <2>3. s6' \in [BatchCallers -> Ingesting!Call]
    BY <2>2 DEF Ingesting!Typed
  <2>4. s6[c].manifest \in BatchManifests
    BY DEF Ingesting!WritersMay
  <2> QED
    BY <2>3, <2>4 DEF Ingesting!Typed
<1>2. Ingesting!ItemsFollowBatch'
  BY DEF Ingesting!Typed, Ingesting!ItemsFollowBatch, Ingesting!WritersMay,
    Ingesting!PassedIsSettled, Ingesting!Call
<1>3. Ingesting!ReceiptsFollowItems'
  BY DEF Ingesting!Typed, Ingesting!Call, Ingesting!ReceiptsFollowItems, Ingesting!WritersMay,
    Ingesting!ItemsFollowBatch
<1>4. Ingesting!ItemsTellEffects'
  BY DEF Ingesting!Typed, Ingesting!Call, Ingesting!ItemsTellEffects, Ingesting!ReceiptsFollowItems,
    Ingesting!ItemsFollowBatch, Ingesting!WritersMay
<1>5. Ingesting!RowsHeld'
  BY DEF Ingesting!Typed, Ingesting!Call, Ingesting!RowsHeld, Ingesting!WritersMay
<1>6. Ingesting!WritersMay'
  BY DEF Ingesting!Typed, Ingesting!Call, Ingesting!WritersMay, Ingesting!RowsHeld,
    Ingesting!ItemsFollowBatch, Ingesting!PassedIsSettled
<1>7. Ingesting!PassedIsSettled'
  BY DEF Ingesting!Typed, Ingesting!Call, Ingesting!PassedIsSettled, Ingesting!WritersMay,
    Ingesting!ItemsFollowBatch
<1> QED
  BY <1>1, <1>2, <1>3, <1>4, <1>5, <1>6, <1>7

(* So it does when its acknowledgement is lost. *)
LEMMA BatchStartUnknownKeeps == ASSUME Ingesting!Inv, NEW c \in BatchCallers, Ingesting!StartUnknown(c) PROVE Ingesting!Inv'
<1> USE BatchConstants DEF Ingesting!BatchAssumption, Ingesting!Inv, Ingesting!Goto, Ingesting!Free, Ingesting!Fault, Ingesting!Releasing, Ingesting!StartUnknown, Ingesting!StartEffect, Ingesting!SameManifest, Ingesting!AtItem
<1>1. Ingesting!Typed'
  <2>1. s6' \in [BatchCallers -> Ingesting!Call]
    BY BatchGoes DEF Ingesting!Pcs
  <2>2. s6[c].manifest \in BatchManifests
    BY DEF Ingesting!WritersMay
  <2> QED
    BY <2>1, <2>2 DEF Ingesting!Typed
<1>2. Ingesting!ItemsFollowBatch'
  BY DEF Ingesting!Typed, Ingesting!ItemsFollowBatch, Ingesting!WritersMay,
    Ingesting!PassedIsSettled, Ingesting!Call
<1>3. Ingesting!ReceiptsFollowItems'
  BY DEF Ingesting!Typed, Ingesting!Call, Ingesting!ReceiptsFollowItems, Ingesting!WritersMay,
    Ingesting!ItemsFollowBatch
<1>4. Ingesting!ItemsTellEffects'
  BY DEF Ingesting!Typed, Ingesting!Call, Ingesting!ItemsTellEffects, Ingesting!ReceiptsFollowItems,
    Ingesting!ItemsFollowBatch, Ingesting!WritersMay
<1>5. Ingesting!RowsHeld'
  BY DEF Ingesting!Typed, Ingesting!Call, Ingesting!RowsHeld, Ingesting!WritersMay
<1>6. Ingesting!WritersMay'
  BY DEF Ingesting!Typed, Ingesting!Call, Ingesting!WritersMay, Ingesting!RowsHeld,
    Ingesting!ItemsFollowBatch, Ingesting!PassedIsSettled
<1>7. Ingesting!PassedIsSettled'
  BY DEF Ingesting!Typed, Ingesting!Call, Ingesting!PassedIsSettled, Ingesting!WritersMay,
    Ingesting!ItemsFollowBatch
<1> QED
  BY <1>1, <1>2, <1>3, <1>4, <1>5, <1>6, <1>7

(* A manifest that conflicts changes nothing. *)
LEMMA BatchStartRefusedKeeps == ASSUME Ingesting!Inv, NEW c \in BatchCallers, Ingesting!StartRefused(c) PROVE Ingesting!Inv'
<1> USE BatchConstants DEF Ingesting!BatchAssumption, Ingesting!Inv, Ingesting!Goto, Ingesting!Free, Ingesting!Fault, Ingesting!Releasing, Ingesting!StartRefused, Ingesting!SameManifest, Ingesting!AtItem
<1>1. Ingesting!Typed'
  <2>1. s6' \in [BatchCallers -> Ingesting!Call]
    BY BatchGoes DEF Ingesting!Pcs
  <2> QED
    BY <2>1 DEF Ingesting!Typed, Ingesting!Call, Ingesting!ItemsFollowBatch,
      Ingesting!PassedIsSettled, Ingesting!WritersMay
<1>2. Ingesting!ItemsFollowBatch'
  BY DEF Ingesting!Typed, Ingesting!ItemsFollowBatch, Ingesting!WritersMay,
    Ingesting!PassedIsSettled, Ingesting!Call
<1>3. Ingesting!ReceiptsFollowItems'
  BY DEF Ingesting!Typed, Ingesting!Call, Ingesting!ReceiptsFollowItems, Ingesting!WritersMay,
    Ingesting!ItemsFollowBatch
<1>4. Ingesting!ItemsTellEffects'
  BY DEF Ingesting!Typed, Ingesting!Call, Ingesting!ItemsTellEffects, Ingesting!ReceiptsFollowItems,
    Ingesting!ItemsFollowBatch, Ingesting!WritersMay
<1>5. Ingesting!RowsHeld'
  BY DEF Ingesting!Typed, Ingesting!Call, Ingesting!RowsHeld, Ingesting!WritersMay
<1>6. Ingesting!WritersMay'
  BY DEF Ingesting!Typed, Ingesting!Call, Ingesting!WritersMay, Ingesting!RowsHeld,
    Ingesting!ItemsFollowBatch, Ingesting!PassedIsSettled
<1>7. Ingesting!PassedIsSettled'
  BY DEF Ingesting!Typed, Ingesting!Call, Ingesting!PassedIsSettled, Ingesting!WritersMay,
    Ingesting!ItemsFollowBatch
<1> QED
  BY <1>1, <1>2, <1>3, <1>4, <1>5, <1>6, <1>7

(* An item's transaction takes both rows free, of an active batch, or passes the item as settled. *)
LEMMA BatchLockKeeps == ASSUME Ingesting!Inv, NEW c \in BatchCallers, NEW o \in BatchItems, Ingesting!Lock(c, o) PROVE Ingesting!Inv'
<1>0. /\ Ingesting!Typed /\ Ingesting!ItemsFollowBatch /\ Ingesting!ReceiptsFollowItems /\ Ingesting!ItemsTellEffects
      /\ Ingesting!RowsHeld /\ Ingesting!WritersMay /\ Ingesting!PassedIsSettled
  BY DEF Ingesting!Inv
<1>1. /\ s6[c].pc = "between" /\ s1.state = "active" /\ Ingesting!Free(Ingesting!BatchRow) /\ Ingesting!Free(o)
      /\ UNCHANGED <<s1, s2, s3, s4, s7, s8>>
      /\ s6 \in [BatchCallers -> Ingesting!Call] /\ s6[c] \in Ingesting!Call
  BY <1>0 DEF Ingesting!Lock, Ingesting!CanLock, Ingesting!Typed
<1>2. (Ingesting!ItemsFollowBatch /\ Ingesting!ReceiptsFollowItems /\ Ingesting!ItemsTellEffects)'
  BY <1>0, <1>1 DEF Ingesting!ItemsFollowBatch, Ingesting!ReceiptsFollowItems,
    Ingesting!ItemsTellEffects
<1>3. CASE Ingesting!Settled(c, o)
  <2>1. UNCHANGED s5 /\ s6' = [s6 EXCEPT ![c].eligible = @ \ {o}]
    BY <1>3 DEF Ingesting!Lock
  <2>2. [s6[c] EXCEPT !.eligible = s6[c].eligible \ {o}] \in Ingesting!Call
    BY <1>1 DEF Ingesting!Call
  <2>3. s6' \in [BatchCallers -> Ingesting!Call]
    BY <1>1, <2>1, <2>2
  <2>4. Ingesting!Typed'
    BY <1>0, <1>1, <2>1, <2>3 DEF Ingesting!Typed
  <2>5. /\ s6'[c].eligible = s6[c].eligible \ {o}
        /\ \A d \in BatchCallers : /\ s6'[d].pc = s6[d].pc /\ s6'[d].ordinal = s6[d].ordinal
                                   /\ s6'[d].manifest = s6[d].manifest
                                   /\ d # c => s6'[d] = s6[d]
    BY <1>1, <2>1 DEF Ingesting!Call
  <2>6. (Ingesting!RowsHeld /\ Ingesting!WritersMay)'
    BY <1>0, <1>1, <2>1, <2>5 DEF Ingesting!RowsHeld, Ingesting!WritersMay
  <2>7. s2[o].state \in {"failed", "succeeded"}
    BY <1>3 DEF Ingesting!Settled
  <2>8. Ingesting!PassedIsSettled'
    BY <1>0, <1>1, <2>5, <2>7 DEF Ingesting!PassedIsSettled, Ingesting!AtItem
  <2> QED
    BY <1>2, <2>4, <2>6, <2>8 DEF Ingesting!Inv
<1>4. CASE ~Ingesting!Settled(c, o)
  <2>1. Ingesting!Holding(c, {Ingesting!BatchRow, o}) /\ s6' = [s6 EXCEPT ![c].pc = "writing", ![c].ordinal = o]
    BY <1>4 DEF Ingesting!Lock, Ingesting!LockedRows
  <2>2. s6' \in [BatchCallers -> Ingesting!Call]
    BY <1>1, <2>1, BatchTakesItem
  <2>3. /\ s6'[c].pc = "writing" /\ s6'[c].ordinal = o /\ s6'[c].eligible = s6[c].eligible
        /\ \A d \in BatchCallers : d # c => s6'[d] = s6[d]
    BY <1>1, <2>1 DEF Ingesting!Call
  <2>4. /\ s5' \in [BatchItems \union {Ingesting!BatchRow} -> BatchCallers \union {None}]
        /\ \A r \in BatchItems \union {Ingesting!BatchRow} : s5'[r] = IF r \in {Ingesting!BatchRow, o} THEN c ELSE s5[r]
    BY <1>0, <2>1, BatchTakes
  <2>5. Ingesting!Typed'
    BY <1>0, <1>1, <2>2, <2>4 DEF Ingesting!Typed
  <2>6. Ingesting!RowsHeld'
    BY BatchConstants, <1>0, <1>1, <2>3, <2>4 DEF Ingesting!RowsHeld, Ingesting!Free,
      Ingesting!BatchAssumption
  <2>7. s2[o].state # "succeeded"
    BY <1>4 DEF Ingesting!Settled
  <2>8. Ingesting!WritersMay'
    BY <1>0, <1>1, <2>3, <2>7 DEF Ingesting!WritersMay, Ingesting!AtItem
  <2>9. Ingesting!PassedIsSettled'
    BY <1>0, <1>1, <2>3 DEF Ingesting!PassedIsSettled, Ingesting!AtItem
  <2> QED
    BY <1>2, <2>5, <2>6, <2>8, <2>9 DEF Ingesting!Inv
<1> QED
  BY <1>3, <1>4

(* A call that finds the batch cancelled leaves it. *)
LEMMA BatchStopCancelledKeeps == ASSUME Ingesting!Inv, NEW c \in BatchCallers, NEW o \in BatchItems, Ingesting!StopCancelled(c, o) PROVE Ingesting!Inv'
<1> USE BatchConstants DEF Ingesting!BatchAssumption, Ingesting!Inv, Ingesting!Goto, Ingesting!Free, Ingesting!Fault, Ingesting!Releasing, Ingesting!StopCancelled, Ingesting!CanLock, Ingesting!AtItem
<1>1. Ingesting!Typed'
  <2>1. s6' \in [BatchCallers -> Ingesting!Call]
    BY BatchGoes DEF Ingesting!Pcs
  <2> QED
    BY <2>1 DEF Ingesting!Typed, Ingesting!Call, Ingesting!ItemsFollowBatch,
      Ingesting!PassedIsSettled, Ingesting!WritersMay
<1>2. Ingesting!ItemsFollowBatch'
  BY DEF Ingesting!Typed, Ingesting!ItemsFollowBatch, Ingesting!WritersMay,
    Ingesting!PassedIsSettled, Ingesting!Call
<1>3. Ingesting!ReceiptsFollowItems'
  BY DEF Ingesting!Typed, Ingesting!Call, Ingesting!ReceiptsFollowItems, Ingesting!WritersMay,
    Ingesting!ItemsFollowBatch
<1>4. Ingesting!ItemsTellEffects'
  BY DEF Ingesting!Typed, Ingesting!Call, Ingesting!ItemsTellEffects, Ingesting!ReceiptsFollowItems,
    Ingesting!ItemsFollowBatch, Ingesting!WritersMay
<1>5. Ingesting!RowsHeld'
  BY DEF Ingesting!Typed, Ingesting!Call, Ingesting!RowsHeld, Ingesting!WritersMay
<1>6. Ingesting!WritersMay'
  BY DEF Ingesting!Typed, Ingesting!Call, Ingesting!WritersMay, Ingesting!RowsHeld,
    Ingesting!ItemsFollowBatch, Ingesting!PassedIsSettled
<1>7. Ingesting!PassedIsSettled'
  BY DEF Ingesting!Typed, Ingesting!Call, Ingesting!PassedIsSettled, Ingesting!WritersMay,
    Ingesting!ItemsFollowBatch
<1> QED
  BY <1>1, <1>2, <1>3, <1>4, <1>5, <1>6, <1>7

(* An item that has not succeeded has no receipt, so the one effect is its first. *)
LEMMA BatchProcessItemKeeps == ASSUME Ingesting!Inv, NEW c \in BatchCallers, NEW o \in BatchItems, Ingesting!ProcessItem(c, o) PROVE Ingesting!Inv'
<1> USE BatchConstants DEF Ingesting!BatchAssumption, Ingesting!Inv, Ingesting!Goto, Ingesting!Free, Ingesting!Fault, Ingesting!Releasing, Ingesting!ProcessItem, Ingesting!Succeed, Ingesting!AtItem
<1>1. Ingesting!Typed'
  <2>1. s6' \in [BatchCallers -> Ingesting!Call]
    BY BatchGoesBy DEF Ingesting!Pcs
  <2>2. s5' \in [BatchItems \union {Ingesting!BatchRow} -> BatchCallers \union {None}]
    BY BatchReleases
  <2>3. s2' \in [BatchItems -> [state: {"none", "pending", "failed", "succeeded"},
                               text: BatchManifests \union {None}]]
    BY DEF Ingesting!Typed
  <2>4. s2[o].text \in BatchManifests
    BY DEF Ingesting!ItemsFollowBatch, Ingesting!PassedIsSettled
  <2>5. s4' \in [BatchItems -> Seq(BatchManifests)] /\ s3' \in [BatchItems -> {"none", "current", "expired"}]
    BY <2>4 DEF Ingesting!Typed
  <2>6. s7' \in [BatchCallers -> 0 .. BatchCalls] /\ s8' \in 0 .. BatchFaults /\ s1' = s1
    BY DEF Ingesting!Typed
  <2> QED
    BY <2>1, <2>2, <2>3, <2>5, <2>6 DEF Ingesting!Typed
<1>2. Ingesting!ItemsFollowBatch'
  BY DEF Ingesting!Typed, Ingesting!ItemsFollowBatch, Ingesting!WritersMay,
    Ingesting!PassedIsSettled, Ingesting!Call
<1>3. Ingesting!ReceiptsFollowItems'
  BY DEF Ingesting!Typed, Ingesting!Call, Ingesting!ReceiptsFollowItems, Ingesting!WritersMay,
    Ingesting!ItemsFollowBatch
<1>4. Ingesting!ItemsTellEffects'
  <2>1. s3[o] # "current" /\ s4[o] = <<>> /\ s2[o].text = s1.manifest
    BY DEF Ingesting!Typed, Ingesting!Call, Ingesting!ItemsTellEffects,
      Ingesting!ReceiptsFollowItems, Ingesting!ItemsFollowBatch, Ingesting!WritersMay,
      Ingesting!PassedIsSettled
  <2>2. s4'[o] = <<s1.manifest>> /\ s2'[o].state = "succeeded"
    BY <2>1 DEF Ingesting!Typed
  <2> QED
    BY <2>2 DEF Ingesting!Typed, Ingesting!ItemsTellEffects
<1>5. Ingesting!RowsHeld'
  BY DEF Ingesting!Typed, Ingesting!Call, Ingesting!RowsHeld, Ingesting!WritersMay
<1>6. Ingesting!WritersMay'
  BY DEF Ingesting!Typed, Ingesting!Call, Ingesting!WritersMay, Ingesting!RowsHeld,
    Ingesting!ItemsFollowBatch, Ingesting!PassedIsSettled
<1>7. Ingesting!PassedIsSettled'
  BY DEF Ingesting!Typed, Ingesting!Call, Ingesting!PassedIsSettled, Ingesting!WritersMay,
    Ingesting!ItemsFollowBatch
<1> QED
  BY <1>1, <1>2, <1>3, <1>4, <1>5, <1>6, <1>7

(* So it is when the acknowledgement is lost. *)
LEMMA BatchProcessUnknownKeeps == ASSUME Ingesting!Inv, NEW c \in BatchCallers, NEW o \in BatchItems, Ingesting!ProcessUnknown(c, o) PROVE Ingesting!Inv'
<1> USE BatchConstants DEF Ingesting!BatchAssumption, Ingesting!Inv, Ingesting!Goto, Ingesting!Free, Ingesting!Fault, Ingesting!Releasing, Ingesting!ProcessUnknown, Ingesting!Succeed, Ingesting!AtItem
<1>1. Ingesting!Typed'
  <2>1. s6' \in [BatchCallers -> Ingesting!Call]
    BY BatchGoes DEF Ingesting!Pcs
  <2>2. s5' \in [BatchItems \union {Ingesting!BatchRow} -> BatchCallers \union {None}]
    BY BatchReleases
  <2>3. s2' \in [BatchItems -> [state: {"none", "pending", "failed", "succeeded"},
                               text: BatchManifests \union {None}]]
    BY DEF Ingesting!Typed
  <2>4. s2[o].text \in BatchManifests
    BY DEF Ingesting!ItemsFollowBatch, Ingesting!PassedIsSettled
  <2>5. s4' \in [BatchItems -> Seq(BatchManifests)] /\ s3' \in [BatchItems -> {"none", "current", "expired"}]
    BY <2>4 DEF Ingesting!Typed
  <2>6. s7' \in [BatchCallers -> 0 .. BatchCalls] /\ s8' \in 0 .. BatchFaults /\ s1' = s1
    BY DEF Ingesting!Typed
  <2> QED
    BY <2>1, <2>2, <2>3, <2>5, <2>6 DEF Ingesting!Typed
<1>2. Ingesting!ItemsFollowBatch'
  BY DEF Ingesting!Typed, Ingesting!ItemsFollowBatch, Ingesting!WritersMay,
    Ingesting!PassedIsSettled, Ingesting!Call
<1>3. Ingesting!ReceiptsFollowItems'
  BY DEF Ingesting!Typed, Ingesting!Call, Ingesting!ReceiptsFollowItems, Ingesting!WritersMay,
    Ingesting!ItemsFollowBatch
<1>4. Ingesting!ItemsTellEffects'
  <2>1. s3[o] # "current" /\ s4[o] = <<>> /\ s2[o].text = s1.manifest
    BY DEF Ingesting!Typed, Ingesting!Call, Ingesting!ItemsTellEffects,
      Ingesting!ReceiptsFollowItems, Ingesting!ItemsFollowBatch, Ingesting!WritersMay,
      Ingesting!PassedIsSettled
  <2>2. s4'[o] = <<s1.manifest>> /\ s2'[o].state = "succeeded"
    BY <2>1 DEF Ingesting!Typed
  <2> QED
    BY <2>2 DEF Ingesting!Typed, Ingesting!ItemsTellEffects
<1>5. Ingesting!RowsHeld'
  BY DEF Ingesting!Typed, Ingesting!Call, Ingesting!RowsHeld, Ingesting!WritersMay
<1>6. Ingesting!WritersMay'
  BY DEF Ingesting!Typed, Ingesting!Call, Ingesting!WritersMay, Ingesting!RowsHeld,
    Ingesting!ItemsFollowBatch, Ingesting!PassedIsSettled
<1>7. Ingesting!PassedIsSettled'
  BY DEF Ingesting!Typed, Ingesting!Call, Ingesting!PassedIsSettled, Ingesting!WritersMay,
    Ingesting!ItemsFollowBatch
<1> QED
  BY <1>1, <1>2, <1>3, <1>4, <1>5, <1>6, <1>7

(* A transaction rolled back gives its rows back as they were. *)
LEMMA BatchItemFailsKeeps == ASSUME Ingesting!Inv, NEW c \in BatchCallers, Ingesting!ItemFails(c) PROVE Ingesting!Inv'
<1> USE BatchConstants DEF Ingesting!BatchAssumption, Ingesting!Inv, Ingesting!Goto, Ingesting!Free, Ingesting!Fault, Ingesting!Releasing, Ingesting!ItemFails, Ingesting!AtItem
<1>1. Ingesting!Typed'
  <2>1. s6' \in [BatchCallers -> Ingesting!Call]
    BY BatchGoes DEF Ingesting!Pcs
  <2> QED
    BY <2>1 DEF Ingesting!Typed, Ingesting!Call, Ingesting!ItemsFollowBatch,
      Ingesting!PassedIsSettled, Ingesting!WritersMay
<1>2. Ingesting!ItemsFollowBatch'
  BY DEF Ingesting!Typed, Ingesting!ItemsFollowBatch, Ingesting!WritersMay,
    Ingesting!PassedIsSettled, Ingesting!Call
<1>3. Ingesting!ReceiptsFollowItems'
  BY DEF Ingesting!Typed, Ingesting!Call, Ingesting!ReceiptsFollowItems, Ingesting!WritersMay,
    Ingesting!ItemsFollowBatch
<1>4. Ingesting!ItemsTellEffects'
  BY DEF Ingesting!Typed, Ingesting!Call, Ingesting!ItemsTellEffects, Ingesting!ReceiptsFollowItems,
    Ingesting!ItemsFollowBatch, Ingesting!WritersMay
<1>5. Ingesting!RowsHeld'
  BY DEF Ingesting!Typed, Ingesting!Call, Ingesting!RowsHeld, Ingesting!WritersMay
<1>6. Ingesting!WritersMay'
  BY DEF Ingesting!Typed, Ingesting!Call, Ingesting!WritersMay, Ingesting!RowsHeld,
    Ingesting!ItemsFollowBatch, Ingesting!PassedIsSettled
<1>7. Ingesting!PassedIsSettled'
  BY DEF Ingesting!Typed, Ingesting!Call, Ingesting!PassedIsSettled, Ingesting!WritersMay,
    Ingesting!ItemsFollowBatch
<1> QED
  BY <1>1, <1>2, <1>3, <1>4, <1>5, <1>6, <1>7

(* The batch a failure is recorded of has begun. *)
LEMMA BatchFailSnapshotKeeps == ASSUME Ingesting!Inv, NEW c \in BatchCallers, Ingesting!FailSnapshot(c) PROVE Ingesting!Inv'
<1> USE BatchConstants DEF Ingesting!BatchAssumption, Ingesting!Inv, Ingesting!Goto, Ingesting!Free, Ingesting!Fault, Ingesting!Releasing, Ingesting!FailSnapshot, Ingesting!AtItem
<1>1. Ingesting!Typed'
  <2>1. s1.state \in {"active", "cancelled"}
    BY DEF Ingesting!Typed, Ingesting!PassedIsSettled
  <2>2. [s6[c] EXCEPT !.pc = "recording", !.seen = s1.state] \in Ingesting!Call
    BY <2>1 DEF Ingesting!Typed, Ingesting!Call, Ingesting!Pcs
  <2> QED
    BY <2>2 DEF Ingesting!Typed
<1>2. Ingesting!ItemsFollowBatch'
  BY DEF Ingesting!Typed, Ingesting!ItemsFollowBatch, Ingesting!WritersMay,
    Ingesting!PassedIsSettled, Ingesting!Call
<1>3. Ingesting!ReceiptsFollowItems'
  BY DEF Ingesting!Typed, Ingesting!Call, Ingesting!ReceiptsFollowItems, Ingesting!WritersMay,
    Ingesting!ItemsFollowBatch
<1>4. Ingesting!ItemsTellEffects'
  BY DEF Ingesting!Typed, Ingesting!Call, Ingesting!ItemsTellEffects, Ingesting!ReceiptsFollowItems,
    Ingesting!ItemsFollowBatch, Ingesting!WritersMay
<1>5. Ingesting!RowsHeld'
  BY DEF Ingesting!Typed, Ingesting!Call, Ingesting!RowsHeld, Ingesting!WritersMay
<1>6. Ingesting!WritersMay'
  BY DEF Ingesting!Typed, Ingesting!Call, Ingesting!WritersMay, Ingesting!RowsHeld,
    Ingesting!ItemsFollowBatch, Ingesting!PassedIsSettled
<1>7. Ingesting!PassedIsSettled'
  BY DEF Ingesting!Typed, Ingesting!Call, Ingesting!PassedIsSettled, Ingesting!WritersMay,
    Ingesting!ItemsFollowBatch
<1> QED
  BY <1>1, <1>2, <1>3, <1>4, <1>5, <1>6, <1>7

(* A failure takes a row whose item it has just read as not succeeded. *)
LEMMA BatchFailUpdateKeeps == ASSUME Ingesting!Inv, NEW c \in BatchCallers, NEW o \in BatchItems, Ingesting!FailUpdate(c, o) PROVE Ingesting!Inv'
<1>0. /\ Ingesting!Typed /\ Ingesting!ItemsFollowBatch /\ Ingesting!ReceiptsFollowItems /\ Ingesting!ItemsTellEffects
      /\ Ingesting!RowsHeld /\ Ingesting!WritersMay /\ Ingesting!PassedIsSettled
  BY DEF Ingesting!Inv
<1>1. /\ s6[c].pc = "recording" /\ o = s6[c].ordinal /\ Ingesting!Free(o)
      /\ UNCHANGED <<s1, s2, s3, s4, s7, s8>>
      /\ s6 \in [BatchCallers -> Ingesting!Call] /\ s6[c] \in Ingesting!Call
  BY <1>0 DEF Ingesting!FailUpdate, Ingesting!Typed
<1>2. (Ingesting!ItemsFollowBatch /\ Ingesting!ReceiptsFollowItems /\ Ingesting!ItemsTellEffects)'
  BY <1>0, <1>1 DEF Ingesting!ItemsFollowBatch, Ingesting!ReceiptsFollowItems,
    Ingesting!ItemsTellEffects
<1>3. ASSUME NEW pc \in Ingesting!AtItem, Ingesting!Goto(c, pc)
      PROVE  /\ s6' \in [BatchCallers -> Ingesting!Call] /\ Ingesting!PassedIsSettled'
             /\ s6'[c].pc = pc /\ s6'[c].ordinal = o
             /\ \A d \in BatchCallers : d # c => s6'[d] = s6[d]
  <2>1. s6' \in [BatchCallers -> Ingesting!Call]
    BY <1>0, <1>3, BatchGoes DEF Ingesting!AtItem, Ingesting!Pcs
  <2>2. /\ s6'[c].pc = pc /\ s6'[c].ordinal = o /\ s6'[c].eligible = s6[c].eligible
        /\ \A d \in BatchCallers : d # c => s6'[d] = s6[d]
    BY <1>1, <1>3 DEF Ingesting!Goto, Ingesting!Call
  <2>3. Ingesting!PassedIsSettled'
    BY <1>0, <1>1, <2>2 DEF Ingesting!PassedIsSettled, Ingesting!AtItem
  <2> QED
    BY <2>1, <2>2, <2>3
<1>4. CASE Ingesting!Recordable(c, o)
  <2>1. Ingesting!Goto(c, "writingFailure") /\ Ingesting!Holding(c, {o})
    BY <1>4 DEF Ingesting!FailUpdate
  <2>2. /\ s6' \in [BatchCallers -> Ingesting!Call] /\ Ingesting!PassedIsSettled'
        /\ s6'[c].pc = "writingFailure" /\ s6'[c].ordinal = o
        /\ \A d \in BatchCallers : d # c => s6'[d] = s6[d]
    BY <1>3, <2>1 DEF Ingesting!AtItem
  <2>3. /\ s5' \in [BatchItems \union {Ingesting!BatchRow} -> BatchCallers \union {None}]
        /\ \A r \in BatchItems \union {Ingesting!BatchRow} : s5'[r] = IF r \in {o} THEN c ELSE s5[r]
    BY <1>0, <2>1, BatchTakes
  <2>4. Ingesting!Typed'
    BY <1>0, <1>1, <2>2, <2>3 DEF Ingesting!Typed
  <2>5. Ingesting!RowsHeld'
    BY BatchConstants, <1>0, <1>1, <2>2, <2>3 DEF Ingesting!RowsHeld, Ingesting!Free,
      Ingesting!BatchAssumption
  <2>6. Ingesting!WritersMay'
    BY <1>0, <1>1, <1>4, <2>2 DEF Ingesting!WritersMay, Ingesting!AtItem, Ingesting!Recordable
  <2> QED
    BY <1>2, <2>2, <2>4, <2>5, <2>6 DEF Ingesting!Inv
<1>5. CASE ~Ingesting!Recordable(c, o)
  <2>1. Ingesting!Goto(c, "unrecorded") /\ UNCHANGED s5
    BY <1>5 DEF Ingesting!FailUpdate
  <2>2. /\ s6' \in [BatchCallers -> Ingesting!Call] /\ Ingesting!PassedIsSettled'
        /\ s6'[c].pc = "unrecorded" /\ s6'[c].ordinal = o
        /\ \A d \in BatchCallers : d # c => s6'[d] = s6[d]
    BY <1>3, <2>1 DEF Ingesting!AtItem
  <2>3. Ingesting!Typed'
    BY <1>0, <1>1, <2>1, <2>2 DEF Ingesting!Typed
  <2>4. (Ingesting!RowsHeld /\ Ingesting!WritersMay)'
    BY <1>0, <1>1, <2>1, <2>2 DEF Ingesting!RowsHeld, Ingesting!WritersMay, Ingesting!AtItem
  <2> QED
    BY <1>2, <2>2, <2>3, <2>4 DEF Ingesting!Inv
<1> QED
  BY <1>4, <1>5

(* The item is as the failure read it, for the row was held since. *)
LEMMA BatchFailItemKeeps == ASSUME Ingesting!Inv, NEW c \in BatchCallers, NEW o \in BatchItems, Ingesting!FailItem(c, o) PROVE Ingesting!Inv'
<1> USE BatchConstants DEF Ingesting!BatchAssumption, Ingesting!Inv, Ingesting!Goto, Ingesting!Free, Ingesting!Fault, Ingesting!Releasing, Ingesting!FailItem, Ingesting!Fail, Ingesting!AtItem
<1>1. Ingesting!Typed'
  <2>1. s6' \in [BatchCallers -> Ingesting!Call]
    BY BatchGoesBy DEF Ingesting!Pcs
  <2>2. s5' \in [BatchItems \union {Ingesting!BatchRow} -> BatchCallers \union {None}]
    BY BatchReleases
  <2>3. s2' \in [BatchItems -> [state: {"none", "pending", "failed", "succeeded"},
                               text: BatchManifests \union {None}]]
    BY DEF Ingesting!Typed
  <2>6. s7' \in [BatchCallers -> 0 .. BatchCalls] /\ s8' \in 0 .. BatchFaults /\ s1' = s1
    BY DEF Ingesting!Typed
  <2> QED
    BY <2>1, <2>2, <2>3, <2>6 DEF Ingesting!Typed
<1>2. Ingesting!ItemsFollowBatch'
  BY DEF Ingesting!Typed, Ingesting!ItemsFollowBatch, Ingesting!WritersMay,
    Ingesting!PassedIsSettled, Ingesting!Call
<1>3. Ingesting!ReceiptsFollowItems'
  BY DEF Ingesting!Typed, Ingesting!Call, Ingesting!ReceiptsFollowItems, Ingesting!WritersMay,
    Ingesting!ItemsFollowBatch
<1>4. Ingesting!ItemsTellEffects'
  BY DEF Ingesting!Typed, Ingesting!Call, Ingesting!ItemsTellEffects, Ingesting!ReceiptsFollowItems,
    Ingesting!ItemsFollowBatch, Ingesting!WritersMay
<1>5. Ingesting!RowsHeld'
  BY DEF Ingesting!Typed, Ingesting!Call, Ingesting!RowsHeld, Ingesting!WritersMay
<1>6. Ingesting!WritersMay'
  BY DEF Ingesting!Typed, Ingesting!Call, Ingesting!WritersMay, Ingesting!RowsHeld,
    Ingesting!ItemsFollowBatch, Ingesting!PassedIsSettled
<1>7. Ingesting!PassedIsSettled'
  BY DEF Ingesting!Typed, Ingesting!Call, Ingesting!PassedIsSettled, Ingesting!WritersMay,
    Ingesting!ItemsFollowBatch
<1> QED
  BY <1>1, <1>2, <1>3, <1>4, <1>5, <1>6, <1>7

(* So it is when the acknowledgement is lost. *)
LEMMA BatchFailUnknownKeeps == ASSUME Ingesting!Inv, NEW c \in BatchCallers, NEW o \in BatchItems, Ingesting!FailUnknown(c, o) PROVE Ingesting!Inv'
<1> USE BatchConstants DEF Ingesting!BatchAssumption, Ingesting!Inv, Ingesting!Goto, Ingesting!Free, Ingesting!Fault, Ingesting!Releasing, Ingesting!FailUnknown, Ingesting!Fail, Ingesting!AtItem
<1>1. Ingesting!Typed'
  <2>1. s6' \in [BatchCallers -> Ingesting!Call]
    BY BatchGoes DEF Ingesting!Pcs
  <2>2. s5' \in [BatchItems \union {Ingesting!BatchRow} -> BatchCallers \union {None}]
    BY BatchReleases
  <2>3. s2' \in [BatchItems -> [state: {"none", "pending", "failed", "succeeded"},
                               text: BatchManifests \union {None}]]
    BY DEF Ingesting!Typed
  <2>6. s7' \in [BatchCallers -> 0 .. BatchCalls] /\ s8' \in 0 .. BatchFaults /\ s1' = s1
    BY DEF Ingesting!Typed
  <2> QED
    BY <2>1, <2>2, <2>3, <2>6 DEF Ingesting!Typed
<1>2. Ingesting!ItemsFollowBatch'
  BY DEF Ingesting!Typed, Ingesting!ItemsFollowBatch, Ingesting!WritersMay,
    Ingesting!PassedIsSettled, Ingesting!Call
<1>3. Ingesting!ReceiptsFollowItems'
  BY DEF Ingesting!Typed, Ingesting!Call, Ingesting!ReceiptsFollowItems, Ingesting!WritersMay,
    Ingesting!ItemsFollowBatch
<1>4. Ingesting!ItemsTellEffects'
  BY DEF Ingesting!Typed, Ingesting!Call, Ingesting!ItemsTellEffects, Ingesting!ReceiptsFollowItems,
    Ingesting!ItemsFollowBatch, Ingesting!WritersMay
<1>5. Ingesting!RowsHeld'
  BY DEF Ingesting!Typed, Ingesting!Call, Ingesting!RowsHeld, Ingesting!WritersMay
<1>6. Ingesting!WritersMay'
  BY DEF Ingesting!Typed, Ingesting!Call, Ingesting!WritersMay, Ingesting!RowsHeld,
    Ingesting!ItemsFollowBatch, Ingesting!PassedIsSettled
<1>7. Ingesting!PassedIsSettled'
  BY DEF Ingesting!Typed, Ingesting!Call, Ingesting!PassedIsSettled, Ingesting!WritersMay,
    Ingesting!ItemsFollowBatch
<1> QED
  BY <1>1, <1>2, <1>3, <1>4, <1>5, <1>6, <1>7

(* A call goes on after a failure it did not record only past an item that succeeded. *)
LEMMA BatchUnrecordedKeeps == ASSUME Ingesting!Inv, NEW c \in BatchCallers, NEW o \in BatchItems, Ingesting!Unrecorded(c, o) PROVE Ingesting!Inv'
<1> USE BatchConstants DEF Ingesting!BatchAssumption, Ingesting!Inv, Ingesting!Goto, Ingesting!Free, Ingesting!Fault, Ingesting!Releasing, Ingesting!Unrecorded, Ingesting!Verdict, Ingesting!AtItem
<1>1. Ingesting!Typed'
  <2>1. s6' \in [BatchCallers -> Ingesting!Call]
    BY BatchGoesBy DEF Ingesting!Pcs
  <2> QED
    BY <2>1 DEF Ingesting!Typed, Ingesting!Call, Ingesting!ItemsFollowBatch,
      Ingesting!PassedIsSettled, Ingesting!WritersMay
<1>2. Ingesting!ItemsFollowBatch'
  BY DEF Ingesting!Typed, Ingesting!ItemsFollowBatch, Ingesting!WritersMay,
    Ingesting!PassedIsSettled, Ingesting!Call
<1>3. Ingesting!ReceiptsFollowItems'
  BY DEF Ingesting!Typed, Ingesting!Call, Ingesting!ReceiptsFollowItems, Ingesting!WritersMay,
    Ingesting!ItemsFollowBatch
<1>4. Ingesting!ItemsTellEffects'
  BY DEF Ingesting!Typed, Ingesting!Call, Ingesting!ItemsTellEffects, Ingesting!ReceiptsFollowItems,
    Ingesting!ItemsFollowBatch, Ingesting!WritersMay
<1>5. Ingesting!RowsHeld'
  BY DEF Ingesting!Typed, Ingesting!Call, Ingesting!RowsHeld, Ingesting!WritersMay
<1>6. Ingesting!WritersMay'
  BY DEF Ingesting!Typed, Ingesting!Call, Ingesting!WritersMay, Ingesting!RowsHeld,
    Ingesting!ItemsFollowBatch, Ingesting!PassedIsSettled
<1>7. Ingesting!PassedIsSettled'
  BY DEF Ingesting!Typed, Ingesting!Call, Ingesting!PassedIsSettled, Ingesting!WritersMay,
    Ingesting!ItemsFollowBatch
<1> QED
  BY <1>1, <1>2, <1>3, <1>4, <1>5, <1>6, <1>7

(* A call answers when nothing is left to it. *)
LEMMA BatchAnswerKeeps == ASSUME Ingesting!Inv, NEW c \in BatchCallers, Ingesting!Answer(c) PROVE Ingesting!Inv'
<1> USE BatchConstants DEF Ingesting!BatchAssumption, Ingesting!Inv, Ingesting!Goto, Ingesting!Free, Ingesting!Fault, Ingesting!Releasing, Ingesting!Answer, Ingesting!AtItem
<1>1. Ingesting!Typed'
  <2>1. s6' \in [BatchCallers -> Ingesting!Call]
    BY BatchGoes DEF Ingesting!Pcs
  <2> QED
    BY <2>1 DEF Ingesting!Typed, Ingesting!Call, Ingesting!ItemsFollowBatch,
      Ingesting!PassedIsSettled, Ingesting!WritersMay
<1>2. Ingesting!ItemsFollowBatch'
  BY DEF Ingesting!Typed, Ingesting!ItemsFollowBatch, Ingesting!WritersMay,
    Ingesting!PassedIsSettled, Ingesting!Call
<1>3. Ingesting!ReceiptsFollowItems'
  BY DEF Ingesting!Typed, Ingesting!Call, Ingesting!ReceiptsFollowItems, Ingesting!WritersMay,
    Ingesting!ItemsFollowBatch
<1>4. Ingesting!ItemsTellEffects'
  BY DEF Ingesting!Typed, Ingesting!Call, Ingesting!ItemsTellEffects, Ingesting!ReceiptsFollowItems,
    Ingesting!ItemsFollowBatch, Ingesting!WritersMay
<1>5. Ingesting!RowsHeld'
  BY DEF Ingesting!Typed, Ingesting!Call, Ingesting!RowsHeld, Ingesting!WritersMay
<1>6. Ingesting!WritersMay'
  BY DEF Ingesting!Typed, Ingesting!Call, Ingesting!WritersMay, Ingesting!RowsHeld,
    Ingesting!ItemsFollowBatch, Ingesting!PassedIsSettled
<1>7. Ingesting!PassedIsSettled'
  BY DEF Ingesting!Typed, Ingesting!Call, Ingesting!PassedIsSettled, Ingesting!WritersMay,
    Ingesting!ItemsFollowBatch
<1> QED
  BY <1>1, <1>2, <1>3, <1>4, <1>5, <1>6, <1>7

(* A call that ends early gives its rows back. *)
LEMMA BatchThrowKeeps == ASSUME Ingesting!Inv, NEW c \in BatchCallers, Ingesting!Throw(c) PROVE Ingesting!Inv'
<1> USE BatchConstants DEF Ingesting!BatchAssumption, Ingesting!Inv, Ingesting!Goto, Ingesting!Free, Ingesting!Fault, Ingesting!Releasing, Ingesting!Throw, Ingesting!AtItem
<1>1. Ingesting!Typed'
  <2>1. s6' \in [BatchCallers -> Ingesting!Call]
    BY BatchGoes DEF Ingesting!Pcs
  <2>2. s5' \in [BatchItems \union {Ingesting!BatchRow} -> BatchCallers \union {None}]
    BY BatchReleases
  <2> QED
    BY <2>1, <2>2 DEF Ingesting!Typed
<1>2. Ingesting!ItemsFollowBatch'
  BY DEF Ingesting!Typed, Ingesting!ItemsFollowBatch, Ingesting!WritersMay,
    Ingesting!PassedIsSettled, Ingesting!Call
<1>3. Ingesting!ReceiptsFollowItems'
  BY DEF Ingesting!Typed, Ingesting!Call, Ingesting!ReceiptsFollowItems, Ingesting!WritersMay,
    Ingesting!ItemsFollowBatch
<1>4. Ingesting!ItemsTellEffects'
  BY DEF Ingesting!Typed, Ingesting!Call, Ingesting!ItemsTellEffects, Ingesting!ReceiptsFollowItems,
    Ingesting!ItemsFollowBatch, Ingesting!WritersMay
<1>5. Ingesting!RowsHeld'
  BY DEF Ingesting!Typed, Ingesting!Call, Ingesting!RowsHeld, Ingesting!WritersMay
<1>6. Ingesting!WritersMay'
  BY DEF Ingesting!Typed, Ingesting!Call, Ingesting!WritersMay, Ingesting!RowsHeld,
    Ingesting!ItemsFollowBatch, Ingesting!PassedIsSettled
<1>7. Ingesting!PassedIsSettled'
  BY DEF Ingesting!Typed, Ingesting!Call, Ingesting!PassedIsSettled, Ingesting!WritersMay,
    Ingesting!ItemsFollowBatch
<1> QED
  BY <1>1, <1>2, <1>3, <1>4, <1>5, <1>6, <1>7

(* Nobody writes an item while the batch row is free. *)
LEMMA BatchCancelKeeps == ASSUME Ingesting!Inv, Ingesting!Cancel PROVE Ingesting!Inv'
<1> USE BatchConstants DEF Ingesting!BatchAssumption, Ingesting!Inv, Ingesting!Goto, Ingesting!Free, Ingesting!Fault, Ingesting!Releasing, Ingesting!Cancel, Ingesting!AtItem
<1>1. Ingesting!Typed'
  BY DEF Ingesting!Typed, Ingesting!Call, Ingesting!ItemsFollowBatch, Ingesting!PassedIsSettled,
    Ingesting!WritersMay, Ingesting!RowsHeld
<1>2. Ingesting!ItemsFollowBatch'
  BY DEF Ingesting!Typed, Ingesting!ItemsFollowBatch, Ingesting!WritersMay,
    Ingesting!PassedIsSettled, Ingesting!Call
<1>3. Ingesting!ReceiptsFollowItems'
  BY DEF Ingesting!Typed, Ingesting!Call, Ingesting!ReceiptsFollowItems, Ingesting!WritersMay,
    Ingesting!ItemsFollowBatch
<1>4. Ingesting!ItemsTellEffects'
  BY DEF Ingesting!Typed, Ingesting!Call, Ingesting!ItemsTellEffects, Ingesting!ReceiptsFollowItems,
    Ingesting!ItemsFollowBatch, Ingesting!WritersMay
<1>5. Ingesting!RowsHeld'
  BY DEF Ingesting!Typed, Ingesting!Call, Ingesting!RowsHeld, Ingesting!WritersMay
<1>6. Ingesting!WritersMay'
  BY DEF Ingesting!Typed, Ingesting!Call, Ingesting!WritersMay, Ingesting!RowsHeld,
    Ingesting!ItemsFollowBatch, Ingesting!PassedIsSettled
<1>7. Ingesting!PassedIsSettled'
  BY DEF Ingesting!Typed, Ingesting!Call, Ingesting!PassedIsSettled, Ingesting!WritersMay,
    Ingesting!ItemsFollowBatch
<1> QED
  BY <1>1, <1>2, <1>3, <1>4, <1>5, <1>6, <1>7

(* A receipt that expires is its item's all the same. *)
LEMMA BatchExpireReceiptKeeps == ASSUME Ingesting!Inv, NEW o \in BatchItems, Ingesting!ExpireReceipt(o) PROVE Ingesting!Inv'
<1> USE BatchConstants DEF Ingesting!BatchAssumption, Ingesting!Inv, Ingesting!Goto, Ingesting!Free, Ingesting!Fault, Ingesting!Releasing, Ingesting!ExpireReceipt, Ingesting!AtItem
<1>1. Ingesting!Typed'
  BY DEF Ingesting!Typed, Ingesting!Call, Ingesting!ItemsFollowBatch, Ingesting!PassedIsSettled,
    Ingesting!WritersMay, Ingesting!RowsHeld
<1>2. Ingesting!ItemsFollowBatch'
  BY DEF Ingesting!Typed, Ingesting!ItemsFollowBatch, Ingesting!WritersMay,
    Ingesting!PassedIsSettled, Ingesting!Call
<1>3. Ingesting!ReceiptsFollowItems'
  BY DEF Ingesting!Typed, Ingesting!Call, Ingesting!ReceiptsFollowItems, Ingesting!WritersMay,
    Ingesting!ItemsFollowBatch
<1>4. Ingesting!ItemsTellEffects'
  BY DEF Ingesting!Typed, Ingesting!Call, Ingesting!ItemsTellEffects, Ingesting!ReceiptsFollowItems,
    Ingesting!ItemsFollowBatch, Ingesting!WritersMay
<1>5. Ingesting!RowsHeld'
  BY DEF Ingesting!Typed, Ingesting!Call, Ingesting!RowsHeld, Ingesting!WritersMay
<1>6. Ingesting!WritersMay'
  BY DEF Ingesting!Typed, Ingesting!Call, Ingesting!WritersMay, Ingesting!RowsHeld,
    Ingesting!ItemsFollowBatch, Ingesting!PassedIsSettled
<1>7. Ingesting!PassedIsSettled'
  BY DEF Ingesting!Typed, Ingesting!Call, Ingesting!PassedIsSettled, Ingesting!WritersMay,
    Ingesting!ItemsFollowBatch
<1> QED
  BY <1>1, <1>2, <1>3, <1>4, <1>5, <1>6, <1>7

(* Every step of a batch keeps the invariant. *)
LEMMA BatchStepKeeps == ASSUME Ingesting!Inv, [Ingesting!Next]_(Ingesting!vars) PROVE Ingesting!Inv'
<1>1. CASE UNCHANGED Ingesting!vars
  BY <1>1 DEF Ingesting!vars, Ingesting!Inv, Ingesting!Typed, Ingesting!ItemsFollowBatch,
    Ingesting!ReceiptsFollowItems, Ingesting!ItemsTellEffects, Ingesting!RowsHeld,
     Ingesting!WritersMay, Ingesting!PassedIsSettled
<1>2. CASE Ingesting!Next
  <2>1. ASSUME NEW c \in BatchCallers, Ingesting!Begin(c) \/ Ingesting!CallNext(c) \/ Ingesting!FaultNext(c) PROVE Ingesting!Inv'
    <3>1. CASE Ingesting!Begin(c) \/ Ingesting!Start(c) \/ Ingesting!StartRefused(c) \/ Ingesting!ItemFails(c) \/ Ingesting!FailSnapshot(c) \/ Ingesting!Answer(c)
      BY <3>1, BatchBeginKeeps, BatchStartKeeps, BatchStartRefusedKeeps, BatchItemFailsKeeps,
        BatchFailSnapshotKeeps, BatchAnswerKeeps
    <3>2. CASE Ingesting!StartUnknown(c) \/ Ingesting!Throw(c)
      BY <3>2, BatchStartUnknownKeeps, BatchThrowKeeps
    <3>3. ASSUME NEW o \in BatchItems, \/ Ingesting!Lock(c, o) \/ Ingesting!StopCancelled(c, o) \/ Ingesting!ProcessItem(c, o)
                                       \/ Ingesting!FailUpdate(c, o) \/ Ingesting!FailItem(c, o) \/ Ingesting!Unrecorded(c, o)
          PROVE Ingesting!Inv'
      BY <3>3, BatchLockKeeps, BatchStopCancelledKeeps, BatchProcessItemKeeps, BatchFailUpdateKeeps,
        BatchFailItemKeeps,
         BatchUnrecordedKeeps
    <3>4. ASSUME NEW o \in BatchItems, Ingesting!ProcessUnknown(c, o) \/ Ingesting!FailUnknown(c, o) PROVE Ingesting!Inv'
      BY <3>4, BatchProcessUnknownKeeps, BatchFailUnknownKeeps
    <3> QED
      BY <2>1, <3>1, <3>2, <3>3, <3>4 DEF Ingesting!CallNext, Ingesting!FaultNext
  <2>2. ASSUME NEW o \in BatchItems, Ingesting!ExpireReceipt(o) PROVE Ingesting!Inv'
    BY <2>2, BatchExpireReceiptKeeps
  <2> QED
    BY <1>2, <2>1, <2>2, BatchCancelKeeps DEF Ingesting!Next
<1> QED
  BY <1>1, <1>2

(* The invariant says what the batch promises. *)
LEMMA BatchInvTells == Ingesting!Inv => Ingesting!TypeOK /\ Ingesting!ItemsTellEffects /\ Ingesting!AnsweredMeansSettled
<1> SUFFICES ASSUME Ingesting!Inv PROVE Ingesting!TypeOK /\ Ingesting!ItemsTellEffects /\ Ingesting!AnsweredMeansSettled
  OBVIOUS
<1>1. Ingesting!Typed /\ Ingesting!ItemsTellEffects /\ Ingesting!RowsHeld /\ Ingesting!PassedIsSettled
  BY DEF Ingesting!Inv
<1>2. Ingesting!TypeOK
  BY <1>1 DEF Ingesting!TypeOK, Ingesting!Typed, Ingesting!RowsHeld
<1>3. Ingesting!AnsweredMeansSettled
  BY <1>1 DEF Ingesting!AnsweredMeansSettled, Ingesting!PassedIsSettled
<1> QED
  BY <1>1, <1>2, <1>3

(* An item takes effect under the batch's row, which a cancellation cannot have had since. *)
LEMMA BatchCancelStops == ASSUME Ingesting!Inv, [Ingesting!Next]_(Ingesting!vars) PROVE Ingesting!CancelStopsEffects
<1> SUFFICES ASSUME s1.state = "cancelled" PROVE UNCHANGED s4
  BY DEF Ingesting!CancelStopsEffects
<1>1. ASSUME NEW c \in BatchCallers, NEW o \in BatchItems, Ingesting!ProcessItem(c, o) \/ Ingesting!ProcessUnknown(c, o) PROVE FALSE
  BY <1>1 DEF Ingesting!ProcessItem, Ingesting!ProcessUnknown, Ingesting!Succeed, Ingesting!Inv,
    Ingesting!WritersMay
<1> QED
  BY <1>1 DEF Ingesting!Next, Ingesting!vars, Ingesting!CallNext, Ingesting!FaultNext,
    Ingesting!Begin, Ingesting!Start, Ingesting!StartUnknown, Ingesting!StartRefused,
    Ingesting!Lock, Ingesting!StopCancelled,
     Ingesting!ItemFails, Ingesting!FailSnapshot, Ingesting!FailUpdate, Ingesting!FailItem, Ingesting!Fail, Ingesting!FailUnknown, Ingesting!Unrecorded, Ingesting!Answer, Ingesting!Throw, Ingesting!Cancel,
     Ingesting!ExpireReceipt

----------------------------------------------------------------------------
(* Claims: the parts "claims" and "sources". *)

(* The claims' constants are as Claims assumes. *)
LEMMA ClaimConstants == Claiming!ClaimsAssumption
  BY SuiteAssumption

(* What holds of every call. *)
ClaimCallHolds(c) == Claiming!AskedRight(c) /\ Claiming!InPlace(c) /\ Claiming!FoundOfSource(c) /\ Claiming!FoundOfClaim(c) /\ Claiming!Told(c)

(* Cardinalities are what they are. *)
LEMMA ClaimCounts == \A S : Claiming!Cardinality(S) = Cardinality(S) /\ (Claiming!IsFiniteSet(S) <=> IsFiniteSet(S))
  BY DEF Claiming!Cardinality, Cardinality, Claiming!IsFiniteSet, IsFiniteSet

ClaimCallRecord == [pc : Claiming!Pcs, request : Claiming!Request, answer : Claiming!Answers, entry : Nat, planned : BOOLEAN]

(* The invariant, call by call. *)
LEMMA ClaimInvParts == Claiming!Inv <=> Claiming!Typed /\ Claiming!LocksExclude /\ Claiming!Histories /\ \A c \in Callers : ClaimCallHolds(c)
  BY DEF Claiming!Inv, ClaimCallHolds

(* Before any call there is nothing to tell. *)
LEMMA ClaimInitInv == Claiming!Init => Claiming!Inv
<1> SUFFICES ASSUME Claiming!Init PROVE Claiming!Inv
  OBVIOUS
<1>1. Claiming!NoRequest \in Claiming!Request
  BY ClaimConstants DEF Claiming!NoRequest, Claiming!Request, Claiming!ClaimsAssumption,
    Claiming!SourceOps, Claiming!ClaimOps, Claiming!Statuses
<1>2. Claiming!NoCall \in ClaimCallRecord
  BY <1>1 DEF Claiming!NoCall, ClaimCallRecord, Claiming!Pcs, Claiming!Answers
<1>3. Claiming!Typed
  BY <1>2 DEF Claiming!Init, Claiming!Typed, ClaimCallRecord
<1>4. Claiming!LocksExclude
  BY DEF Claiming!Init, Claiming!LocksExclude
<1>5. Claiming!Histories
  BY DEF Claiming!Init, Claiming!Histories, Claiming!Parsed, Claiming!ReviewsKeepContent,
    Claiming!CitedExist, Claiming!Cited
<1>6. ASSUME NEW c \in Callers PROVE ClaimCallHolds(c)
  <2>1. s6[c].pc = "idle" /\ s6[c].answer = "none"
    BY DEF Claiming!Init, Claiming!NoCall
  <2> QED
    BY <2>1 DEF ClaimCallHolds, Claiming!AskedRight, Claiming!InPlace, Claiming!FoundOfSource,
      Claiming!FoundOfClaim, Claiming!Told, Claiming!At, Claiming!Is, Claiming!Keyed
<1> QED
  BY <1>3, <1>4, <1>5, <1>6 DEF Claiming!Inv, ClaimCallHolds

(* A step of one call that leaves the histories alone leaves the other calls what they hold. *)
LEMMA ClaimOthersRest ==
  ASSUME Claiming!Inv, NEW c \in Callers, UNCHANGED Claiming!db,
         \A d \in Callers : d # c => s6'[d] = s6[d] /\ \A o : <<d, o>> \in s5 => <<d, o>> \in s5'
  PROVE  \A d \in Callers \ {c} : ClaimCallHolds(d)'
<1> SUFFICES ASSUME NEW d \in Callers \ {c} PROVE ClaimCallHolds(d)'
  OBVIOUS
<1>1. ClaimCallHolds(d) /\ s6'[d] = s6[d] /\ \A o : <<d, o>> \in s5 => <<d, o>> \in s5'
  BY DEF Claiming!Inv, ClaimCallHolds
<1>2. (Claiming!AskedRight(d) /\ Claiming!InPlace(d))'
  BY <1>1 DEF ClaimCallHolds, Claiming!AskedRight, Claiming!InPlace, Claiming!At, Claiming!Is,
    Claiming!R, Claiming!KeyOf
<1>3. (Claiming!FoundOfSource(d) /\ Claiming!FoundOfClaim(d))'
  BY <1>1 DEF ClaimCallHolds, Claiming!FoundOfSource, Claiming!FoundOfClaim, Claiming!db,
    Claiming!At, Claiming!Is, Claiming!R, Claiming!Parsed
<1>4. Claiming!Told(d)'
  BY <1>1 DEF ClaimCallHolds, Claiming!Told, Claiming!db, Claiming!R, Claiming!Tells,
    Claiming!SameContent
<1> QED
  BY <1>2, <1>3, <1>4 DEF ClaimCallHolds

(* Where no row changes, the histories hold what they held. *)
LEMMA ClaimHistoriesRest == ASSUME Claiming!Histories, UNCHANGED Claiming!db PROVE Claiming!Histories'
  BY DEF Claiming!Histories, Claiming!db, Claiming!Parsed, Claiming!ReviewsKeepContent,
    Claiming!CitedExist, Claiming!Cited, Claiming!SameContent

(* The end of a transaction lets go of its locks. *)
LEMMA ClaimAnswerLocks ==
  ASSUME Claiming!Inv, NEW c \in Callers, s5' = {k \in s5 : k[1] # c},
         \A d \in Callers : d # c => s6'[d].pc = s6[d].pc
  PROVE  /\ Claiming!LocksExclude'
         /\ \A d \in Callers : d # c => \A o : <<d, o>> \in s5 => <<d, o>> \in s5'
<1>1. Claiming!LocksExclude
  BY DEF Claiming!Inv
<1> QED
  BY <1>1 DEF Claiming!LocksExclude

(* A call is answered, with an entry that is as the answer says. *)
LEMMA ClaimAnswerKeeps ==
  ASSUME Claiming!Inv, NEW c \in Callers, NEW a \in Claiming!Answers \ {"none"}, NEW n \in Nat, ~Claiming!At(c, "idle"),
         UNCHANGED Claiming!db, s4' = s4, Claiming!Answer(c, a, n),
         a \in {"done", "replayed"} =>
           /\ Claiming!Tells(Claiming!R(c), n)
           /\ Claiming!R(c).op \in {"create", "revise", "review"} => n \in DOMAIN s3
           /\ Claiming!R(c).op \in {"extract", "correct"} => n \in DOMAIN s2
  PROVE  Claiming!Inv'
<1>1. s6 \in [Callers -> ClaimCallRecord] /\ s6[c] \in ClaimCallRecord
  BY DEF Claiming!Inv, Claiming!Typed, ClaimCallRecord
<1>2. /\ s6'[c].pc = "answered" /\ s6'[c].answer = a /\ s6'[c].entry = n
      /\ s6'[c].request = s6[c].request
      /\ \A d \in Callers : d # c => s6'[d] = s6[d]
  BY <1>1 DEF Claiming!Answer, ClaimCallRecord
<1>3. [s6[c] EXCEPT !.pc = "answered", !.answer = a, !.entry = n] \in ClaimCallRecord
  BY <1>1 DEF ClaimCallRecord, Claiming!Pcs
<1>4. s6' \in [Callers -> ClaimCallRecord]
  BY <1>1, <1>3 DEF Claiming!Answer
<1>5. Claiming!Typed'
  BY <1>4 DEF Claiming!Inv, Claiming!Typed, ClaimCallRecord, Claiming!db
<1>6. Claiming!LocksExclude' /\ \A d \in Callers : d # c => \A o : <<d, o>> \in s5 => <<d, o>> \in s5'
  BY <1>2, ClaimAnswerLocks DEF Claiming!Answer
<1>7. \A d \in Callers \ {c} : ClaimCallHolds(d)'
  BY <1>2, <1>6, ClaimOthersRest
<1>8. ClaimCallHolds(c)'
  <2>1. Claiming!AskedRight(c) /\ Claiming!R(c)' = Claiming!R(c)
    BY <1>2 DEF Claiming!Inv, Claiming!R
  <2>2. Claiming!AskedRight(c)'
    BY <1>2, <2>1 DEF Claiming!AskedRight, Claiming!At, Claiming!R
  <2>3. (Claiming!InPlace(c) /\ Claiming!FoundOfSource(c) /\ Claiming!FoundOfClaim(c))'
    BY <1>2 DEF Claiming!InPlace, Claiming!FoundOfSource, Claiming!FoundOfClaim, Claiming!At,
      Claiming!Keyed
  <2>4. Claiming!Tells(Claiming!R(c), n)' <=> Claiming!Tells(Claiming!R(c), n)
    BY <1>2 DEF Claiming!Tells, Claiming!R, Claiming!SameContent, Claiming!db
  <2>5. Claiming!Told(c)'
    BY <1>2, <2>1, <2>4 DEF Claiming!Told, Claiming!R, Claiming!db, Claiming!Tells,
      Claiming!SameContent
  <2> QED
    BY <2>2, <2>3, <2>5 DEF ClaimCallHolds
<1>9. Claiming!Histories'
  BY ClaimHistoriesRest DEF Claiming!Inv
<1> QED
  BY <1>5, <1>6, <1>7, <1>8, <1>9 DEF Claiming!Inv, ClaimCallHolds

(* Taking a lock that is free for a call keeps what the locks exclude. *)
LEMMA ClaimLockTakes ==
  ASSUME Claiming!Inv, NEW c \in Callers, NEW o \in {"source", "claim", "row", "shared"}, Claiming!Lock(c, o),
         \A d \in Callers : s6[d].pc \in Claiming!Keyed => s6'[d].pc \in Claiming!Keyed, s6'[c].pc \in Claiming!Keyed
  PROVE  /\ Claiming!LocksExclude'
         /\ <<c, o>> \in s5' /\ s5 \subseteq s5'
<1>1. Claiming!LocksExclude
  BY DEF Claiming!Inv
<1>2. \A k \in s5' : k \in s5 \/ k = <<c, o>>
  BY DEF Claiming!Lock
<1>3. \A k \in s5 : k[1] # c => /\ k[2] = o => k[2] = "shared"
                                /\ k[2] = "row" => o # "shared"
                                /\ o = "row" => k[2] # "shared"
  BY DEF Claiming!Lock, Claiming!Free
<1>4. \A k \in s5' : k \in Callers \X {"source", "claim", "row", "shared"} /\ s6'[k[1]].pc \in Claiming!Keyed
  BY <1>1, <1>2 DEF Claiming!LocksExclude
<1>5. \A k, l \in s5' : k[1] # l[1] => /\ k[2] = l[2] => k[2] = "shared"
                                       /\ k[2] = "row" => l[2] # "shared"
  BY <1>1, <1>2, <1>3 DEF Claiming!LocksExclude
<1> QED
  BY <1>4, <1>5 DEF Claiming!LocksExclude, Claiming!Lock

(* A call goes on in its transaction, with a lock more or none, and has found what its place asks. *)
LEMMA ClaimGotoKeeps ==
  ASSUME Claiming!Inv, NEW c \in Callers, NEW pc \in Claiming!Keyed, ~Claiming!At(c, "idle"), ~Claiming!At(c, "answered"),
         UNCHANGED Claiming!db, s4' = s4, Claiming!Goto(c, pc),
         \/ UNCHANGED s5
         \/ \E o \in {"source", "claim", "row", "shared"} : Claiming!Lock(c, o),
         (Claiming!InPlace(c) /\ Claiming!FoundOfSource(c) /\ Claiming!FoundOfClaim(c))'
  PROVE  Claiming!Inv'
<1>1. s6 \in [Callers -> ClaimCallRecord] /\ s6[c] \in ClaimCallRecord
  BY DEF Claiming!Inv, Claiming!Typed, ClaimCallRecord
<1>2. /\ s6'[c].pc = pc /\ s6'[c].answer = s6[c].answer /\ s6'[c].request = s6[c].request
      /\ \A d \in Callers : d # c => s6'[d] = s6[d]
  BY <1>1 DEF Claiming!Goto, ClaimCallRecord
<1>3. [s6[c] EXCEPT !.pc = pc] \in ClaimCallRecord
  BY <1>1 DEF ClaimCallRecord, Claiming!Pcs, Claiming!Keyed
<1>4. s6' \in [Callers -> ClaimCallRecord]
  BY <1>1, <1>3 DEF Claiming!Goto
<1>5. Claiming!Typed'
  BY <1>4 DEF Claiming!Inv, Claiming!Typed, ClaimCallRecord, Claiming!db
<1>6. Claiming!LocksExclude' /\ s5 \subseteq s5'
  <2>1. CASE UNCHANGED s5
    BY <1>2, <2>1 DEF Claiming!Inv, Claiming!LocksExclude
  <2>2. ASSUME NEW o \in {"source", "claim", "row", "shared"}, Claiming!Lock(c, o) PROVE Claiming!LocksExclude' /\ s5 \subseteq s5'
    BY <1>2, <2>2, ClaimLockTakes
  <2> QED
    BY <2>1, <2>2
<1>7. \A d \in Callers \ {c} : ClaimCallHolds(d)'
  BY <1>2, <1>6, ClaimOthersRest
<1>8. ClaimCallHolds(c)'
  <2>1. Claiming!AskedRight(c) /\ Claiming!Told(c) /\ Claiming!InPlace(c)
    BY DEF Claiming!Inv
  <2>2. Claiming!AskedRight(c)'
    BY <1>2, <2>1 DEF Claiming!AskedRight, Claiming!At, Claiming!R
  <2>3. Claiming!Told(c)'
    BY <1>2, <2>1 DEF Claiming!Told, Claiming!InPlace, Claiming!At
  <2> QED
    BY <2>2, <2>3 DEF ClaimCallHolds
<1>9. Claiming!Histories'
  BY ClaimHistoriesRest DEF Claiming!Inv
<1> QED
  BY <1>5, <1>6, <1>7, <1>8, <1>9 DEF Claiming!Inv, ClaimCallHolds

(* What a call that goes on looks like. *)
LEMMA ClaimWent ==
  ASSUME Claiming!Typed, NEW c \in Callers, NEW pc, Claiming!Goto(c, pc)
  PROVE  /\ s6'[c].pc = pc /\ s6'[c].answer = s6[c].answer /\ s6'[c].request = s6[c].request
         /\ Claiming!R(c)' = Claiming!R(c) /\ \A d \in Callers : d # c => s6'[d] = s6[d]
  BY DEF Claiming!Typed, Claiming!Goto, Claiming!R

(* A call outside of its transactions changes its place and holds nothing. *)
LEMMA ClaimOutsideKeeps ==
  ASSUME Claiming!Inv, NEW c \in Callers, UNCHANGED Claiming!db, s4' = s4,
         s5' = {k \in s5 : k[1] # c}, s6' \in [Callers -> ClaimCallRecord],
         \A d \in Callers : d # c => s6'[d] = s6[d],
         s6'[c].pc \in {"bytes", "key"}, s6'[c].answer = "none", Claiming!At(c, "bytes")' => Claiming!Is(c, "extract")',
         Claiming!AskedRight(c)'
  PROVE  Claiming!Inv'
<1>1. Claiming!Typed'
  BY DEF Claiming!Inv, Claiming!Typed, ClaimCallRecord, Claiming!db
<1>2. Claiming!LocksExclude' /\ \A d \in Callers : d # c => \A o : <<d, o>> \in s5 => <<d, o>> \in s5'
  BY ClaimAnswerLocks
<1>3. \A d \in Callers \ {c} : ClaimCallHolds(d)'
  BY <1>2, ClaimOthersRest
<1>4. (Claiming!InPlace(c) /\ Claiming!FoundOfSource(c) /\ Claiming!FoundOfClaim(c) /\ Claiming!Told(c))'
  BY DEF Claiming!InPlace, Claiming!FoundOfSource, Claiming!FoundOfClaim, Claiming!Told,
    Claiming!At, Claiming!Is, Claiming!R, Claiming!Keyed
<1>5. Claiming!Histories'
  BY ClaimHistoriesRest DEF Claiming!Inv
<1> QED
  BY <1>1, <1>2, <1>3, <1>4, <1>5 DEF Claiming!Inv, ClaimCallHolds

(* A call that holds no key holds nothing. *)
LEMMA ClaimUnkeyed ==
  ASSUME Claiming!Inv, NEW c \in Callers, s6[c].pc \notin Claiming!Keyed
  PROVE  s5 = {k \in s5 : k[1] # c}
  BY DEF Claiming!Inv, Claiming!LocksExclude

(* A request is taken as the code admits it. *)
LEMMA ClaimBeginKeeps ==
  ASSUME Claiming!Inv, NEW c \in Callers, NEW r \in (ClaimAsks \union SourceAsks), Claiming!Begin(c, r)
  PROVE  Claiming!Inv'
<1>1. s6 \in [Callers -> ClaimCallRecord] /\ s6[c] \in ClaimCallRecord /\ r \in Claiming!Request /\ s6[c].pc = "idle"
  BY ClaimConstants DEF Claiming!Inv, Claiming!Typed, ClaimCallRecord, Claiming!ClaimsAssumption,
    Claiming!Begin, Claiming!At
<1>2. [s6[c] EXCEPT !.request = r, !.pc = "key"] \in ClaimCallRecord
  BY <1>1 DEF ClaimCallRecord, Claiming!Pcs
<1>3. /\ s6' \in [Callers -> ClaimCallRecord] /\ s6'[c].pc = "key" /\ s6'[c].request = r
      /\ s6'[c].answer = s6[c].answer
      /\ \A d \in Callers : d # c => s6'[d] = s6[d]
  BY <1>1, <1>2 DEF Claiming!Begin, ClaimCallRecord
<1>4. s6[c].answer = "none"
  BY <1>1 DEF Claiming!Inv, Claiming!InPlace
<1>5. s5' = {k \in s5 : k[1] # c}
  BY <1>1, ClaimUnkeyed DEF Claiming!Begin, Claiming!Keyed
<1>6. Claiming!AskedRight(c)'
  BY ClaimConstants, <1>3 DEF Claiming!AskedRight, Claiming!ClaimsAssumption, Claiming!R
<1> QED
  BY <1>3, <1>4, <1>5, <1>6, ClaimOutsideKeeps DEF Claiming!Begin, Claiming!At

(* A key is waited for, unless what is cited may not be read. *)
LEMMA ClaimLockKeyKeeps ==
  ASSUME Claiming!Inv, NEW c \in Callers, Claiming!LockKey(c)
  PROVE  Claiming!Inv'
<1>1. s6[c].pc = "key" /\ UNCHANGED Claiming!db /\ s4' = s4
  BY DEF Claiming!LockKey, Claiming!At
<1>2. CASE Claiming!R(c).cites # {} /\ Claiming!R(c).by \notin s4
  BY <1>1, <1>2, ClaimAnswerKeeps DEF Claiming!LockKey, Claiming!Answers, Claiming!At
<1>3. CASE ~(Claiming!R(c).cites # {} /\ Claiming!R(c).by \notin s4)
  <2>1. Claiming!Lock(c, Claiming!KeyOf(Claiming!R(c))) /\ Claiming!Goto(c, "look") /\ Claiming!KeyOf(Claiming!R(c)) \in {"source", "claim"}
    BY <1>3 DEF Claiming!LockKey, Claiming!KeyOf
  <2>2. s6'[c].pc = "look" /\ s6'[c].answer = s6[c].answer /\ Claiming!R(c)' = Claiming!R(c)
    BY <2>1, ClaimWent DEF Claiming!Inv
  <2>3. Claiming!InPlace(c) /\ <<c, Claiming!KeyOf(Claiming!R(c))>> \in s5'
    BY <2>1 DEF Claiming!Inv, Claiming!Lock
  <2>4. Claiming!InPlace(c)'
    BY <1>1, <2>2, <2>3 DEF Claiming!InPlace, Claiming!At, Claiming!Is, Claiming!KeyOf
  <2>5. (Claiming!FoundOfSource(c) /\ Claiming!FoundOfClaim(c))'
    BY <2>2 DEF Claiming!FoundOfSource, Claiming!FoundOfClaim
  <2> QED
    BY <1>1, <2>1, <2>4, <2>5, ClaimGotoKeeps DEF Claiming!Keyed, Claiming!At
<1> QED
  BY <1>2, <1>3

(* A call that looked goes on with its key. *)
LEMMA ClaimLookGoes ==
  ASSUME Claiming!Inv, NEW c \in Callers, Claiming!At(c, "look"), UNCHANGED Claiming!db, s4' = s4, UNCHANGED s5,
         NEW pc \in {"share", "row", "check"}, Claiming!Goto(c, pc),
         pc = "row" => Claiming!Is(c, "deleteSource"),
         pc = "share" => Claiming!R(c).op \in {"create", "revise"},
         pc = "check" => ~Claiming!Is(c, "deleteSource") /\ (Claiming!R(c).op \in {"create", "revise"} => Claiming!R(c).cites = {}),
         pc = "check" => /\ Claiming!Is(c, "extract") => Claiming!Parsed = {} /\ "source" \notin s1
                         /\ Claiming!Is(c, "correct") => Claiming!R(c).base = Len(s2) /\ "source" \notin s1,
         /\ Claiming!Is(c, "create") => s3 = <<>>
         /\ Claiming!R(c).op \in {"revise", "review", "deleteClaim"} =>
                       s3 # <<>> /\ "claim" \notin s1 /\ Claiming!R(c).base = Len(s3)
  PROVE  Claiming!Inv'
<1>1. s6'[c].pc = pc /\ s6'[c].answer = s6[c].answer /\ Claiming!R(c)' = Claiming!R(c)
  BY ClaimWent DEF Claiming!Inv
<1>2. Claiming!InPlace(c) /\ s6[c].pc = "look"
  BY DEF Claiming!Inv, Claiming!At
<1>3. Claiming!InPlace(c)'
  BY <1>1, <1>2 DEF Claiming!InPlace, Claiming!At, Claiming!Is, Claiming!Keyed
<1>4. Claiming!FoundOfSource(c)'
  BY <1>1 DEF Claiming!FoundOfSource, Claiming!Is, Claiming!Parsed, Claiming!db
<1>5. Claiming!FoundOfClaim(c)'
  BY <1>1 DEF Claiming!FoundOfClaim, Claiming!Is, Claiming!db
<1> QED
  BY <1>2, <1>3, <1>4, <1>5, ClaimGotoKeeps DEF Claiming!Keyed, Claiming!At

(* A replay answers with an entry that is there, and lets go of its locks. *)
LEMMA ClaimReplayKeeps ==
  ASSUME Claiming!Inv, NEW c \in Callers, NEW n \in Nat, ~Claiming!At(c, "idle"), UNCHANGED Claiming!db, s4' = s4, Claiming!Replay(c, n),
         Claiming!Tells(Claiming!R(c), n),
         Claiming!R(c).op \in {"create", "revise", "review"} => n \in DOMAIN s3,
         Claiming!R(c).op \in {"extract", "correct"} => n \in DOMAIN s2
  PROVE  Claiming!Inv'
<1>1. CASE Claiming!Holds(c)
  BY <1>1, ClaimAnswerKeeps DEF Claiming!Replay, Claiming!Answers
<1>2. CASE ~Claiming!Holds(c)
  BY <1>2, ClaimAnswerKeeps DEF Claiming!Replay, Claiming!Answers
<1> QED
  BY <1>1, <1>2

(* A request is typed, and so are the histories. *)
LEMMA ClaimTypes ==
  ASSUME Claiming!Inv, NEW c \in Callers
  PROVE  /\ Claiming!R(c) \in Claiming!Request /\ Claiming!R(c).base \in 0 .. ClaimBase /\ Claiming!R(c).base \in Nat
         /\ s2 \in Seq(Claiming!Version) /\ s3 \in Seq(Claiming!Revision)
         /\ Len(s2) \in Nat /\ Len(s3) \in Nat
         /\ DOMAIN s2 = 1 .. Len(s2) /\ DOMAIN s3 = 1 .. Len(s3)
  BY ClaimConstants DEF Claiming!Inv, Claiming!Typed, Claiming!R, Claiming!Request,
    Claiming!ClaimsAssumption

(* An extraction replays the parser's version, or goes on while there is none. *)
LEMMA ClaimLookExtractKeeps ==
  ASSUME Claiming!Inv, NEW c \in Callers, Claiming!At(c, "look"), Claiming!Is(c, "extract"), Claiming!LookExtract(c), UNCHANGED <<Claiming!db, s4>>
  PROVE  Claiming!Inv'
<1> DEFINE least == CHOOSE v \in Claiming!Parsed : \A w \in Claiming!Parsed : v <= w
<1>1. CASE "source" \in s1
  BY <1>1, ClaimAnswerKeeps DEF Claiming!LookExtract, Claiming!Answers, Claiming!At
<1>2. CASE "source" \notin s1 /\ Claiming!Parsed # {}
  <2>1. PICK v \in Claiming!Parsed : TRUE
    BY <1>2
  <2>2. Claiming!Parsed = {v} /\ v \in DOMAIN s2 /\ v \in Nat /\ s2[v].parser = "text"
    BY <2>1, ClaimTypes DEF Claiming!Inv, Claiming!Histories, Claiming!Parsed
  <2>3. least = v
    BY <2>2
  <2>4. Claiming!Replay(c, least)
    BY <1>2 DEF Claiming!LookExtract, Claiming!Extracted
  <2>5. Claiming!Tells(Claiming!R(c), v)
    BY <2>2 DEF Claiming!Tells, Claiming!Is
  <2> HIDE DEF least
  <2> QED
    BY <2>2, <2>3, <2>4, <2>5, ClaimReplayKeeps DEF Claiming!At, Claiming!Is
<1>3. CASE "source" \notin s1 /\ Claiming!Parsed = {} /\ s6[c].planned
  <2>1. Claiming!Goto(c, "check") /\ UNCHANGED s5
    BY <1>3 DEF Claiming!LookExtract, Claiming!Extracted
  <2> QED
    BY <1>3, <2>1, ClaimLookGoes DEF Claiming!Is
<1>4. CASE "source" \notin s1 /\ Claiming!Parsed = {} /\ ~s6[c].planned /\ ~Claiming!Holds(c)
  BY <1>4, ClaimAnswerKeeps DEF Claiming!LookExtract, Claiming!Extracted, Claiming!Answers,
    Claiming!At
<1>5. CASE "source" \notin s1 /\ Claiming!Parsed = {} /\ ~s6[c].planned /\ Claiming!Holds(c)
  <2>1. /\ s6' = [s6 EXCEPT ![c].pc = "bytes", ![c].planned = TRUE]
        /\ s5' = {k \in s5 : k[1] # c}
    BY <1>5 DEF Claiming!LookExtract, Claiming!Extracted
  <2>2. s6 \in [Callers -> ClaimCallRecord] /\ s6[c] \in ClaimCallRecord
    BY DEF Claiming!Inv, Claiming!Typed, ClaimCallRecord
  <2>3. [s6[c] EXCEPT !.pc = "bytes", !.planned = TRUE] \in ClaimCallRecord
    BY <2>2 DEF ClaimCallRecord, Claiming!Pcs
  <2>4. /\ s6' \in [Callers -> ClaimCallRecord] /\ s6'[c].pc = "bytes" /\ s6'[c].answer = s6[c].answer
        /\ s6'[c].request = s6[c].request /\ \A d \in Callers : d # c => s6'[d] = s6[d]
    BY <2>1, <2>2, <2>3 DEF ClaimCallRecord
  <2>5. s6[c].answer = "none" /\ Claiming!AskedRight(c)
    BY DEF Claiming!Inv, Claiming!InPlace, Claiming!At
  <2>6. Claiming!AskedRight(c)' /\ Claiming!Is(c, "extract")'
    BY <2>4, <2>5 DEF Claiming!AskedRight, Claiming!At, Claiming!Is, Claiming!R
  <2> QED
    BY <2>1, <2>4, <2>5, <2>6, ClaimOutsideKeeps
<1> QED
  BY <1>1, <1>2, <1>3, <1>4, <1>5

(* Bytes are read with no lock held. *)
LEMMA ClaimReadBytesKeeps ==
  ASSUME Claiming!Inv, NEW c \in Callers, Claiming!ReadBytes(c)
  PROVE  Claiming!Inv'
<1>1. s6[c].pc = "bytes" /\ UNCHANGED Claiming!db /\ s4' = s4
  BY DEF Claiming!ReadBytes, Claiming!At
<1>2. CASE Claiming!Goto(c, "key") /\ UNCHANGED s5
  <2>1. s6 \in [Callers -> ClaimCallRecord] /\ s6[c] \in ClaimCallRecord
    BY DEF Claiming!Inv, Claiming!Typed, ClaimCallRecord
  <2>2. [s6[c] EXCEPT !.pc = "key"] \in ClaimCallRecord
    BY <2>1 DEF ClaimCallRecord, Claiming!Pcs
  <2>3. /\ s6' \in [Callers -> ClaimCallRecord] /\ s6'[c].pc = "key" /\ s6'[c].answer = s6[c].answer
        /\ Claiming!R(c)' = Claiming!R(c) /\ \A d \in Callers : d # c => s6'[d] = s6[d]
    BY <1>2, <2>1, <2>2 DEF ClaimCallRecord, Claiming!Goto, Claiming!R
  <2>4. s6[c].answer = "none" /\ Claiming!AskedRight(c)
    BY <1>1 DEF Claiming!Inv, Claiming!InPlace
  <2>5. Claiming!AskedRight(c)'
    BY <1>1, <2>3, <2>4 DEF Claiming!AskedRight, Claiming!At
  <2>6. s5' = {k \in s5 : k[1] # c}
    BY <1>1, <1>2, ClaimUnkeyed DEF Claiming!Keyed
  <2> QED
    BY <1>1, <2>3, <2>4, <2>5, <2>6, ClaimOutsideKeeps DEF Claiming!At
<1>3. CASE Claiming!Answer(c, "unavailable", 0)
  BY <1>1, <1>3, ClaimAnswerKeeps DEF Claiming!Answers, Claiming!At
<1> QED
  BY <1>2, <1>3 DEF Claiming!ReadBytes

(* A writer on a base goes on when it is the latest entry, and otherwise finds its own entry or none. *)
LEMMA ClaimOnBaseKeeps ==
  ASSUME Claiming!Inv, NEW c \in Callers, ~Claiming!At(c, "idle"), UNCHANGED <<Claiming!db, s4>>, NEW same, NEW goes, Claiming!OnBase(c, same, goes),
         Claiming!R(c).base = Claiming!Latest(c) /\ Claiming!Goto(c, goes) /\ UNCHANGED s5 => Claiming!Inv',
         Claiming!R(c).base < Claiming!Latest(c) /\ same =>
                    /\ Claiming!Tells(Claiming!R(c), Claiming!R(c).base + 1)
                    /\ Claiming!R(c).op \in {"create", "revise", "review"} => Claiming!R(c).base + 1 \in DOMAIN s3
                    /\ Claiming!R(c).op \in {"extract", "correct"} => Claiming!R(c).base + 1 \in DOMAIN s2
  PROVE  Claiming!Inv'
<1>1. Claiming!R(c).base \in Nat /\ Claiming!Latest(c) \in Nat
  BY ClaimTypes DEF Claiming!Latest
<1>2. CASE Claiming!R(c).base > Claiming!Latest(c)
  BY <1>2, ClaimAnswerKeeps DEF Claiming!OnBase, Claiming!Answers
<1>3. CASE Claiming!R(c).base = Claiming!Latest(c)
  BY <1>1, <1>3 DEF Claiming!OnBase
<1>4. CASE Claiming!R(c).base < Claiming!Latest(c) /\ same
  <2>1. Claiming!Replay(c, Claiming!R(c).base + 1)
    BY <1>1, <1>4 DEF Claiming!OnBase
  <2> QED
    BY <1>1, <1>4, <2>1, ClaimReplayKeeps
<1>5. CASE Claiming!R(c).base < Claiming!Latest(c) /\ ~same
  BY <1>1, <1>5, ClaimAnswerKeeps DEF Claiming!OnBase, Claiming!Answers
<1> QED
  BY <1>1, <1>2, <1>3, <1>4, <1>5

(* A correction is appended to the latest version, or is already there. *)
LEMMA ClaimLookCorrectKeeps ==
  ASSUME Claiming!Inv, NEW c \in Callers, Claiming!At(c, "look"), Claiming!Is(c, "correct"), Claiming!LookCorrect(c), UNCHANGED <<Claiming!db, s4>>
  PROVE  Claiming!Inv'
<1>1. CASE "source" \in s1
  BY <1>1, ClaimAnswerKeeps DEF Claiming!LookCorrect, Claiming!Answers, Claiming!At
<1>2. CASE "source" \notin s1
  <2>1. Claiming!OnBase(c, Claiming!SameVersion(c), "check") /\ Claiming!Latest(c) = Len(s2)
    BY <1>2 DEF Claiming!LookCorrect, Claiming!Latest, Claiming!Is, Claiming!SourceOps
  <2>2. Claiming!R(c).base = Claiming!Latest(c) /\ Claiming!Goto(c, "check") /\ UNCHANGED s5 => Claiming!Inv'
    BY <1>2, <2>1, ClaimLookGoes DEF Claiming!Is
  <2>3. Claiming!R(c).base < Claiming!Latest(c) /\ Claiming!SameVersion(c) =>
                   Claiming!Tells(Claiming!R(c), Claiming!R(c).base + 1) /\ Claiming!R(c).base + 1 \in DOMAIN s2
    BY <2>1, ClaimTypes DEF Claiming!Tells, Claiming!SameVersion, Claiming!Is
  <2> QED
    BY <2>1, <2>2, <2>3, ClaimOnBaseKeeps DEF Claiming!At, Claiming!Is
<1> QED
  BY <1>1, <1>2

(* What the deletion of a source finds, it finds for as long as it holds the row. *)
LEMMA ClaimLookDeleteSourceKeeps ==
  ASSUME Claiming!Inv, NEW c \in Callers, Claiming!At(c, "look"), Claiming!Is(c, "deleteSource"), Claiming!LookDeleteSource(c), UNCHANGED <<Claiming!db, s4>>
  PROVE  Claiming!Inv'
<1>1. CASE "source" \in s1
  BY <1>1, ClaimReplayKeeps DEF Claiming!LookDeleteSource, Claiming!At, Claiming!Is, Claiming!Tells
<1>2. CASE "source" \notin s1
  BY <1>2, ClaimLookGoes DEF Claiming!LookDeleteSource, Claiming!Is
<1> QED
  BY <1>1, <1>2

(* A creation is the first revision, or finds that it is. *)
LEMMA ClaimLookCreateKeeps ==
  ASSUME Claiming!Inv, NEW c \in Callers, Claiming!At(c, "look"), Claiming!Is(c, "create"), Claiming!LookCreate(c), UNCHANGED <<Claiming!db, s4>>
  PROVE  Claiming!Inv'
<1>1. CASE s3 = <<>>
  <2>1. Claiming!Goto(c, "share") /\ UNCHANGED s5
    BY <1>1 DEF Claiming!LookCreate
  <2> QED
    BY <1>1, <2>1, ClaimLookGoes DEF Claiming!Is
<1>2. CASE s3 # <<>> /\ ~Claiming!SameRevision(c, 1)
  BY <1>2, ClaimAnswerKeeps DEF Claiming!LookCreate, Claiming!Answers, Claiming!At
<1>3. CASE s3 # <<>> /\ Claiming!SameRevision(c, 1) /\ ("claim" \in s1 \/ ~Claiming!Sees(c))
  BY <1>3, ClaimAnswerKeeps DEF Claiming!LookCreate, Claiming!Answers, Claiming!At
<1>4. CASE s3 # <<>> /\ Claiming!SameRevision(c, 1) /\ ~("claim" \in s1 \/ ~Claiming!Sees(c))
  <2>1. Claiming!Replay(c, 1)
    BY <1>4 DEF Claiming!LookCreate
  <2>2. 1 \in DOMAIN s3
    BY <1>4, ClaimTypes
  <2>3. Claiming!R(c).base = 0
    BY DEF Claiming!Inv, Claiming!AskedRight, Claiming!Is, Claiming!At
  <2>4. Claiming!Tells(Claiming!R(c), 1)
    BY <1>4, <2>3 DEF Claiming!Tells, Claiming!SameRevision, Claiming!Is
  <2> QED
    BY <2>1, <2>2, <2>4, ClaimReplayKeeps DEF Claiming!At, Claiming!Is
<1> QED
  BY <1>1, <1>2, <1>3, <1>4

(* Revisions and reviews build on the latest revision, or find themselves after theirs. *)
LEMMA ClaimLookReviseKeeps ==
  ASSUME Claiming!Inv, NEW c \in Callers, Claiming!At(c, "look"), Claiming!R(c).op \in {"revise", "review"}, Claiming!LookRevise(c), UNCHANGED <<Claiming!db, s4>>
  PROVE  Claiming!Inv'
<1>1. CASE s3 = <<>> \/ "claim" \in s1 \/ ~Claiming!Sees(c)
  BY <1>1, ClaimAnswerKeeps DEF Claiming!LookRevise, Claiming!Answers, Claiming!At
<1>2. CASE ~(s3 = <<>> \/ "claim" \in s1 \/ ~Claiming!Sees(c))
  <2>1. Claiming!Latest(c) = Len(s3)
    BY DEF Claiming!Latest, Claiming!SourceOps
  <2>2. CASE Claiming!Is(c, "revise")
    <3>1. Claiming!OnBase(c, Claiming!R(c).base < Claiming!Latest(c) /\ Claiming!SameRevision(c, Claiming!R(c).base + 1), "share")
      BY <1>2, <2>2 DEF Claiming!LookRevise
    <3>2. Claiming!R(c).base = Claiming!Latest(c) /\ Claiming!Goto(c, "share") /\ UNCHANGED s5 => Claiming!Inv'
      BY <1>2, <2>1, <2>2, ClaimLookGoes DEF Claiming!Is
    <3>3. Claiming!R(c).base < Claiming!Latest(c) /\ Claiming!SameRevision(c, Claiming!R(c).base + 1) =>
                     Claiming!Tells(Claiming!R(c), Claiming!R(c).base + 1) /\ Claiming!R(c).base + 1 \in DOMAIN s3
      BY <2>1, <2>2, ClaimTypes DEF Claiming!Tells, Claiming!SameRevision, Claiming!Is
    <3> QED
      BY <2>2, <3>1, <3>2, <3>3, ClaimOnBaseKeeps DEF Claiming!At, Claiming!Is
  <2>3. CASE Claiming!Is(c, "review")
    <3>1. Claiming!OnBase(c, Claiming!R(c).base < Claiming!Latest(c) /\ Claiming!SameReview(c), "check")
      BY <1>2, <2>3 DEF Claiming!LookRevise, Claiming!Is
    <3>2. Claiming!R(c).base = Claiming!Latest(c) /\ Claiming!Goto(c, "check") /\ UNCHANGED s5 => Claiming!Inv'
      BY <1>2, <2>1, <2>3, ClaimLookGoes DEF Claiming!Is
    <3>3. Claiming!R(c).base < Claiming!Latest(c) /\ Claiming!SameReview(c) =>
                     Claiming!Tells(Claiming!R(c), Claiming!R(c).base + 1) /\ Claiming!R(c).base + 1 \in DOMAIN s3
      BY <2>1, <2>3, ClaimTypes DEF Claiming!Tells, Claiming!SameReview, Claiming!Is
    <3> QED
      BY <2>3, <3>1, <3>2, <3>3, ClaimOnBaseKeeps DEF Claiming!At, Claiming!Is
  <2> QED
    BY <2>2, <2>3 DEF Claiming!Is
<1> QED
  BY <1>1, <1>2

(* So does the deletion of a claim. *)
LEMMA ClaimLookDeleteClaimKeeps ==
  ASSUME Claiming!Inv, NEW c \in Callers, Claiming!At(c, "look"), Claiming!Is(c, "deleteClaim"), Claiming!LookDeleteClaim(c), UNCHANGED <<Claiming!db, s4>>
  PROVE  Claiming!Inv'
<1>0. Claiming!Latest(c) = Len(s3)
  BY DEF Claiming!Latest, Claiming!SourceOps, Claiming!Is
<1>1. CASE s3 = <<>> \/ ~Claiming!Sees(c)
  BY <1>1, ClaimAnswerKeeps DEF Claiming!LookDeleteClaim, Claiming!Answers, Claiming!At
<1>2. CASE s3 # <<>> /\ Claiming!Sees(c) /\ "claim" \notin s1
  <2>1. Claiming!OnBase(c, FALSE, "check")
    BY <1>2 DEF Claiming!LookDeleteClaim
  <2>2. Claiming!R(c).base = Claiming!Latest(c) /\ Claiming!Goto(c, "check") /\ UNCHANGED s5 => Claiming!Inv'
    BY <1>0, <1>2, ClaimLookGoes DEF Claiming!Is
  <2> QED
    BY <2>1, <2>2, ClaimOnBaseKeeps DEF Claiming!At
<1>3. CASE s3 # <<>> /\ Claiming!Sees(c) /\ "claim" \in s1 /\ Claiming!R(c).base = Claiming!Latest(c)
  <2>1. Claiming!Replay(c, Claiming!R(c).base) /\ Claiming!Tells(Claiming!R(c), Claiming!R(c).base)
    BY <1>0, <1>3 DEF Claiming!LookDeleteClaim, Claiming!Tells, Claiming!Is
  <2> QED
    BY <2>1, ClaimReplayKeeps, ClaimTypes DEF Claiming!At, Claiming!Is
<1>4. CASE s3 # <<>> /\ Claiming!Sees(c) /\ "claim" \in s1 /\ Claiming!R(c).base # Claiming!Latest(c)
  BY <1>4, ClaimAnswerKeeps DEF Claiming!LookDeleteClaim, Claiming!Answers, Claiming!At
<1> QED
  BY <1>1, <1>2, <1>3, <1>4

(* A call that has its row reads it, whatever it was asked. *)
LEMMA ClaimLookKeeps ==
  ASSUME Claiming!Inv, NEW c \in Callers, Claiming!Look(c)
  PROVE  Claiming!Inv'
<1>1. Claiming!At(c, "look") /\ UNCHANGED <<Claiming!db, s4>>
  BY DEF Claiming!Look
<1>2. Claiming!R(c).op \in Claiming!SourceOps \union Claiming!ClaimOps
  BY ClaimTypes DEF Claiming!Request
<1>3. \/ Claiming!Is(c, "extract") /\ Claiming!LookExtract(c)
      \/ Claiming!Is(c, "correct") /\ Claiming!LookCorrect(c)
      \/ Claiming!Is(c, "deleteSource") /\ Claiming!LookDeleteSource(c)
      \/ Claiming!Is(c, "create") /\ Claiming!LookCreate(c)
      \/ Claiming!Is(c, "deleteClaim") /\ Claiming!LookDeleteClaim(c)
      \/ Claiming!R(c).op \in {"revise", "review"} /\ Claiming!LookRevise(c)
  <2>1. Claiming!Is(c, "extract") => Claiming!LookExtract(c)
    BY DEF Claiming!Look, Claiming!Is
  <2>2. Claiming!Is(c, "correct") => Claiming!LookCorrect(c)
    BY DEF Claiming!Look, Claiming!Is
  <2>3. Claiming!Is(c, "deleteSource") => Claiming!LookDeleteSource(c)
    BY DEF Claiming!Look, Claiming!Is
  <2>4. Claiming!Is(c, "create") => Claiming!LookCreate(c)
    BY DEF Claiming!Look, Claiming!Is
  <2>5. Claiming!Is(c, "deleteClaim") => Claiming!LookDeleteClaim(c)
    BY DEF Claiming!Look, Claiming!Is
  <2>6. Claiming!R(c).op \in {"revise", "review"} => Claiming!LookRevise(c)
    BY DEF Claiming!Look, Claiming!Is
  <2> QED
    BY <1>2, <2>1, <2>2, <2>3, <2>4, <2>5, <2>6 DEF Claiming!Is, Claiming!SourceOps,
      Claiming!ClaimOps
<1> QED
  BY <1>1, <1>3, ClaimLookExtractKeeps, ClaimLookCorrectKeeps, ClaimLookDeleteSourceKeeps,
    ClaimLookCreateKeeps,
     ClaimLookDeleteClaimKeeps, ClaimLookReviseKeeps

(* A deletion of the source locks its row, a claim that cites it shares it. *)
LEMMA ClaimLockSourceKeeps ==
  ASSUME Claiming!Inv, NEW c \in Callers, Claiming!LockSource(c)
  PROVE  Claiming!Inv'
<1>1. s6[c].pc = "row" /\ Claiming!Lock(c, "row") /\ Claiming!Goto(c, "check") /\ UNCHANGED Claiming!db /\ s4' = s4
  BY DEF Claiming!LockSource, Claiming!At
<1>2. s6'[c].pc = "check" /\ s6'[c].answer = s6[c].answer /\ Claiming!R(c)' = Claiming!R(c)
  BY <1>1, ClaimWent DEF Claiming!Inv
<1>3. Claiming!InPlace(c) /\ Claiming!Is(c, "deleteSource")
  BY <1>1 DEF Claiming!Inv, Claiming!InPlace, Claiming!At
<1>4. <<c, "row">> \in s5' /\ s5 \subseteq s5'
  BY <1>1 DEF Claiming!Lock
<1>5. Claiming!InPlace(c)'
  BY <1>1, <1>2, <1>3, <1>4 DEF Claiming!InPlace, Claiming!At, Claiming!Is, Claiming!Keyed
<1>6. (Claiming!FoundOfSource(c) /\ Claiming!FoundOfClaim(c))'
  BY <1>2, <1>3 DEF Claiming!FoundOfSource, Claiming!FoundOfClaim, Claiming!Is
<1> QED
  BY <1>1, <1>5, <1>6, ClaimGotoKeeps DEF Claiming!At, Claiming!Keyed

(* A call that shares the source it cites finds it there as long as it shares it. *)
LEMMA ClaimShareSourceKeeps ==
  ASSUME Claiming!Inv, NEW c \in Callers, Claiming!ShareSource(c)
  PROVE  Claiming!Inv'
<1> DEFINE pc == IF Claiming!R(c).cites = {} THEN "check" ELSE "content"
<1>1. s6[c].pc = "share" /\ Claiming!Goto(c, pc) /\ UNCHANGED Claiming!db /\ s4' = s4
  BY DEF Claiming!ShareSource, Claiming!At
<1>2. s6'[c].pc = pc /\ s6'[c].answer = s6[c].answer /\ Claiming!R(c)' = Claiming!R(c)
  BY <1>1, ClaimWent DEF Claiming!Inv
<1>3. Claiming!InPlace(c) /\ Claiming!FoundOfClaim(c) /\ Claiming!R(c).op \in {"create", "revise"}
  BY <1>1 DEF Claiming!Inv, Claiming!InPlace, Claiming!At
<1>4. s5 \subseteq s5' /\ (Claiming!R(c).cites # {} => <<c, "shared">> \in s5')
  BY DEF Claiming!ShareSource, Claiming!Lock
<1>5. Claiming!InPlace(c)'
  BY <1>1, <1>2, <1>3, <1>4 DEF Claiming!InPlace, Claiming!At, Claiming!Is, Claiming!Keyed
<1>6. Claiming!FoundOfSource(c)'
  BY <1>2, <1>3 DEF Claiming!FoundOfSource, Claiming!Is
<1>7. Claiming!FoundOfClaim(c)'
  BY <1>1, <1>2, <1>3 DEF Claiming!FoundOfClaim, Claiming!Is, Claiming!db
<1>8. UNCHANGED s5 \/ Claiming!Lock(c, "shared")
  BY DEF Claiming!ShareSource
<1> QED
  BY <1>1, <1>5, <1>6, <1>7, <1>8, ClaimGotoKeeps DEF Claiming!At, Claiming!Keyed

(* What is cited is read under the share of the source's row. *)
LEMMA ClaimCheckContentKeeps ==
  ASSUME Claiming!Inv, NEW c \in Callers, Claiming!CheckContent(c)
  PROVE  Claiming!Inv'
<1>1. s6[c].pc = "content" /\ UNCHANGED Claiming!db /\ s4' = s4
  BY DEF Claiming!CheckContent, Claiming!At
<1>2. CASE Claiming!Citable(c)
  <2>1. Claiming!Goto(c, "check") /\ UNCHANGED s5
    BY <1>2 DEF Claiming!CheckContent
  <2>2. s6'[c].pc = "check" /\ s6'[c].answer = s6[c].answer /\ Claiming!R(c)' = Claiming!R(c)
    BY <2>1, ClaimWent DEF Claiming!Inv
  <2>3. Claiming!InPlace(c) /\ Claiming!FoundOfClaim(c) /\ Claiming!R(c).op \in {"create", "revise"}
    BY <1>1 DEF Claiming!Inv, Claiming!InPlace, Claiming!At
  <2>4. Claiming!InPlace(c)'
    BY <1>1, <2>1, <2>2, <2>3 DEF Claiming!InPlace, Claiming!At, Claiming!Is, Claiming!Keyed
  <2>5. Claiming!FoundOfSource(c)'
    BY <2>2, <2>3 DEF Claiming!FoundOfSource, Claiming!Is
  <2>6. Claiming!FoundOfClaim(c)'
    BY <1>1, <1>2, <2>2, <2>3 DEF Claiming!FoundOfClaim, Claiming!Is, Claiming!db, Claiming!Citable
  <2> QED
    BY <1>1, <2>1, <2>4, <2>5, <2>6, ClaimGotoKeeps DEF Claiming!At, Claiming!Keyed
<1>3. CASE ~Claiming!Citable(c)
  BY <1>1, <1>3, ClaimAnswerKeeps DEF Claiming!CheckContent, Claiming!Answers, Claiming!At
<1> QED
  BY <1>2, <1>3

(* The check before the commit refuses a call or lets it go on. *)
LEMMA ClaimCheckKeeps ==
  ASSUME Claiming!Inv, NEW c \in Callers, Claiming!Check(c)
  PROVE  Claiming!Inv'
<1>1. s6[c].pc = "check" /\ UNCHANGED Claiming!db /\ s4' = s4
  BY DEF Claiming!Check, Claiming!At
<1>2. CASE Claiming!Holds(c)
  <2>1. Claiming!Goto(c, "commit") /\ UNCHANGED s5
    BY <1>2 DEF Claiming!Check
  <2>2. s6'[c].pc = "commit" /\ s6'[c].answer = s6[c].answer /\ Claiming!R(c)' = Claiming!R(c)
    BY <2>1, ClaimWent DEF Claiming!Inv
  <2>3. Claiming!InPlace(c) /\ Claiming!FoundOfClaim(c) /\ Claiming!FoundOfSource(c)
    BY DEF Claiming!Inv
  <2>4. Claiming!InPlace(c)'
    BY <1>1, <2>1, <2>2, <2>3 DEF Claiming!InPlace, Claiming!At, Claiming!Is, Claiming!Keyed,
      Claiming!KeyOf
  <2>5. Claiming!FoundOfSource(c)'
    BY <1>1, <2>2, <2>3 DEF Claiming!FoundOfSource, Claiming!Is, Claiming!Parsed, Claiming!db
  <2>6. Claiming!FoundOfClaim(c)'
    BY <1>1, <2>2, <2>3 DEF Claiming!FoundOfClaim, Claiming!Is, Claiming!db
  <2> QED
    BY <1>1, <2>1, <2>4, <2>5, <2>6, ClaimGotoKeeps DEF Claiming!At, Claiming!Keyed
<1>3. CASE ~Claiming!Holds(c)
  BY <1>1, <1>3, ClaimAnswerKeeps DEF Claiming!Check, Claiming!Answers, Claiming!At
<1> QED
  BY <1>2, <1>3

(* A grant that expires is nobody's lock and no entry. *)
LEMMA ClaimLapseKeeps ==
  ASSUME Claiming!Inv, NEW k \in ClaimKeys, Claiming!Lapse(k)
  PROVE  Claiming!Inv'
<1>1. s4' \subseteq s4 /\ UNCHANGED <<s1, s2, s3, s5, s6>>
  BY DEF Claiming!Lapse, Claiming!db
<1>2. Claiming!Typed' /\ Claiming!LocksExclude' /\ Claiming!Histories'
  BY <1>1, ClaimHistoriesRest DEF Claiming!Inv, Claiming!Typed, Claiming!LocksExclude, Claiming!db
<1>3. ASSUME NEW c \in Callers PROVE ClaimCallHolds(c)'
  <2>1. ClaimCallHolds(c)
    BY DEF Claiming!Inv, ClaimCallHolds
  <2>2. (Claiming!AskedRight(c) /\ Claiming!InPlace(c) /\ Claiming!FoundOfSource(c) /\ Claiming!FoundOfClaim(c))'
    BY <1>1, <2>1 DEF ClaimCallHolds, Claiming!AskedRight, Claiming!InPlace, Claiming!FoundOfSource,
      Claiming!FoundOfClaim, Claiming!At, Claiming!Is, Claiming!R, Claiming!KeyOf, Claiming!Parsed
  <2>3. Claiming!Told(c)'
    BY <1>1, <2>1 DEF ClaimCallHolds, Claiming!Told, Claiming!Tells, Claiming!R,
      Claiming!SameContent
  <2> QED
    BY <2>2, <2>3 DEF ClaimCallHolds
<1> QED
  BY <1>2, <1>3 DEF Claiming!Inv, ClaimCallHolds

(* Two calls in their transactions have different keys. *)
LEMMA ClaimAlone ==
  ASSUME Claiming!Inv, NEW c \in Callers, NEW d \in Callers, c # d, s6[c].pc \in Claiming!Keyed, s6[d].pc \in Claiming!Keyed
  PROVE  Claiming!KeyOf(Claiming!R(c)) # Claiming!KeyOf(Claiming!R(d))
<1>1. <<c, Claiming!KeyOf(Claiming!R(c))>> \in s5 /\ <<d, Claiming!KeyOf(Claiming!R(d))>> \in s5
  BY DEF Claiming!Inv, Claiming!InPlace
<1> QED
  BY <1>1 DEF Claiming!Inv, Claiming!LocksExclude, Claiming!KeyOf

(* What the end of a call leaves of it and of the others, whatever it committed. *)
LEMMA ClaimEndFrame ==
  ASSUME Claiming!Inv, NEW c \in Callers, NEW a \in Claiming!Answers \ {"none"}, NEW n \in Nat, ~Claiming!At(c, "idle"), Claiming!Answer(c, a, n)
  PROVE  /\ s6' \in [Callers -> ClaimCallRecord]
         /\ s6'[c].pc = "answered" /\ s6'[c].answer = a /\ s6'[c].entry = n /\ Claiming!R(c)' = Claiming!R(c)
         /\ \A d \in Callers : d # c => s6'[d] = s6[d]
         /\ Claiming!LocksExclude'
         /\ \A d \in Callers : d # c => \A o : <<d, o>> \in s5 => <<d, o>> \in s5'
         /\ (Claiming!AskedRight(c) /\ Claiming!InPlace(c) /\ Claiming!FoundOfSource(c) /\ Claiming!FoundOfClaim(c))'
<1>1. s6 \in [Callers -> ClaimCallRecord] /\ s6[c] \in ClaimCallRecord
  BY DEF Claiming!Inv, Claiming!Typed, ClaimCallRecord
<1>2. /\ s6'[c].pc = "answered" /\ s6'[c].answer = a /\ s6'[c].entry = n
      /\ Claiming!R(c)' = Claiming!R(c)
      /\ \A d \in Callers : d # c => s6'[d] = s6[d]
  BY <1>1 DEF Claiming!Answer, ClaimCallRecord, Claiming!R
<1>3. [s6[c] EXCEPT !.pc = "answered", !.answer = a, !.entry = n] \in ClaimCallRecord
  BY <1>1 DEF ClaimCallRecord, Claiming!Pcs
<1>4. s6' \in [Callers -> ClaimCallRecord]
  BY <1>1, <1>3 DEF Claiming!Answer
<1>5. Claiming!LocksExclude' /\ \A d \in Callers : d # c => \A o : <<d, o>> \in s5 => <<d, o>> \in s5'
  BY <1>2, ClaimAnswerLocks DEF Claiming!Answer
<1>6. Claiming!AskedRight(c)'
  BY <1>2 DEF Claiming!Inv, Claiming!AskedRight, Claiming!At
<1>7. (Claiming!InPlace(c) /\ Claiming!FoundOfSource(c) /\ Claiming!FoundOfClaim(c))'
  BY <1>2 DEF Claiming!InPlace, Claiming!FoundOfSource, Claiming!FoundOfClaim, Claiming!At,
    Claiming!Keyed
<1> QED
  BY <1>2, <1>4, <1>5, <1>6, <1>7

(* The others keep what does not depend on the histories. *)
LEMMA ClaimOthersInPlace ==
  ASSUME Claiming!Inv, NEW c \in Callers, NEW d \in Callers, c # d, s6'[d] = s6[d],
         \A o : <<d, o>> \in s5 => <<d, o>> \in s5'
  PROVE  (Claiming!AskedRight(d) /\ Claiming!InPlace(d))' /\ Claiming!R(d)' = Claiming!R(d)
<1>1. Claiming!AskedRight(d) /\ Claiming!InPlace(d)
  BY DEF Claiming!Inv
<1> QED
  BY <1>1 DEF Claiming!AskedRight, Claiming!InPlace, Claiming!At, Claiming!Is, Claiming!R,
    Claiming!KeyOf

(* A version is appended where nobody else writes versions. *)
LEMMA ClaimVersionKeeps ==
  ASSUME Claiming!Inv, NEW c \in Callers, NEW a \in {"done", "unknown"}, NEW n \in Nat, Claiming!At(c, "commit"), Claiming!Answer(c, a, n),
         a = "done" => n = Claiming!Entry(c), s4' = s4,
         Claiming!R(c).op \in {"extract", "correct"}, s2' = Append(s2, Claiming!Appended(c)),
         UNCHANGED <<s1, s3>>
  PROVE  Claiming!Inv'
<1>1. s6[c].pc = "commit" /\ a \in Claiming!Answers \ {"none"} /\ ~Claiming!At(c, "idle")
  BY DEF Claiming!At, Claiming!Answers
<1>2. /\ s6' \in [Callers -> ClaimCallRecord]
      /\ s6'[c].pc = "answered" /\ s6'[c].answer = a /\ s6'[c].entry = n /\ Claiming!R(c)' = Claiming!R(c)
      /\ \A d \in Callers : d # c => s6'[d] = s6[d]
      /\ Claiming!LocksExclude'
      /\ \A d \in Callers : d # c => \A o : <<d, o>> \in s5 => <<d, o>> \in s5'
      /\ (Claiming!AskedRight(c) /\ Claiming!InPlace(c) /\ Claiming!FoundOfSource(c) /\ Claiming!FoundOfClaim(c))'
  BY <1>1, ClaimEndFrame
<1>3. Claiming!Appended(c) \in Claiming!Version
  <2>1. Claiming!R(c).by \in ClaimKeys /\ Claiming!R(c).text \in ClaimTexts
    BY ClaimTypes DEF Claiming!Request
  <2> QED
    BY <2>1 DEF Claiming!Appended, Claiming!Version
<1>4. /\ s2' \in Seq(Claiming!Version) /\ Len(s2') = Len(s2) + 1
      /\ s2'[Len(s2) + 1] = Claiming!Appended(c)
      /\ \A v \in 1 .. Len(s2) : s2'[v] = s2[v]
      /\ DOMAIN s2' = 1 .. Len(s2) + 1
  BY <1>3, ClaimTypes
<1>5. Claiming!Typed'
  BY <1>2, <1>4 DEF Claiming!Inv, Claiming!Typed, ClaimCallRecord
<1>6. Claiming!Histories'
  <2>1. Claiming!Histories /\ Claiming!FoundOfSource(c)
    BY DEF Claiming!Inv
  <2>2. \A v, w \in Claiming!Parsed' : v = w
    <3>1. CASE Claiming!Is(c, "extract")
      <4>1. Claiming!Parsed = {}
        BY <1>1, <2>1, <3>1 DEF Claiming!FoundOfSource
      <4>2. Claiming!Parsed' \subseteq {Len(s2) + 1}
        BY <1>4, <4>1, ClaimTypes DEF Claiming!Parsed
      <4> QED
        BY <4>2
    <3>2. CASE Claiming!Is(c, "correct")
      <4>1. Claiming!Parsed' \subseteq Claiming!Parsed
        BY <1>4, <3>2, ClaimTypes DEF Claiming!Parsed, Claiming!Appended, Claiming!Is
      <4> QED
        BY <2>1, <4>1 DEF Claiming!Histories
    <3> QED
      BY <3>1, <3>2 DEF Claiming!Is
  <2>3. Claiming!ReviewsKeepContent'
    BY <2>1 DEF Claiming!Histories, Claiming!ReviewsKeepContent, Claiming!SameContent
  <2>4. Claiming!CitedExist'
    <3>1. Claiming!Cited' = Claiming!Cited /\ Claiming!Cited \subseteq 0 .. Len(s2)
      BY <2>1 DEF Claiming!Histories, Claiming!Cited, Claiming!CitedExist
    <3> QED
      BY <1>4, <3>1, ClaimTypes DEF Claiming!CitedExist
  <2> QED
    BY <2>1, <2>2, <2>3, <2>4 DEF Claiming!Histories
<1>7. ASSUME NEW d \in Callers, d # c PROVE ClaimCallHolds(d)'
  <2>1. (Claiming!AskedRight(d) /\ Claiming!InPlace(d))' /\ Claiming!R(d)' = Claiming!R(d) /\ s6'[d] = s6[d]
    BY <1>2, <1>7, ClaimOthersInPlace
  <2>2. Claiming!FoundOfSource(d)'
    <3>1. Claiming!R(d).op \in {"extract", "correct"} => s6[d].pc \notin {"check", "commit"}
      BY <1>1, <1>7, ClaimAlone DEF Claiming!Keyed, Claiming!KeyOf, Claiming!SourceOps
    <3> QED
      BY <2>1, <3>1 DEF Claiming!FoundOfSource, Claiming!Is
  <2>3. Claiming!FoundOfClaim(d)'
    <3>1. Claiming!FoundOfClaim(d) /\ Len(s2) \in Nat
      BY ClaimTypes DEF Claiming!Inv
    <3> QED
      BY <1>4, <2>1, <3>1 DEF Claiming!FoundOfClaim, Claiming!Is
  <2>4. Claiming!Told(d)'
    <3>1. Claiming!Told(d)
      BY DEF Claiming!Inv
    <3>2. ASSUME s6[d].answer \in {"done", "replayed"} PROVE Claiming!Tells(Claiming!R(d), s6[d].entry)'
      <4>1. Claiming!Tells(Claiming!R(d), s6[d].entry) /\ (Claiming!R(d).op \in {"extract", "correct"} => s6[d].entry \in DOMAIN s2)
        BY <3>1, <3>2 DEF Claiming!Told
      <4> QED
        BY <1>4, <2>1, <4>1, ClaimTypes DEF Claiming!Tells, Claiming!SameContent
    <3> QED
      BY <1>4, <2>1, <3>1, <3>2, ClaimTypes DEF Claiming!Told
  <2> QED
    BY <2>1, <2>2, <2>3, <2>4 DEF ClaimCallHolds
<1>8. ClaimCallHolds(c)'
  <2>1. ASSUME a = "done" PROVE n = Len(s2) + 1
    BY <2>1 DEF Claiming!Entry, Claiming!Latest, Claiming!SourceOps
  <2>2. ASSUME a = "done" PROVE Claiming!Tells(Claiming!R(c), n)'
    <3>1. Claiming!Is(c, "correct") => Claiming!R(c).base = Len(s2)
      BY <1>1 DEF Claiming!Inv, Claiming!FoundOfSource
    <3> QED
      BY <1>2, <1>4, <2>1, <2>2, <3>1, ClaimTypes DEF Claiming!Tells, Claiming!Appended, Claiming!Is
  <2>3. Claiming!Told(c)'
    BY <1>2, <1>4, <2>1, <2>2, ClaimTypes DEF Claiming!Told
  <2> QED
    BY <1>2, <2>3 DEF ClaimCallHolds
<1> QED
  BY <1>2, <1>5, <1>6, <1>7, <1>8 DEF Claiming!Inv, ClaimCallHolds

(* A revision is appended to the claim its writer found, which is not deleted. *)
LEMMA ClaimRevisionKeeps ==
  ASSUME Claiming!Inv, NEW c \in Callers, NEW a \in {"done", "unknown"}, NEW n \in Nat, Claiming!At(c, "commit"), Claiming!Answer(c, a, n),
         a = "done" => n = Claiming!Entry(c), s4' = s4,
         Claiming!R(c).op \in {"create", "revise", "review"}, s3' = Append(s3, Claiming!Revised(c)),
         UNCHANGED <<s1, s2>>
  PROVE  Claiming!Inv'
<1>1. s6[c].pc = "commit" /\ a \in Claiming!Answers \ {"none"} /\ ~Claiming!At(c, "idle")
  BY DEF Claiming!At, Claiming!Answers
<1>2. /\ s6' \in [Callers -> ClaimCallRecord]
      /\ s6'[c].pc = "answered" /\ s6'[c].answer = a /\ s6'[c].entry = n /\ Claiming!R(c)' = Claiming!R(c)
      /\ \A d \in Callers : d # c => s6'[d] = s6[d]
      /\ Claiming!LocksExclude'
      /\ \A d \in Callers : d # c => \A o : <<d, o>> \in s5 => <<d, o>> \in s5'
      /\ (Claiming!AskedRight(c) /\ Claiming!InPlace(c) /\ Claiming!FoundOfSource(c) /\ Claiming!FoundOfClaim(c))'
  BY <1>1, ClaimEndFrame
<1>3. /\ Claiming!FoundOfClaim(c) /\ Claiming!Histories /\ Claiming!AskedRight(c)
      /\ Claiming!R(c).op = "create" => s3 = <<>> /\ Claiming!R(c).base = 0
      /\ Claiming!R(c).op \in {"revise", "review"} => s3 # <<>> /\ Claiming!R(c).base = Len(s3)
      /\ "claim" \notin s1
  BY <1>1 DEF Claiming!Inv, Claiming!FoundOfClaim, Claiming!Is, Claiming!Histories,
    Claiming!AskedRight
<1>4. Claiming!R(c).op = "review" => Claiming!R(c).base \in DOMAIN s3 /\ s3[Claiming!R(c).base] \in Claiming!Revision
  BY <1>3, ClaimTypes
<1>5. /\ Claiming!Revised(c) \in Claiming!Revision
      /\ Claiming!R(c).op = "review" => /\ Claiming!SameContent(Claiming!Revised(c), s3[Claiming!R(c).base])
                                        /\ Claiming!Revised(c).by = Claiming!R(c).by /\ Claiming!Revised(c).status = Claiming!R(c).status
      /\ Claiming!R(c).op # "review" => /\ Claiming!SameContent(Claiming!Revised(c), Claiming!R(c)) /\ Claiming!Revised(c).by = Claiming!R(c).by
                                        /\ Claiming!Revised(c).status = "unreviewed"
  <2>1. CASE Claiming!R(c).op = "review"
    <3>1. Claiming!Revised(c) = [s3[Claiming!R(c).base] EXCEPT !.by = Claiming!R(c).by, !.status = Claiming!R(c).status]
      BY <2>1 DEF Claiming!Revised, Claiming!Is
    <3>2. Claiming!R(c).by \in ClaimKeys /\ Claiming!R(c).status \in Claiming!Statuses
      BY ClaimTypes DEF Claiming!Request
    <3> QED
      BY <1>4, <2>1, <3>1, <3>2 DEF Claiming!Revision, Claiming!SameContent
  <2>2. CASE Claiming!R(c).op # "review"
    <3>1. Claiming!Revised(c) = [text |-> Claiming!R(c).text, cites |-> Claiming!R(c).cites, by |-> Claiming!R(c).by, status |-> "unreviewed"]
      BY <2>2 DEF Claiming!Revised, Claiming!Is
    <3>2. Claiming!R(c).by \in ClaimKeys /\ Claiming!R(c).text \in ClaimTexts /\ Claiming!R(c).cites \in SUBSET (0 .. ClaimBase + 1)
      BY ClaimTypes DEF Claiming!Request
    <3> QED
      BY <2>2, <3>1, <3>2 DEF Claiming!Revision, Claiming!SameContent, Claiming!Statuses
  <2> QED
    BY <2>1, <2>2
<1>6. /\ s3' \in Seq(Claiming!Revision) /\ Len(s3') = Len(s3) + 1
      /\ s3'[Len(s3) + 1] = Claiming!Revised(c)
      /\ \A r \in 1 .. Len(s3) : s3'[r] = s3[r]
      /\ DOMAIN s3' = 1 .. Len(s3) + 1
  BY <1>5, ClaimTypes
<1>7. Claiming!Typed'
  BY <1>2, <1>6 DEF Claiming!Inv, Claiming!Typed, ClaimCallRecord
<1>8. Claiming!Histories'
  <2>1. Claiming!ReviewsKeepContent'
    <3> SUFFICES ASSUME NEW r \in DOMAIN s3', s3'[r].status # "unreviewed"
                 PROVE  r > 1 /\ Claiming!SameContent(s3'[r], s3'[r - 1])
      BY DEF Claiming!ReviewsKeepContent, Claiming!SameContent
    <3>1. CASE r \in 1 .. Len(s3)
      <4>1. s3[r].status # "unreviewed" /\ r \in DOMAIN s3
        BY <1>6, <3>1, ClaimTypes
      <4>2. r > 1 /\ Claiming!SameContent(s3[r], s3[r - 1])
        BY <1>3, <4>1 DEF Claiming!Histories, Claiming!ReviewsKeepContent
      <4>3. r - 1 \in 1 .. Len(s3)
        BY <3>1, <4>2, ClaimTypes
      <4> QED
        BY <1>6, <3>1, <4>2, <4>3
    <3>2. CASE r = Len(s3) + 1
      <4>1. Claiming!R(c).op = "review"
        BY <1>5, <1>6, <3>2
      <4>2. s3 # <<>> /\ Claiming!R(c).base = Len(s3) /\ Len(s3) \in 1 .. Len(s3)
        BY <1>3, <4>1, ClaimTypes
      <4> QED
        BY <1>5, <1>6, <3>2, <4>1, <4>2, ClaimTypes
    <3> QED
      BY <1>6, <3>1, <3>2, ClaimTypes
  <2>2. Claiming!CitedExist'
    <3>1. ASSUME NEW r \in DOMAIN s3' PROVE s3'[r].cites \subseteq 0 .. Len(s2)
      <4>1. \A q \in DOMAIN s3 : s3[q].cites \subseteq 0 .. Len(s2)
        BY <1>3 DEF Claiming!Histories, Claiming!CitedExist, Claiming!Cited
      <4>2. CASE r \in 1 .. Len(s3)
        BY <1>6, <4>1, <4>2, ClaimTypes
      <4>3. CASE r = Len(s3) + 1 /\ Claiming!R(c).op = "review"
        BY <1>4, <1>5, <1>6, <4>1, <4>3 DEF Claiming!SameContent
      <4>4. CASE r = Len(s3) + 1 /\ Claiming!R(c).op # "review"
        <5>1. Claiming!R(c).cites # {} => Claiming!R(c).cites \subseteq 0 .. Len(s2)
          BY <1>1, <1>3, <4>4 DEF Claiming!FoundOfClaim
        <5> QED
          BY <1>5, <1>6, <4>4, <5>1 DEF Claiming!SameContent
      <4> QED
        BY <1>6, <4>2, <4>3, <4>4, ClaimTypes
    <3> QED
      BY <3>1 DEF Claiming!CitedExist, Claiming!Cited
  <2>3. Claiming!Parsed' = Claiming!Parsed
    BY DEF Claiming!Parsed
  <2>4. s3' # <<>>
    BY <1>6, ClaimTypes
  <2> QED
    BY <1>3, <2>1, <2>2, <2>3, <2>4 DEF Claiming!Histories
<1>9. ASSUME NEW d \in Callers, d # c PROVE ClaimCallHolds(d)'
  <2>1. (Claiming!AskedRight(d) /\ Claiming!InPlace(d))' /\ Claiming!R(d)' = Claiming!R(d) /\ s6'[d] = s6[d]
    BY <1>2, <1>9, ClaimOthersInPlace
  <2>2. Claiming!FoundOfSource(d)'
    <3>1. Claiming!FoundOfSource(d)
      BY DEF Claiming!Inv
    <3> QED
      BY <2>1, <3>1 DEF Claiming!FoundOfSource, Claiming!Is, Claiming!Parsed
  <2>3. Claiming!FoundOfClaim(d)'
    <3>1. Claiming!R(d).op \notin Claiming!SourceOps => s6[d].pc \notin Claiming!Keyed
      BY <1>1, <1>9, ClaimAlone DEF Claiming!Keyed, Claiming!KeyOf, Claiming!SourceOps
    <3>2. Claiming!R(d).op \in {"create", "revise", "review", "deleteClaim"} => Claiming!R(d).op \notin Claiming!SourceOps
      BY DEF Claiming!SourceOps
    <3>3. Claiming!FoundOfClaim(d)
      BY DEF Claiming!Inv
    <3> QED
      BY <2>1, <3>1, <3>2, <3>3 DEF Claiming!FoundOfClaim, Claiming!Is, Claiming!Keyed
  <2>4. Claiming!Told(d)'
    <3>1. Claiming!Told(d)
      BY DEF Claiming!Inv
    <3>2. ASSUME s6[d].answer \in {"done", "replayed"} PROVE Claiming!Tells(Claiming!R(d), s6[d].entry)'
      <4>1. /\ Claiming!Tells(Claiming!R(d), s6[d].entry)
            /\ Claiming!R(d).op \in {"create", "revise", "review"} => s6[d].entry \in DOMAIN s3
        BY <3>1, <3>2 DEF Claiming!Told
      <4> QED
        BY <1>3, <1>6, <2>1, <4>1, ClaimTypes DEF Claiming!Tells, Claiming!SameContent
    <3> QED
      BY <1>6, <2>1, <3>1, <3>2, ClaimTypes DEF Claiming!Told
  <2> QED
    BY <2>1, <2>2, <2>3, <2>4 DEF ClaimCallHolds
<1>10. ClaimCallHolds(c)'
  <2>1. ASSUME a = "done" PROVE n = Len(s3) + 1 /\ n = Claiming!R(c).base + 1
    BY <1>3, <2>1, ClaimTypes DEF Claiming!Entry, Claiming!Latest, Claiming!SourceOps
  <2>2. ASSUME a = "done" PROVE Claiming!Tells(Claiming!R(c), n)'
    BY <1>2, <1>5, <1>6, <2>1, <2>2, ClaimTypes DEF Claiming!Tells, Claiming!SameContent
  <2>3. Claiming!Told(c)'
    BY <1>2, <1>6, <2>1, <2>2, ClaimTypes DEF Claiming!Told
  <2> QED
    BY <1>2, <2>3 DEF ClaimCallHolds
<1> QED
  BY <1>2, <1>7, <1>8, <1>9, <1>10 DEF Claiming!Inv, ClaimCallHolds

(* A deletion ends what nobody else is then writing: its key, and the source's row, see to it. *)
LEMMA ClaimDeletionKeeps ==
  ASSUME Claiming!Inv, NEW c \in Callers, NEW a \in {"done", "unknown"}, NEW n \in Nat, Claiming!At(c, "commit"), Claiming!Answer(c, a, n),
         a = "done" => n = Claiming!Entry(c), s4' = s4,
         Claiming!R(c).op \in {"deleteSource", "deleteClaim"},
         s1' = s1 \union {IF Claiming!Is(c, "deleteSource") THEN "source" ELSE "claim"},
         UNCHANGED <<s2, s3>>
  PROVE  Claiming!Inv'
<1>1. s6[c].pc = "commit" /\ a \in Claiming!Answers \ {"none"} /\ ~Claiming!At(c, "idle")
  BY DEF Claiming!At, Claiming!Answers
<1>2. /\ s6' \in [Callers -> ClaimCallRecord]
      /\ s6'[c].pc = "answered" /\ s6'[c].answer = a /\ s6'[c].entry = n /\ Claiming!R(c)' = Claiming!R(c)
      /\ \A d \in Callers : d # c => s6'[d] = s6[d]
      /\ Claiming!LocksExclude'
      /\ \A d \in Callers : d # c => \A o : <<d, o>> \in s5 => <<d, o>> \in s5'
      /\ (Claiming!AskedRight(c) /\ Claiming!InPlace(c) /\ Claiming!FoundOfSource(c) /\ Claiming!FoundOfClaim(c))'
  BY <1>1, ClaimEndFrame
<1>3. Claiming!Typed'
  BY <1>2 DEF Claiming!Inv, Claiming!Typed, ClaimCallRecord
<1>4. Claiming!FoundOfClaim(c) /\ (Claiming!Is(c, "deleteClaim") => s3 # <<>>)
  BY <1>1 DEF Claiming!Inv, Claiming!FoundOfClaim, Claiming!Is
<1>5. Claiming!Histories'
  BY <1>4 DEF Claiming!Inv, Claiming!Histories, Claiming!Parsed, Claiming!ReviewsKeepContent,
    Claiming!SameContent, Claiming!CitedExist, Claiming!Cited, Claiming!Is
<1>6. ASSUME NEW d \in Callers, d # c PROVE ClaimCallHolds(d)'
  <2>1. (Claiming!AskedRight(d) /\ Claiming!InPlace(d))' /\ Claiming!R(d)' = Claiming!R(d) /\ s6'[d] = s6[d]
    BY <1>2, <1>6, ClaimOthersInPlace
  <2>2. Claiming!FoundOfSource(d) /\ Claiming!FoundOfClaim(d) /\ Claiming!Told(d) /\ Claiming!InPlace(d) /\ Claiming!InPlace(c)
    BY DEF Claiming!Inv
  <2>3. Claiming!FoundOfSource(d)'
    <3>1. Claiming!Is(c, "deleteSource") /\ Claiming!R(d).op \in {"extract", "correct"} => s6[d].pc \notin {"check", "commit"}
      BY <1>1, <1>6, ClaimAlone DEF Claiming!Keyed, Claiming!KeyOf, Claiming!SourceOps, Claiming!Is
    <3> QED
      BY <2>1, <2>2, <3>1 DEF Claiming!FoundOfSource, Claiming!Is, Claiming!Parsed
  <2>4. Claiming!FoundOfClaim(d)'
    <3>1. Claiming!Is(c, "deleteClaim") /\ Claiming!R(d).op \notin Claiming!SourceOps => s6[d].pc \notin Claiming!Keyed
      BY <1>1, <1>6, ClaimAlone DEF Claiming!Keyed, Claiming!KeyOf, Claiming!SourceOps, Claiming!Is
    <3>2. Claiming!R(d).op \in {"create", "revise", "review", "deleteClaim"} => Claiming!R(d).op \notin Claiming!SourceOps
      BY DEF Claiming!SourceOps
    <3>3. Claiming!Is(c, "deleteSource") /\ Claiming!R(d).op \in {"create", "revise"} /\ Claiming!R(d).cites # {}
                     => s6[d].pc \notin {"check", "commit"}
      <4> SUFFICES ASSUME Claiming!Is(c, "deleteSource"), Claiming!R(d).op \in {"create", "revise"}, Claiming!R(d).cites # {},
                          s6[d].pc \in {"check", "commit"}
                   PROVE  FALSE
        OBVIOUS
      <4>1. <<d, "shared">> \in s5 /\ <<c, "row">> \in s5
        BY <1>1, <2>2 DEF Claiming!InPlace
      <4> QED
        BY <1>6, <4>1 DEF Claiming!Inv, Claiming!LocksExclude
    <3> QED
      BY <2>1, <2>2, <3>1, <3>2, <3>3 DEF Claiming!FoundOfClaim, Claiming!Is, Claiming!Keyed
  <2>5. Claiming!Told(d)'
    BY <2>1, <2>2 DEF Claiming!Told, Claiming!Tells, Claiming!SameContent
  <2> QED
    BY <2>1, <2>3, <2>4, <2>5 DEF ClaimCallHolds
<1>7. ClaimCallHolds(c)'
  <2>1. ASSUME a = "done", Claiming!Is(c, "deleteClaim") PROVE n = Len(s3)
    BY <2>1, ClaimTypes DEF Claiming!Entry, Claiming!Latest, Claiming!SourceOps, Claiming!Is
  <2>2. Claiming!Told(c)'
    BY <1>2, <2>1 DEF Claiming!Told, Claiming!Tells, Claiming!Is
  <2> QED
    BY <1>2, <2>2 DEF ClaimCallHolds
<1> QED
  BY <1>2, <1>3, <1>5, <1>6, <1>7 DEF Claiming!Inv, ClaimCallHolds

(* A commit adds the one entry its locks reserved, or fails and adds none. *)
LEMMA ClaimCommitKeeps ==
  ASSUME Claiming!Inv, NEW c \in Callers, Claiming!Commit(c)
  PROVE  Claiming!Inv'
<1>1. Claiming!At(c, "commit") /\ ~Claiming!At(c, "idle") /\ s4' = s4
  BY DEF Claiming!Commit, Claiming!At
<1>2. CASE ~Claiming!Authorized(c) /\ UNCHANGED Claiming!db /\ Claiming!Answer(c, "forbidden", 0)
  BY <1>1, <1>2, ClaimAnswerKeeps DEF Claiming!Answers
<1>3. CASE UNCHANGED Claiming!db /\ Claiming!Answer(c, "unknown", 0)
  BY <1>1, <1>3, ClaimAnswerKeeps DEF Claiming!Answers
<1>4. CASE Claiming!Apply(c) /\ (Claiming!Answer(c, "done", Claiming!Entry(c)) \/ Claiming!Answer(c, "unknown", 0))
  <2>1. Claiming!Entry(c) \in Nat
    <3>1. Claiming!Latest(c) \in Nat
      BY ClaimTypes DEF Claiming!Latest
    <3> QED
      BY <3>1 DEF Claiming!Entry
  <2>2. PICK a \in {"done", "unknown"}, n \in Nat : Claiming!Answer(c, a, n) /\ (a = "done" => n = Claiming!Entry(c))
    BY <1>4, <2>1
  <2> QED
    BY <1>1, <1>4, <2>2, ClaimVersionKeeps, ClaimRevisionKeeps, ClaimDeletionKeeps DEF
      Claiming!Apply
<1> QED
  BY <1>2, <1>3, <1>4 DEF Claiming!Commit

(* Every step of the calls keeps the invariant. *)
LEMMA ClaimStepKeeps == ASSUME Claiming!Inv, [Claiming!Next]_(Claiming!vars) PROVE Claiming!Inv'
<1>1. CASE UNCHANGED Claiming!vars
  <2>1. UNCHANGED Claiming!db /\ s5' = s5 /\ s6' = s6 /\ s4' = s4
    BY <1>1 DEF Claiming!vars, Claiming!db
  <2>2. Claiming!Typed' /\ Claiming!LocksExclude' /\ Claiming!Histories'
    BY <2>1, ClaimHistoriesRest DEF Claiming!Inv, Claiming!Typed, Claiming!LocksExclude, Claiming!db
  <2>3. ASSUME NEW c \in Callers PROVE ClaimCallHolds(c)'
    <3>1. ClaimCallHolds(c)
      BY DEF Claiming!Inv, ClaimCallHolds
    <3>2. (Claiming!AskedRight(c) /\ Claiming!InPlace(c) /\ Claiming!FoundOfSource(c) /\ Claiming!FoundOfClaim(c))'
      BY <2>1, <3>1 DEF ClaimCallHolds, Claiming!AskedRight, Claiming!InPlace,
        Claiming!FoundOfSource, Claiming!FoundOfClaim, Claiming!At, Claiming!Is, Claiming!R,
        Claiming!KeyOf, Claiming!Parsed, Claiming!db
    <3>3. Claiming!Told(c)'
      BY <2>1, <3>1 DEF ClaimCallHolds, Claiming!Told, Claiming!Tells, Claiming!R,
        Claiming!SameContent, Claiming!db
    <3> QED
      BY <3>2, <3>3 DEF ClaimCallHolds
  <2> QED
    BY <2>2, <2>3 DEF Claiming!Inv, ClaimCallHolds
<1>2. ASSUME NEW c \in Callers, Claiming!Steps(c) PROVE Claiming!Inv'
  BY <1>2, ClaimLockKeyKeeps, ClaimLookKeeps, ClaimReadBytesKeeps, ClaimLockSourceKeeps,
    ClaimShareSourceKeeps, ClaimCheckContentKeeps,
     ClaimCheckKeeps, ClaimCommitKeeps DEF Claiming!Steps
<1> QED
  BY <1>1, <1>2, ClaimBeginKeeps, ClaimLapseKeeps DEF Claiming!Next, Claiming!NextOf

(* The invariant says what the answers and the histories promise. *)
LEMMA ClaimInvTells ==
  Claiming!Inv => Claiming!TypeOK /\ Claiming!AnswersAreEntries /\ Claiming!ReviewsKeepContent /\ Claiming!ParsedAtMostOnce /\ Claiming!CitedExist
<1> SUFFICES ASSUME Claiming!Inv PROVE Claiming!TypeOK /\ Claiming!AnswersAreEntries /\ Claiming!ReviewsKeepContent /\ Claiming!ParsedAtMostOnce /\ Claiming!CitedExist
  OBVIOUS
<1>1. Claiming!TypeOK
  <2>1. ASSUME NEW c \in Callers
        PROVE  /\ s6[c].pc \in Claiming!Pcs /\ Claiming!R(c) \in Claiming!Request /\ s6[c].answer \in Claiming!Answers
               /\ (s6[c].pc = "answered") = (s6[c].answer # "none")
               /\ s6[c].pc \in {"idle", "bytes", "answered"} => \A k \in s5 : k[1] # c
    <3>1. s6[c] \in ClaimCallRecord /\ Claiming!InPlace(c)
      BY DEF Claiming!Inv, Claiming!Typed, ClaimCallRecord
    <3>2. s6[c].pc \in {"idle", "bytes", "answered"} => \A k \in s5 : k[1] # c
      BY ClaimUnkeyed DEF Claiming!Keyed
    <3> QED
      BY <3>1, <3>2 DEF ClaimCallRecord, Claiming!InPlace, Claiming!R
  <2> QED
    BY <2>1 DEF Claiming!TypeOK, Claiming!Inv, Claiming!Typed, Claiming!Histories
<1>2. Claiming!AnswersAreEntries
  BY DEF Claiming!Inv, Claiming!Told, Claiming!AnswersAreEntries
<1>3. Claiming!ReviewsKeepContent /\ Claiming!CitedExist
  BY DEF Claiming!Inv, Claiming!Histories
<1>4. Claiming!ParsedAtMostOnce
  <2>1. CASE Claiming!Parsed = {}
    BY <2>1, FS_EmptySet, ClaimCounts DEF Claiming!ParsedAtMostOnce
  <2>2. ASSUME NEW v \in Claiming!Parsed PROVE Claiming!ParsedAtMostOnce
    <3>1. Claiming!Parsed = {v}
      BY <2>2 DEF Claiming!Inv, Claiming!Histories
    <3>2. Cardinality({v}) = 1
      BY FS_Singleton
    <3>3. Cardinality(Claiming!Parsed) = 1
      BY <3>1, <3>2
    <3> QED
      BY <3>3, ClaimCounts DEF Claiming!ParsedAtMostOnce
  <2> QED
    BY <2>1, <2>2
<1> QED
  BY <1>1, <1>2, <1>3, <1>4

(* Histories change at a COMMIT alone, of a call that is authorized. *)
LEMMA ClaimChangedByCommit ==
  ASSUME Claiming!Inv, [Claiming!Next]_(Claiming!vars), s2' # s2 \/ s3' # s3
  PROVE  \E c \in Callers : Claiming!At(c, "commit") /\ Claiming!Authorized(c) /\ Claiming!Apply(c) /\ s4' = s4
<1>1. ASSUME NEW c \in Callers, Claiming!Steps(c), ~Claiming!Commit(c) PROVE UNCHANGED Claiming!db
  BY <1>1 DEF Claiming!Steps, Claiming!LockKey, Claiming!Look, Claiming!ReadBytes,
    Claiming!LockSource, Claiming!ShareSource, Claiming!CheckContent, Claiming!Check
<1>2. PICK c \in Callers : Claiming!Commit(c)
  BY <1>1 DEF Claiming!Next, Claiming!NextOf, Claiming!vars, Claiming!db, Claiming!Begin,
    Claiming!Lapse
<1> QED
  BY <1>2 DEF Claiming!Commit, Claiming!db

(* Nothing is appended to what is deleted, nor without the grants it needs. *)
LEMMA ClaimStepTells ==
  ASSUME Claiming!Inv, [Claiming!Next]_(Claiming!vars)
  PROVE  Claiming!DeletionsEndHistories /\ Claiming!RevisionsAuthorized
<1>1. CASE s2' = s2 /\ s3' = s3
  BY <1>1 DEF Claiming!DeletionsEndHistories, Claiming!RevisionsAuthorized
<1>2. CASE s2' # s2 \/ s3' # s3
  <2>1. PICK c \in Callers : s6[c].pc = "commit" /\ Claiming!Authorized(c) /\ Claiming!Apply(c) /\ s4' = s4
    BY <1>2, ClaimChangedByCommit DEF Claiming!At
  <2>2. Claiming!FoundOfSource(c) /\ Claiming!FoundOfClaim(c)
    BY DEF Claiming!Inv
  <2>3. CASE Claiming!R(c).op \in {"extract", "correct"}
    <3>1. s3' = s3 /\ "source" \notin s1
      BY <2>1, <2>2, <2>3 DEF Claiming!Apply, Claiming!FoundOfSource, Claiming!Is
    <3> QED
      BY <3>1 DEF Claiming!DeletionsEndHistories, Claiming!RevisionsAuthorized
  <2>4. CASE Claiming!R(c).op \in {"create", "revise", "review"}
    <3>1. s2' = s2 /\ s3' = Append(s3, Claiming!Revised(c)) /\ Claiming!Holds(c)
      BY <2>1, <2>4 DEF Claiming!Apply, Claiming!Authorized
    <3>2. /\ Claiming!R(c).op = "create" => s3 = <<>>
          /\ Claiming!R(c).op # "create" => "claim" \notin s1 /\ s3 # <<>> /\ Claiming!R(c).base = Len(s3)
          /\ Claiming!R(c).op # "review" /\ Claiming!R(c).cites # {} => "source" \notin s1
          /\ "claim" \in s1 => s3 # <<>>
          /\ Claiming!Is(c, "review") => Claiming!R(c).status # "unreviewed"
      BY <2>1, <2>2, <2>4 DEF Claiming!FoundOfClaim, Claiming!Is, Claiming!Inv, Claiming!Histories,
        Claiming!AskedRight, Claiming!At
    <3>3. /\ Len(s3') = Len(s3) + 1 /\ DOMAIN s3' = 1 .. Len(s3) + 1
          /\ s3'[Len(s3')] = Claiming!Revised(c)
          /\ \A r \in 1 .. Len(s3) : s3'[r] = s3[r]
      BY <3>1, ClaimTypes
    <3>4. /\ ~Claiming!Is(c, "review") => Claiming!Revised(c).cites = Claiming!R(c).cites /\ Claiming!Revised(c).by = Claiming!R(c).by
          /\ Claiming!Is(c, "review") => /\ Claiming!Revised(c).status = Claiming!R(c).status /\ Claiming!Revised(c).by = Claiming!R(c).by
                                         /\ Claiming!Revised(c).cites = s3[Claiming!R(c).base].cites
                                         /\ Claiming!R(c).base \in DOMAIN s3
      <4>1. CASE Claiming!Is(c, "review")
        <5>1. Claiming!R(c).base \in DOMAIN s3 /\ s3[Claiming!R(c).base] \in Claiming!Revision
          BY <3>2, <4>1, ClaimTypes DEF Claiming!Is
        <5> QED
          BY <4>1, <5>1 DEF Claiming!Revised, Claiming!Revision
      <4>2. CASE ~Claiming!Is(c, "review")
        BY <4>2 DEF Claiming!Revised
      <4> QED
        BY <4>1, <4>2
    <3>5. Claiming!DeletionsEndHistories
      <4>1. "claim" \notin s1
        BY <2>4, <3>2
      <4>2. Claiming!Revised(c).status = "unreviewed" => Claiming!R(c).op # "review"
        BY <3>2, <3>4 DEF Claiming!Is
      <4> QED
        BY <3>1, <3>2, <3>3, <3>4, <4>1, <4>2 DEF Claiming!DeletionsEndHistories, Claiming!Is
    <3>6. ASSUME UNION {s3'[r].cites : r \in DOMAIN s3'} # {} PROVE Claiming!R(c).by \in s4
      <4>1. PICK r \in DOMAIN s3' : s3'[r].cites # {}
        BY <3>6
      <4>2. CASE r \in 1 .. Len(s3)
        <5>1. Claiming!Cited # {}
          BY <3>3, <4>1, <4>2, ClaimTypes DEF Claiming!Cited
        <5> QED
          BY <3>1, <5>1 DEF Claiming!Holds, Claiming!Relies
      <4>3. CASE r = Len(s3')
        <5>1. Claiming!Cited \union Claiming!R(c).cites # {}
          BY <3>3, <3>4, <4>1, <4>3 DEF Claiming!Cited
        <5> QED
          BY <3>1, <5>1 DEF Claiming!Holds, Claiming!Relies
      <4> QED
        BY <3>3, <4>2, <4>3, ClaimTypes
    <3>7. Claiming!RevisionsAuthorized
      BY <3>3, <3>4, <3>6 DEF Claiming!RevisionsAuthorized
    <3> QED
      BY <3>5, <3>7
  <2>5. CASE Claiming!R(c).op \in {"deleteSource", "deleteClaim"}
    BY <1>2, <2>1, <2>5 DEF Claiming!Apply
  <2> QED
    BY <2>1, <2>3, <2>4, <2>5 DEF Claiming!Apply
<1> QED
  BY <1>1, <1>2

----------------------------------------------------------------------------
(* Links: the parts "links" and "lists". *)

(* The links' constants are as Links assumes. *)
LEMMA LinkConstants == Linking!LinksAssumption
  BY SuiteAssumption

(* Cardinalities are what they are. *)
LEMMA LinkCounts == \A S : Linking!Cardinality(S) = Cardinality(S) /\ (Linking!IsFiniteSet(S) <=> IsFiniteSet(S))
  BY DEF Linking!Cardinality, Cardinality, Linking!IsFiniteSet, IsFiniteSet

LinkCallRecord == [pc : Linking!Pcs, request : Linking!Request, answer : Linking!Answers,
                   granted : SUBSET LinkEnds, fenced : SUBSET LinkEnds,
                   todo : SUBSET (LinkEnds \union LinkRows), writes : BOOLEAN,
                   due : SUBSET LinkRows, given : SUBSET LinkRows, after : Nat,
                   page : SUBSET LinkRows]

(* What holds of every call, whatever the rows are, and what it has found of them. *)
LinkCallStands(c) == Linking!AskedRight(c) /\ Linking!InPlace(c) /\ Linking!DoneStands(c) /\ Linking!ListGoesOn(c)
LinkCallFound(c) == Linking!FoundByCreate(c) /\ Linking!FoundByUnlink(c) /\ Linking!FoundByDelete(c)

(* Endpoints are no links, and are locked before them. *)
LEMMA LinkRowsApart ==
  /\ \A e \in LinkEnds : e \notin LinkRows /\ e \in Nat /\ e \in Int
  /\ \A l \in LinkRows : l \notin LinkEnds /\ l \in Nat /\ l \in Int /\ l > 0
  /\ \A e \in LinkEnds, l \in LinkRows : e < l
<1>1. PICK e \in LinkEnds : e \in Nat
  BY LinkConstants DEF Linking!LinksAssumption
<1> QED
  BY LinkConstants, <1>1 DEF Linking!LinksAssumption

(* What is known of a call whose state is of its type. *)
LEMMA LinkTypes ==
  ASSUME Linking!Inv, NEW c \in Callers
  PROVE  /\ s7 \in [Callers -> LinkCallRecord] /\ s7[c] \in LinkCallRecord
         /\ Linking!R(c) \in Linking!Request /\ Linking!R(c).on \in LinkEnds \union LinkRows /\ Linking!R(c).sides \subseteq LinkEnds
         /\ Linking!R(c).op \in {"create", "unlink", "delete", "revise", "list"}
         /\ s7[c].todo \subseteq LinkEnds \union LinkRows
  BY DEF Linking!Inv, Linking!Typed, LinkCallRecord, Linking!R, Linking!Request

(* Before any call nothing is deleted, linked or locked. *)
LEMMA LinkInitInv == Linking!Init => Linking!Inv
<1> SUFFICES ASSUME Linking!Init PROVE Linking!Inv
  OBVIOUS
<1>1. Linking!NoCall \in LinkCallRecord /\ Linking!NoCall.request.on = LinkClaim /\ LinkClaim \in LinkEnds
  BY LinkConstants DEF Linking!NoCall, LinkCallRecord, Linking!Pcs, Linking!Request,
    Linking!Answers, Linking!LinksAssumption, Linking!Policies
<1>2. Linking!NoLink \in Linking!Rows
  BY DEF Linking!NoLink, Linking!Rows, Linking!Policies
<1>3. Linking!Typed
  BY <1>1, <1>2 DEF Linking!Init, Linking!Typed, LinkCallRecord
<1>4. Linking!LocksExclude /\ Linking!EventsOnce /\ Linking!NoDanglingLink
  BY DEF Linking!Init, Linking!LocksExclude, Linking!EventsOnce, Linking!NoDanglingLink,
    Linking!Live
<1>5. \A c \in Callers : s7[c] = Linking!NoCall
  BY DEF Linking!Init
<1>6. Linking!ChangedOnce
  BY <1>5 DEF Linking!ChangedOnce, Linking!NoCall
<1>7. ASSUME NEW c \in Callers PROVE LinkCallStands(c) /\ LinkCallFound(c)
  <2>1. LinkCallStands(c)
    BY <1>1, <1>5 DEF LinkCallStands, Linking!AskedRight, Linking!InPlace, Linking!DoneStands,
      Linking!ListGoesOn, Linking!R, Linking!Is, Linking!At, Linking!NoCall, Linking!Within,
      Linking!Init
  <2>2. LinkCallFound(c)
    BY <1>5 DEF LinkCallFound, Linking!FoundByCreate, Linking!FoundByUnlink, Linking!FoundByDelete,
      Linking!R, Linking!Is, Linking!NoCall
  <2> QED
    BY <2>1, <2>2
<1> QED
  BY <1>3, <1>4, <1>6, <1>7 DEF Linking!Inv, LinkCallStands, LinkCallFound

(* Rows only ever come, and end; grants only expire. *)
LinkGrows ==
  /\ s1 \subseteq s1' /\ s2 \subseteq s2' /\ s5' \subseteq s5
  /\ \A l \in LinkRows : s3[l] # Linking!NoLink => /\ s3'[l] # Linking!NoLink /\ s3'[l].sides = s3[l].sides
                                                   /\ s3[l].tombstone => s3'[l].tombstone

(* A step that changes no row only grows them. *)
LEMMA LinkRestGrows == UNCHANGED Linking!db /\ s5' \subseteq s5 => LinkGrows
  BY DEF Linking!db, LinkGrows

(* A link that was there is live after a step only if it was before, and no fewer grants are needed of its readers. *)
LEMMA LinkGrowsLive ==
  ASSUME LinkGrows, NEW l \in LinkRows, s3[l] # Linking!NoLink, Linking!Live(l)'
  PROVE  Linking!Live(l) /\ Linking!Needs(s3[l].sides) \subseteq Linking!Needs(s3[l].sides)'
  BY DEF LinkGrows, Linking!Live, Linking!Needs

(* While rows only grow, a call that rests stands. *)
LEMMA LinkStandsRest ==
  ASSUME Linking!Inv, NEW d \in Callers, LinkGrows, s7'[d] = s7[d],
         \A k \in s6' : k[1] = d => k \in s6, \A k \in s6 : k[1] = d => k \in s6'
  PROVE  LinkCallStands(d)'
<1>1. Linking!AskedRight(d) /\ Linking!InPlace(d) /\ Linking!DoneStands(d) /\ Linking!ListGoesOn(d)
  BY DEF Linking!Inv
<1>2. Linking!R(d)' = Linking!R(d) /\ Linking!R(d).op \in {"create", "unlink", "delete", "revise", "list"}
  BY LinkTypes DEF Linking!R
<1>3. Linking!AskedRight(d)'
  BY <1>1, <1>2 DEF Linking!AskedRight, Linking!At, Linking!Is
<1>4. Linking!InPlace(d)'
  BY <1>1, <1>2 DEF Linking!InPlace, Linking!At, Linking!Is
<1>5. Linking!DoneStands(d)'
  BY <1>1, <1>2 DEF Linking!DoneStands, Linking!Is, LinkGrows, Linking!AskedRight, Linking!NoLink
<1>6. Linking!ListGoesOn(d)'
  <2>1. CASE Linking!Is(d, "list") /\ ~Linking!At(d, "idle")
    <3>1. \A l \in s7[d].due : l \in LinkRows /\ s3[l] # Linking!NoLink /\ Linking!R(d).on \in s3[l].sides
      BY <1>1, <2>1, LinkTypes DEF Linking!ListGoesOn, LinkCallRecord
    <3>2. Linking!Owed(d)' \subseteq Linking!Owed(d)
      <4> SUFFICES ASSUME NEW l \in Linking!Owed(d)' PROVE l \in Linking!Owed(d)
        OBVIOUS
      <4>1. l \in s7[d].due /\ Linking!Live(l)' /\ (Linking!Needs(s3[l].sides) \subseteq s5)'
        BY DEF Linking!Owed
      <4>2. l \in LinkRows /\ s3[l] # Linking!NoLink
        BY <3>1, <4>1
      <4>3. Linking!Live(l) /\ Linking!Needs(s3[l].sides) \subseteq Linking!Needs(s3[l].sides)'
        BY <4>1, <4>2, LinkGrowsLive
      <4> QED
        BY <4>1, <4>3 DEF Linking!Owed, LinkGrows
    <3>3. \A l \in s7[d].due : s3'[l] # Linking!NoLink /\ Linking!R(d).on \in s3'[l].sides
      BY <3>1 DEF LinkGrows
    <3>4. s5' \subseteq s5
      BY DEF LinkGrows
    <3> QED
      BY <1>1, <1>2, <2>1, <3>2, <3>3, <3>4 DEF Linking!ListGoesOn, Linking!At, Linking!Is
  <2>2. CASE ~(Linking!Is(d, "list") /\ ~Linking!At(d, "idle"))
    BY <1>2, <2>2 DEF Linking!ListGoesOn, Linking!At, Linking!Is
  <2> QED
    BY <2>1, <2>2
<1> QED
  BY <1>3, <1>4, <1>5, <1>6 DEF LinkCallStands

(* While the rows rest, so does what a call has found of them. *)
LEMMA LinkFoundRests ==
  ASSUME Linking!Inv, NEW d \in Callers, UNCHANGED <<s1, s3>>, s7'[d] = s7[d],
         \A k \in s6 : k[1] = d => k \in s6'
  PROVE  LinkCallFound(d)'
<1>1. Linking!FoundByCreate(d) /\ Linking!FoundByUnlink(d) /\ Linking!FoundByDelete(d)
  BY DEF Linking!Inv
<1>2. \A o : Linking!Owns(d, o) => Linking!Owns(d, o)'
  BY DEF Linking!Owns
<1>3. Linking!R(d)' = Linking!R(d) /\ (\A l : Linking!Live(l)' <=> Linking!Live(l)) /\ s1' = s1 /\ s3' = s3
  BY DEF Linking!R, Linking!Live
<1>4. \A e : Linking!Incident(e)' = Linking!Incident(e) /\ (Linking!Restricted(e)' <=> Linking!Restricted(e))
  BY <1>3 DEF Linking!Incident, Linking!Restricted
<1>5. Linking!FoundByCreate(d)' /\ Linking!FoundByUnlink(d)'
  BY <1>1, <1>2, <1>3 DEF Linking!FoundByCreate, Linking!FoundByUnlink, Linking!Is
<1>6. Linking!FoundByDelete(d)'
  BY <1>1, <1>2, <1>3, <1>4 DEF Linking!FoundByDelete, Linking!Is
<1> QED
  BY <1>5, <1>6 DEF LinkCallFound

(* Where no row changes, what the rows tell stays true. *)
LEMMA LinkRowsRest ==
  ASSUME Linking!Inv, UNCHANGED <<s1, s3, s4>>
  PROVE  Linking!EventsOnce' /\ Linking!NoDanglingLink'
  BY DEF Linking!Inv, Linking!EventsOnce, Linking!NoDanglingLink, Linking!Live

(* A change answered once stays so while nobody else is answered done. *)
LEMMA LinkOnceRests ==
  ASSUME Linking!Inv, NEW c \in Callers, \A d \in Callers : d # c => s7'[d] = s7[d],
         s7'[c].answer # "done" \/ Linking!R(c)'.op \notin {"create", "unlink", "delete"}
  PROVE  Linking!ChangedOnce'
  BY DEF Linking!Inv, Linking!ChangedOnce, Linking!R

(* The locks of the other calls. *)
LinkOthersLocks(c) ==
  /\ \A k \in s6' : k[1] # c => k \in s6
  /\ \A k \in s6 : k[1] # c => k \in s6'

(* The end of a transaction. *)
LEMMA LinkEndFrame ==
  ASSUME Linking!Inv, NEW c \in Callers, NEW a \in Linking!Answers \ {"none"}, ~Linking!At(c, "idle"), Linking!Answer(c, a)
  PROVE  /\ s7' \in [Callers -> LinkCallRecord]
         /\ s7'[c].pc = "answered" /\ s7'[c].answer = a /\ Linking!R(c)' = Linking!R(c)
         /\ s7'[c].due = s7[c].due /\ s7'[c].given = s7[c].given
         /\ \A d \in Callers : d # c => s7'[d] = s7[d]
         /\ Linking!LocksExclude' /\ LinkOthersLocks(c)
         /\ (Linking!AskedRight(c) /\ Linking!InPlace(c) /\ LinkCallFound(c))'
<1> DEFINE new == [Linking!NoCall EXCEPT !.pc = "answered", !.request = Linking!R(c), !.answer = a,
                                         !.due = s7[c].due, !.given = s7[c].given]
<1>1. s7 \in [Callers -> LinkCallRecord] /\ s7[c] \in LinkCallRecord
  BY LinkTypes
<1>2. /\ new.pc = "answered" /\ new.request = Linking!R(c) /\ new.answer = a
      /\ new.due = s7[c].due /\ new.given = s7[c].given /\ new.todo = {} /\ new \in LinkCallRecord
  BY <1>1, LinkConstants DEF Linking!NoCall, LinkCallRecord, Linking!Pcs, Linking!R,
    Linking!LinksAssumption, Linking!Policies
<1>3. s7' = [s7 EXCEPT ![c] = new] /\ s6' = {k \in s6 : k[1] # c}
  BY DEF Linking!Answer, Linking!Ended
<1> HIDE DEF new
<1>4. s7' \in [Callers -> LinkCallRecord] /\ s7'[c] = new /\ \A d \in Callers : d # c => s7'[d] = s7[d]
  BY <1>1, <1>2, <1>3
<1>5. Linking!R(c)' = Linking!R(c)
  BY <1>2, <1>4 DEF Linking!R
<1>6. Linking!LocksExclude' /\ LinkOthersLocks(c)
  <2>1. \A k \in s6' : k[1] # c /\ k \in s6
    BY <1>3
  <2>2. \A k \in s6 : k \in Callers \X {"key", "row"} \X (LinkEnds \union LinkRows) \X {"write", "share"}
    BY DEF Linking!Inv, Linking!LocksExclude
  <2>3. \A k \in s6' : s7'[k[1]] = s7[k[1]]
    BY <1>4, <2>1, <2>2
  <2>4. Linking!LocksExclude'
    BY <2>1, <2>3 DEF Linking!Inv, Linking!LocksExclude, Linking!Is, Linking!R
  <2> QED
    BY <1>3, <2>4 DEF LinkOthersLocks
<1>7. Linking!AskedRight(c)'
  BY <1>2, <1>4, <1>5 DEF Linking!Inv, Linking!AskedRight, Linking!At, Linking!Is
<1>8. Linking!InPlace(c)'
  BY <1>2, <1>3, <1>4 DEF Linking!InPlace, Linking!At, Linking!Within
<1>9. LinkCallFound(c)'
  BY <1>2, <1>4 DEF LinkCallFound, Linking!FoundByCreate, Linking!FoundByUnlink,
    Linking!FoundByDelete, Linking!Past
<1> QED
  BY <1>2, <1>4, <1>5, <1>6, <1>7, <1>8, <1>9

(* A call is answered without a change. *)
LEMMA LinkAnswerKeeps ==
  ASSUME Linking!Inv, NEW c \in Callers, NEW a \in Linking!Answers \ {"none", "done"}, ~Linking!At(c, "idle"),
         UNCHANGED Linking!db, s5' = s5, Linking!Answer(c, a)
  PROVE  Linking!Inv'
<1>1. /\ s7' \in [Callers -> LinkCallRecord]
      /\ s7'[c].pc = "answered" /\ s7'[c].answer = a /\ Linking!R(c)' = Linking!R(c)
      /\ s7'[c].due = s7[c].due /\ s7'[c].given = s7[c].given
      /\ \A d \in Callers : d # c => s7'[d] = s7[d]
      /\ Linking!LocksExclude' /\ LinkOthersLocks(c)
      /\ (Linking!AskedRight(c) /\ Linking!InPlace(c) /\ LinkCallFound(c))'
  BY LinkEndFrame
<1>2. Linking!Typed'
  BY <1>1 DEF Linking!Inv, Linking!Typed, LinkCallRecord, Linking!db
<1>3. Linking!EventsOnce' /\ Linking!NoDanglingLink' /\ Linking!ChangedOnce'
  BY <1>1, LinkRowsRest, LinkOnceRests DEF Linking!db
<1>4. ASSUME NEW d \in Callers, d # c PROVE (LinkCallStands(d) /\ LinkCallFound(d))'
  BY <1>1, <1>4, LinkRestGrows, LinkStandsRest, LinkFoundRests DEF LinkOthersLocks, Linking!db
<1>5. (Linking!DoneStands(c) /\ Linking!ListGoesOn(c))'
  <2>1. Linking!DoneStands(c)'
    BY <1>1 DEF Linking!DoneStands
  <2>2. Linking!ListGoesOn(c)'
    BY <1>1 DEF Linking!Inv, Linking!ListGoesOn, Linking!At, Linking!Is, Linking!db
  <2> QED
    BY <2>1, <2>2
<1> QED
  BY <1>1, <1>2, <1>3, <1>4, <1>5 DEF Linking!Inv, LinkCallStands, LinkCallFound

(* A call takes a lock that is free for it. *)
LEMMA LinkLockTakes ==
  ASSUME Linking!Inv, NEW c \in Callers, NEW what \in {"key", "row"}, NEW o \in LinkEnds \union LinkRows,
         NEW mode \in {"write", "share"}, Linking!Lock(c, what, o, mode), ~Linking!Is(c, "list"), Linking!R(c)' = Linking!R(c),
         s7'[c].pc \in Linking!Within, \A d \in Callers : d # c => s7'[d] = s7[d]
  PROVE  /\ Linking!LocksExclude' /\ LinkOthersLocks(c)
         /\ <<c, what, o, mode>> \in s6' /\ s6 \subseteq s6'
         /\ \A k \in s6' : k \in s6 \/ (k[1] = c /\ k[2] = what /\ k[3] = o)
<1> DEFINE new == <<c, what, o, mode>>
<1>1. Linking!LocksExclude
  BY DEF Linking!Inv
<1>2. s6' = s6 \union {new} /\ new[1] = c /\ new[2] = what /\ new[3] = o /\ new[4] = mode
  BY DEF Linking!Lock
<1>3. new \in Callers \X {"key", "row"} \X (LinkEnds \union LinkRows) \X {"write", "share"}
  OBVIOUS
<1>4. \A k \in s6 : k[2] = what /\ k[3] = o /\ k[1] # c => k[4] = "share" /\ mode = "share"
  BY DEF Linking!Lock, Linking!Free
<1> HIDE DEF new
<1>5. \A k \in s6' : /\ k \in Callers \X {"key", "row"} \X (LinkEnds \union LinkRows) \X {"write", "share"}
                     /\ s7'[k[1]].pc \in Linking!Within /\ ~Linking!Is(k[1], "list")'
  <2> SUFFICES ASSUME NEW k \in s6'
               PROVE  /\ k \in Callers \X {"key", "row"} \X (LinkEnds \union LinkRows) \X {"write", "share"}
                      /\ s7'[k[1]].pc \in Linking!Within /\ ~Linking!Is(k[1], "list")'
    OBVIOUS
  <2>1. CASE k[1] = c
    BY <1>1, <1>2, <1>3, <2>1 DEF Linking!LocksExclude, Linking!Is, Linking!R
  <2>2. CASE k[1] # c
    <3>1. k \in s6 /\ k[1] \in Callers
      BY <1>1, <1>2, <2>2 DEF Linking!LocksExclude
    <3> QED
      BY <1>1, <2>2, <3>1 DEF Linking!LocksExclude, Linking!Is, Linking!R
  <2> QED
    BY <2>1, <2>2
<1>6. \A k, m \in s6' : k[1] # m[1] /\ k[2] = m[2] /\ k[3] = m[3] => k[4] = "share" /\ m[4] = "share"
  BY <1>1, <1>2, <1>4 DEF Linking!LocksExclude
<1>7. Linking!LocksExclude' /\ LinkOthersLocks(c)
  BY <1>2, <1>5, <1>6 DEF Linking!LocksExclude, LinkOthersLocks
<1> QED
  BY <1>2, <1>7 DEF new

(* A call goes on, with a lock more or none: the others rest. *)
LEMMA LinkGoesKeeps ==
  ASSUME Linking!Inv, NEW c \in Callers, UNCHANGED Linking!db, s5' = s5,
         s7' \in [Callers -> LinkCallRecord], \A d \in Callers : d # c => s7'[d] = s7[d],
         Linking!LocksExclude', LinkOthersLocks(c),
         s7'[c].answer # "done" \/ Linking!R(c)'.op \notin {"create", "unlink", "delete"},
         (LinkCallStands(c) /\ LinkCallFound(c))'
  PROVE  Linking!Inv'
<1>1. Linking!Typed'
  BY DEF Linking!Inv, Linking!Typed, LinkCallRecord, Linking!db
<1>2. Linking!EventsOnce' /\ Linking!NoDanglingLink' /\ Linking!ChangedOnce'
  BY LinkRowsRest, LinkOnceRests DEF Linking!db
<1>3. ASSUME NEW d \in Callers, d # c PROVE (LinkCallStands(d) /\ LinkCallFound(d))'
  BY <1>3, LinkRestGrows, LinkStandsRest, LinkFoundRests DEF LinkOthersLocks, Linking!db
<1> QED
  BY <1>1, <1>2, <1>3 DEF Linking!Inv, LinkCallStands, LinkCallFound

(* A call that holds no lock holds none. *)
LEMMA LinkUnlocked ==
  ASSUME Linking!Inv, NEW c \in Callers, s7[c].pc \notin Linking!Within \/ Linking!Is(c, "list")
  PROVE  \A k \in s6 : k[1] # c
  BY DEF Linking!Inv, Linking!LocksExclude, Linking!R, Linking!Is

(* Locks that rest exclude as they did while the calls that hold them go on. *)
LEMMA LinkLocksRest ==
  ASSUME Linking!Inv, NEW c \in Callers, UNCHANGED s6, \A d \in Callers : d # c => s7'[d] = s7[d],
         Linking!R(c)' = Linking!R(c), s7'[c].pc \in Linking!Within \/ \A k \in s6 : k[1] # c
  PROVE  Linking!LocksExclude' /\ LinkOthersLocks(c)
<1>1. Linking!LocksExclude
  BY DEF Linking!Inv
<1>2. ASSUME NEW k \in s6 PROVE s7'[k[1]].pc \in Linking!Within /\ ~Linking!Is(k[1], "list")'
  BY <1>1, <1>2 DEF Linking!LocksExclude, Linking!Is, Linking!R
<1> QED
  BY <1>1, <1>2 DEF Linking!LocksExclude, LinkOthersLocks

(* Admission. *)
LEMMA LinkBeginKeeps ==
  ASSUME Linking!Inv, NEW c \in Callers, NEW r \in (LinkAsks \union ListAsks), Linking!Begin(c, r)
  PROVE  Linking!Inv'
<1> DEFINE wanted == IF r.op = "revise" THEN {LinkClaim, LinkSource}
                     ELSE IF r.op = "create" THEN r.sides
                     ELSE IF r.op = "unlink" THEN {} ELSE {r.on}
           due == IF r.op = "list" /\ wanted \subseteq s5
                  THEN {l \in LinkRows : Linking!Live(l) /\ r.on \in s3[l].sides /\ Linking!Needs(s3[l].sides) \subseteq s5}
                  ELSE {}
           pc == IF ~ wanted \subseteq s5 THEN "answered" ELSE IF r.op = "list" THEN "page" ELSE "key"
           answer == IF wanted \subseteq s5 THEN "none" ELSE "forbidden"
<1>0. /\ UNCHANGED Linking!db /\ s5' = s5 /\ s6' = s6 /\ Linking!At(c, "idle")
      /\ s7' = [s7 EXCEPT ![c].request = r, ![c].granted = s5, ![c].fenced = wanted,
                          ![c].pc = pc, ![c].answer = answer, ![c].due = due]
  BY DEF Linking!Begin
<1>1. /\ r \in Linking!Request /\ r.sides \subseteq LinkEnds
      /\ r.op \in {"create", "unlink"} => r.on \in LinkRows
      /\ r.op = "create" => r.sides # {}
      /\ r.op \in {"delete", "list"} => r.on \in LinkEnds
      /\ r.op = "revise" => r.on = LinkClaim
      /\ LinkClaim \in LinkEnds /\ LinkSource \in LinkEnds
      /\ r.op \in {"create", "unlink", "delete", "revise", "list"}
  BY LinkConstants DEF Linking!LinksAssumption, Linking!Request
<1>2. wanted \subseteq LinkEnds /\ due \subseteq LinkRows
  BY <1>1
<1>3. /\ pc \in {"answered", "page", "key"} /\ answer \in {"none", "forbidden"}
      /\ pc = "page" => r.op = "list"
      /\ pc = "key" => r.op # "list"
      /\ (pc = "answered") = (answer # "none")
      /\ \A l \in due : l \in LinkRows /\ Linking!Live(l) /\ r.on \in s3[l].sides
  OBVIOUS
<1> HIDE DEF wanted, due, pc, answer
<1>4. s7 \in [Callers -> LinkCallRecord] /\ s7[c] \in LinkCallRecord /\ s7[c] = Linking!NoCall /\ s5 \subseteq LinkEnds
  BY <1>0, LinkTypes DEF Linking!Inv, Linking!AskedRight, Linking!Typed
<1>5. [s7[c] EXCEPT !.request = r, !.granted = s5, !.fenced = wanted, !.pc = pc, !.answer = answer, !.due = due]
        \in LinkCallRecord
  BY <1>1, <1>2, <1>3, <1>4 DEF LinkCallRecord, Linking!Pcs, Linking!Answers
<1>6. s7' \in [Callers -> LinkCallRecord] /\ \A d \in Callers : d # c => s7'[d] = s7[d]
  BY <1>0, <1>4, <1>5
<1>7. /\ s7'[c].request = r /\ s7'[c].granted = s5 /\ s7'[c].pc = pc
      /\ s7'[c].answer = answer /\ s7'[c].due = due /\ s7'[c].given = {} /\ s7'[c].after = 0
  BY <1>0, <1>4 DEF LinkCallRecord, Linking!NoCall
<1>8. Linking!R(c)' = r
  BY <1>7 DEF Linking!R
<1>9. \A k \in s6 : k[1] # c
  BY <1>0, LinkUnlocked DEF Linking!At, Linking!Within
<1>10. Linking!LocksExclude' /\ LinkOthersLocks(c)
  <2>1. \A k \in s6 : s7'[k[1]] = s7[k[1]]
    BY <1>6, <1>9 DEF Linking!Inv, Linking!LocksExclude
  <2> QED
    BY <1>0, <2>1 DEF Linking!Inv, Linking!LocksExclude, LinkOthersLocks, Linking!Is, Linking!R
<1>11. Linking!AskedRight(c)' /\ Linking!InPlace(c)' /\ Linking!DoneStands(c)'
  BY <1>0, <1>1, <1>3, <1>7, <1>8, <1>9 DEF Linking!AskedRight, Linking!InPlace, Linking!DoneStands,
    Linking!At, Linking!Is, Linking!Within
<1>12. Linking!ListGoesOn(c)'
  <2>1. s3' = s3 /\ \A l : Linking!Live(l)' <=> Linking!Live(l)
    BY <1>0 DEF Linking!db, Linking!Live
  <2>2. \A l \in due : s3'[l] # Linking!NoLink /\ r.on \in s3'[l].sides /\ l > 0
    BY <1>3, <2>1, LinkRowsApart DEF Linking!Live
  <2>3. Linking!Owed(c)' \subseteq due
    BY <1>7 DEF Linking!Owed
  <2> QED
    BY <1>0, <1>3, <1>7, <1>8, <2>2, <2>3 DEF Linking!ListGoesOn, Linking!At, Linking!Is
<1>13. LinkCallFound(c)'
  BY <1>3, <1>7 DEF LinkCallFound, Linking!FoundByCreate, Linking!FoundByUnlink,
    Linking!FoundByDelete, Linking!Past
<1> QED
  BY <1>0, <1>3, <1>6, <1>7, <1>10, <1>11, <1>12, <1>13, LinkGoesKeeps DEF LinkCallStands

(* What a mutation keeps of its place, whichever step it takes. *)
LEMMA LinkMutationStands ==
  ASSUME Linking!Inv, NEW c \in Callers, ~Linking!At(c, "idle"), ~Linking!Is(c, "list"), Linking!R(c)' = Linking!R(c), s7'[c].pc # "idle",
         s7'[c].answer = "none"
  PROVE  Linking!AskedRight(c)' /\ Linking!DoneStands(c)' /\ Linking!ListGoesOn(c)'
<1>1. Linking!AskedRight(c)
  BY DEF Linking!Inv
<1> QED
  BY <1>1 DEF Linking!AskedRight, Linking!DoneStands, Linking!ListGoesOn, Linking!At, Linking!Is

(* The lock of a key. *)
LEMMA LinkLockKeyKeeps ==
  ASSUME Linking!Inv, NEW c \in Callers, Linking!LockKey(c)
  PROVE  Linking!Inv'
<1>0. /\ UNCHANGED Linking!db /\ s5' = s5 /\ Linking!At(c, "key") /\ Linking!Lock(c, "key", Linking!R(c).on, "write")
      /\ s7' = [s7 EXCEPT ![c].pc = "look"]
  BY DEF Linking!LockKey
<1>1. s7 \in [Callers -> LinkCallRecord] /\ s7[c] \in LinkCallRecord /\ Linking!R(c).on \in LinkEnds \union LinkRows
  BY LinkTypes
<1>2. [s7[c] EXCEPT !.pc = "look"] \in LinkCallRecord
  BY <1>1 DEF LinkCallRecord, Linking!Pcs
<1>3. s7' \in [Callers -> LinkCallRecord] /\ \A d \in Callers : d # c => s7'[d] = s7[d]
  BY <1>0, <1>1, <1>2
<1>4. s7'[c].pc = "look" /\ Linking!R(c)' = Linking!R(c) /\ s7'[c].answer = s7[c].answer
  BY <1>0, <1>1 DEF Linking!R, LinkCallRecord
<1>5. Linking!InPlace(c)
  BY DEF Linking!Inv
<1>6. ~Linking!Is(c, "list") /\ s7[c].answer = "none"
  BY <1>0, <1>5 DEF Linking!InPlace, Linking!At
<1>7. /\ Linking!LocksExclude' /\ LinkOthersLocks(c)
      /\ <<c, "key", Linking!R(c).on, "write">> \in s6' /\ s6 \subseteq s6'
      /\ \A k \in s6' : k \in s6 \/ (k[1] = c /\ k[2] = "key" /\ k[3] = Linking!R(c).on)
  <2>1. s7'[c].pc \in Linking!Within
    BY <1>4 DEF Linking!Within
  <2> HIDE DEF Linking!Within
  <2> QED
    BY <1>0, <1>1, <1>3, <1>4, <1>6, <2>1, LinkLockTakes
<1>8. \A k \in s6 : k[1] # c
  BY <1>0, LinkUnlocked DEF Linking!At, Linking!Within
<1>9. Linking!InPlace(c)'
  BY <1>4, <1>6, <1>7, <1>8 DEF Linking!InPlace, Linking!At, Linking!Is
<1>10. LinkCallFound(c)'
  BY <1>4 DEF LinkCallFound, Linking!FoundByCreate, Linking!FoundByUnlink, Linking!FoundByDelete,
    Linking!Past
<1>11. Linking!AskedRight(c)' /\ Linking!DoneStands(c)' /\ Linking!ListGoesOn(c)'
  BY <1>0, <1>4, <1>6, LinkMutationStands DEF Linking!At
<1> QED
  BY <1>0, <1>3, <1>4, <1>6, <1>7, <1>9, <1>10, <1>11, LinkGoesKeeps DEF LinkCallStands

(* A call finds what it may rely on, and goes on to the rows it will change. *)
LEMMA LinkReliesKeeps ==
  ASSUME Linking!Inv, NEW c \in Callers, NEW ends \in SUBSET LinkEnds, NEW todo \in SUBSET (LinkEnds \union LinkRows),
         Linking!At(c, "look"), UNCHANGED Linking!db, s5' = s5, s6' = s6, Linking!Relies(c, ends, todo),
         Linking!Is(c, "create") /\ todo # {} => s3[Linking!R(c).on] = Linking!NoLink /\ todo = Linking!R(c).sides,
         Linking!Is(c, "unlink") /\ todo # {} => s3[Linking!R(c).on] # Linking!NoLink /\ todo = {Linking!R(c).on},
         Linking!Is(c, "delete") /\ todo # {} => Linking!R(c).on \notin s1 /\ todo = {Linking!R(c).on}
  PROVE  Linking!Inv'
<1> DEFINE pc == IF todo = {} THEN "check" ELSE "lock"
           new == [s7[c] EXCEPT !.fenced = @ \union Linking!Needs(ends), !.todo = todo, !.writes = todo # {}, !.pc = pc]
<1>1. s7 \in [Callers -> LinkCallRecord] /\ s7[c] \in LinkCallRecord
  BY LinkTypes
<1>2. Linking!Needs(ends) \subseteq LinkEnds
  BY DEF Linking!Inv, Linking!Typed, Linking!Needs
<1>3. pc \in {"check", "lock"} /\ (pc = "lock" <=> todo # {})
  OBVIOUS
<1>4. s7' = [s7 EXCEPT ![c] = new]
  BY <1>1 DEF Linking!Relies
<1> HIDE DEF pc
<1>5. /\ new.pc = pc /\ new.todo = todo /\ new.writes = (todo # {}) /\ new.answer = s7[c].answer
      /\ new.request = s7[c].request
  BY <1>1 DEF LinkCallRecord
<1>6. new \in LinkCallRecord
  BY <1>1, <1>2, <1>3 DEF LinkCallRecord, Linking!Pcs
<1> HIDE DEF new
<1>7. /\ s7' \in [Callers -> LinkCallRecord] /\ s7'[c] = new /\ Linking!R(c)' = Linking!R(c)
      /\ \A d \in Callers : d # c => s7'[d] = s7[d]
  BY <1>1, <1>4, <1>5, <1>6 DEF Linking!R
<1>8. Linking!InPlace(c)
  BY DEF Linking!Inv
<1>9. ~Linking!Is(c, "list") /\ s7[c].answer = "none" /\ \A k \in s6 : k[1] = c => k[2] = "key"
  BY <1>8 DEF Linking!InPlace, Linking!At
<1>10. Linking!LocksExclude' /\ LinkOthersLocks(c)
  <2>1. s7'[c].pc \in Linking!Within
    BY <1>3, <1>5, <1>7 DEF Linking!Within
  <2> QED
    BY <1>7, <2>1, LinkLocksRest
<1>11. Linking!InPlace(c)'
  <2>1. <<c, "key", Linking!R(c).on, "write">> \in s6
    BY <1>8, <1>9 DEF Linking!InPlace, Linking!At, Linking!Within
  <2> QED
    BY <1>3, <1>5, <1>7, <1>9, <2>1 DEF Linking!InPlace, Linking!At, Linking!Is
<1>12. Linking!AskedRight(c)' /\ Linking!DoneStands(c)' /\ Linking!ListGoesOn(c)'
  BY <1>3, <1>5, <1>7, <1>9, LinkMutationStands DEF Linking!At
<1>13. LinkCallFound(c)'
  <2>1. s3' = s3 /\ s1' = s1
    BY DEF Linking!db
  <2>2. Linking!FoundByCreate(c)' /\ Linking!FoundByUnlink(c)'
    BY <1>5, <1>7, <2>1 DEF Linking!FoundByCreate, Linking!FoundByUnlink, Linking!Is
  <2>3. Linking!FoundByDelete(c)'
    BY <1>5, <1>7, <2>1 DEF Linking!FoundByDelete, Linking!Is
  <2> QED
    BY <2>2, <2>3 DEF LinkCallFound
<1> QED
  BY <1>5, <1>7, <1>9, <1>10, <1>11, <1>12, <1>13, LinkGoesKeeps DEF LinkCallStands

(* Whatever a call finds, it is answered or relies on it. *)
LEMMA LinkProceedsKeeps ==
  ASSUME Linking!Inv, NEW c \in Callers, NEW ends \in SUBSET LinkEnds, NEW todo \in SUBSET (LinkEnds \union LinkRows),
         Linking!At(c, "look"), UNCHANGED Linking!db, s5' = s5, Linking!Proceeds(c, ends, todo),
         Linking!Is(c, "create") /\ todo # {} => s3[Linking!R(c).on] = Linking!NoLink /\ todo = Linking!R(c).sides,
         Linking!Is(c, "unlink") /\ todo # {} => s3[Linking!R(c).on] # Linking!NoLink /\ todo = {Linking!R(c).on},
         Linking!Is(c, "delete") /\ todo # {} => Linking!R(c).on \notin s1 /\ todo = {Linking!R(c).on}
  PROVE  Linking!Inv'
<1>1. "notFound" \in Linking!Answers \ {"none", "done"} /\ "forbidden" \in Linking!Answers \ {"none", "done"} /\ ~Linking!At(c, "idle")
  BY DEF Linking!Answers, Linking!At
<1>2. CASE Linking!Answer(c, "notFound") \/ Linking!Answer(c, "forbidden")
  BY <1>1, <1>2, LinkAnswerKeeps
<1>3. CASE Linking!Relies(c, ends, todo) /\ UNCHANGED s6
  BY <1>3, LinkReliesKeeps
<1> QED
  BY <1>2, <1>3 DEF Linking!Proceeds

(* The statement that finds what a call names. *)
LEMMA LinkLookKeeps ==
  ASSUME Linking!Inv, NEW c \in Callers, Linking!Look(c)
  PROVE  Linking!Inv'
<1>1. Linking!At(c, "look") /\ UNCHANGED Linking!db /\ s5' = s5 /\ ~Linking!At(c, "idle")
  BY DEF Linking!Look, Linking!At
<1>2. \A a \in {"notFound", "forbidden", "mismatch"} : a \in Linking!Answers \ {"none", "done"}
  BY DEF Linking!Answers
<1>3. s3 \in [LinkRows -> Linking!Rows] /\ Linking!AskedRight(c)
  BY DEF Linking!Inv, Linking!Typed
<1>4. Linking!R(c).sides \subseteq LinkEnds /\ LinkClaim \in LinkEnds /\ LinkSource \in LinkEnds
  BY LinkConstants, LinkTypes DEF Linking!LinksAssumption
<1>5. CASE Linking!Is(c, "create") /\ Linking!LookCreate(c)
  <2>1. Linking!R(c).on \in LinkRows /\ s3[Linking!R(c).on].sides \subseteq LinkEnds
    BY <1>3, <1>5 DEF Linking!AskedRight, Linking!Rows, Linking!Is
  <2>2. \/ Linking!Answer(c, "mismatch") \/ Linking!Answer(c, "forbidden") \/ Linking!Answer(c, "notFound")
        \/ Linking!Proceeds(c, s3[Linking!R(c).on].sides, {})
        \/ s3[Linking!R(c).on] = Linking!NoLink /\ Linking!Proceeds(c, Linking!R(c).sides, Linking!R(c).sides)
    BY <1>5 DEF Linking!LookCreate
  <2>3. CASE Linking!Answer(c, "mismatch") \/ Linking!Answer(c, "forbidden") \/ Linking!Answer(c, "notFound")
    BY <1>1, <1>2, <2>3, LinkAnswerKeeps
  <2>4. CASE Linking!Proceeds(c, s3[Linking!R(c).on].sides, {})
    BY <1>1, <2>1, <2>4, LinkProceedsKeeps
  <2>5. CASE s3[Linking!R(c).on] = Linking!NoLink /\ Linking!Proceeds(c, Linking!R(c).sides, Linking!R(c).sides)
    <3>1. Linking!R(c).sides \in SUBSET LinkEnds /\ Linking!R(c).sides \in SUBSET (LinkEnds \union LinkRows)
      BY <1>4
    <3>2. ~Linking!Is(c, "unlink") /\ ~Linking!Is(c, "delete")
      BY <1>5 DEF Linking!Is
    <3> QED
      BY <1>1, <2>5, <3>1, <3>2, LinkProceedsKeeps
  <2> QED
    BY <2>2, <2>3, <2>4, <2>5
<1>6. CASE Linking!Is(c, "unlink") /\ Linking!LookUnlink(c)
  <2>1. Linking!R(c).on \in LinkRows /\ s3[Linking!R(c).on].sides \subseteq LinkEnds
    BY <1>3, <1>6 DEF Linking!AskedRight, Linking!Rows, Linking!Is
  <2>2. CASE Linking!Answer(c, "notFound")
    BY <1>1, <1>2, <2>2, LinkAnswerKeeps
  <2>3. CASE s3[Linking!R(c).on] # Linking!NoLink /\ Linking!Proceeds(c, s3[Linking!R(c).on].sides, IF s3[Linking!R(c).on].tombstone THEN {} ELSE {Linking!R(c).on})
    <3> DEFINE todo == IF s3[Linking!R(c).on].tombstone THEN {} ELSE {Linking!R(c).on}
    <3>1. todo \in SUBSET (LinkEnds \union LinkRows) /\ (todo # {} => todo = {Linking!R(c).on})
      BY <2>1
    <3>2. ~Linking!Is(c, "create") /\ ~Linking!Is(c, "delete")
      BY <1>6 DEF Linking!Is
    <3>3. Linking!Proceeds(c, s3[Linking!R(c).on].sides, todo)
      BY <2>3
    <3> HIDE DEF todo
    <3> QED
      BY <1>1, <2>1, <2>3, <3>1, <3>2, <3>3, LinkProceedsKeeps
  <2> QED
    BY <1>6, <2>2, <2>3 DEF Linking!LookUnlink
<1>7. CASE Linking!R(c).op \in {"delete", "revise"} /\ Linking!LookEndpoint(c)
  <2>1. Linking!R(c).on \in LinkEnds
    BY <1>3, <1>4, <1>7 DEF Linking!AskedRight, Linking!Is
  <2>2. CASE Linking!Answer(c, "notFound")
    BY <1>1, <1>2, <2>2, LinkAnswerKeeps
  <2>3. CASE Linking!Proceeds(c, {Linking!R(c).on}, IF Linking!Is(c, "revise") THEN {LinkClaim, LinkSource} ELSE {Linking!R(c).on} \ s1)
    <3> DEFINE todo == IF Linking!Is(c, "revise") THEN {LinkClaim, LinkSource} ELSE {Linking!R(c).on} \ s1
    <3>1. todo \in SUBSET (LinkEnds \union LinkRows) /\ {Linking!R(c).on} \in SUBSET LinkEnds
      BY <1>4, <2>1
    <3>2. Linking!Is(c, "delete") /\ todo # {} => Linking!R(c).on \notin s1 /\ todo = {Linking!R(c).on}
      BY DEF Linking!Is
    <3>3. ~Linking!Is(c, "create") /\ ~Linking!Is(c, "unlink")
      BY <1>7 DEF Linking!Is
    <3>4. Linking!Proceeds(c, {Linking!R(c).on}, todo)
      BY <2>3
    <3> HIDE DEF todo
    <3> QED
      BY <1>1, <3>1, <3>2, <3>3, <3>4, LinkProceedsKeeps
  <2> QED
    BY <1>7, <2>2, <2>3 DEF Linking!LookEndpoint
<1> QED
  BY <1>5, <1>6, <1>7 DEF Linking!Look

(* The least of a set of naturals. *)
LEMMA Least ==
  ASSUME NEW T \in SUBSET Nat, T # {}
  PROVE  Linking!Min(T) \in T /\ \A q \in T : Linking!Min(T) <= q
<1> DEFINE Below == {p \in Nat \X Nat : p[1] < p[2]}
<1>1. IsWellFoundedOn(Below, Nat)
  BY NatLessThanWellFounded DEF OpToRel
<1>2. PICK s \in T : \A q \in T : <<q, s>> \notin Below
  <2> HIDE DEF Below
  <2> QED BY <1>1, WFMin
<1>3. \A q \in T : s <= q
  <2> SUFFICES ASSUME NEW q \in T PROVE s <= q
    OBVIOUS
  <2>1. <<q, s>> \in Nat \X Nat /\ <<q, s>>[1] = q /\ <<q, s>>[2] = s
    OBVIOUS
  <2> QED
    BY <1>2, <2>1
<1> QED
  BY <1>3 DEF Linking!Min

(* The greatest of a finite one: the one the fewest are past. *)
LEMMA Greatest ==
  ASSUME NEW T \in SUBSET Nat, T # {}, IsFiniteSet(T)
  PROVE  Linking!Max(T) \in T /\ \A q \in T : q <= Linking!Max(T)
<1> DEFINE past(x) == {y \in T : y > x}
           sizes == {Cardinality(past(x)) : x \in T}
<1>1. \A x \in T : IsFiniteSet(past(x)) /\ Cardinality(past(x)) \in Nat
  BY FS_Subset, FS_CardinalityType
<1>2. PICK n \in sizes : \A m \in sizes : n <= m
  <2>1. sizes \in SUBSET Nat /\ sizes # {}
    BY <1>1
  <2> HIDE DEF sizes
  <2> QED
    BY <2>1, Least
<1>3. PICK x \in T : n = Cardinality(past(x))
  OBVIOUS
<1> HIDE DEF sizes
<1>4. ASSUME NEW y \in T, y > x PROVE FALSE
  <2>1. past(y) \subseteq past(x) /\ y \in past(x) /\ y \notin past(y)
    <3>1. \A z \in T : z \in Int
      OBVIOUS
    <3>2. \A z \in T : z > y => z > x
      BY <1>4, <3>1
    <3>3. ~(y > y)
      BY <3>1
    <3> QED
      BY <1>4, <3>2, <3>3
  <2>2. Cardinality(past(y)) \in sizes
    BY DEF sizes
  <2> HIDE DEF past
  <2>3. Cardinality(past(y)) <= Cardinality(past(x)) /\ Cardinality(past(y)) # Cardinality(past(x))
    BY <1>1, <2>1, FS_Subset
  <2> QED
    BY <1>1, <1>2, <1>3, <2>2, <2>3
<1> HIDE DEF past, sizes
<1>5. \A q \in T : q <= x
  BY <1>4
<1> QED
  BY <1>5 DEF Linking!Max

(* The row a call waits for, and what its holder finds, by the kind of the call. *)
LEMMA LinkNextRow ==
  ASSUME Linking!Inv, NEW c \in Callers, Linking!At(c, "lock")
  PROVE  /\ Linking!Next1(c) \in s7[c].todo /\ Linking!Next1(c) \in LinkEnds \union LinkRows
         /\ \A o \in s7[c].todo \ {Linking!Next1(c)} : Linking!Next1(c) < o
         /\ s7[c].writes /\ ~Linking!Is(c, "list")
<1>1. s7[c].todo \subseteq LinkEnds \union LinkRows /\ s7[c].todo # {} /\ s7[c].writes /\ ~Linking!Is(c, "list")
  BY LinkTypes DEF Linking!Inv, Linking!InPlace, Linking!At
<1>2. s7[c].todo \in SUBSET Nat
  BY <1>1, LinkRowsApart
<1>3. Linking!Next1(c) \in s7[c].todo /\ \A q \in s7[c].todo : Linking!Next1(c) <= q
  BY <1>1, <1>2, Least DEF Linking!Next1
<1> QED
  BY <1>1, <1>2, <1>3

(* The lock of a row: what is read under it holds until the transaction ends. *)
LEMMA LinkLockRowTakes ==
  ASSUME Linking!Inv, NEW c \in Callers, Linking!LockRow(c), Linking!Finds(c, Linking!Next1(c)) \notin {"restricted", "notFound"}
  PROVE  Linking!Inv'
<1>o. PICK o : o = Linking!Next1(c)
  OBVIOUS
<1>m. PICK mode : mode = Linking!Mode(c, o)
  OBVIOUS
<1>l. PICK left : left = (s7[c].todo \ {o})
                           \union (IF Linking!Is(c, "delete") /\ o \in LinkEnds THEN Linking!Incident(o) ELSE {})
  OBVIOUS
<1>w. PICK writes : writes = (Linking!Finds(c, o) = "go")
  OBVIOUS
<1> DEFINE pc == IF left = {} THEN "check" ELSE "lock"
<1>0. /\ Linking!At(c, "lock") /\ UNCHANGED Linking!db /\ s5' = s5
      /\ Linking!Finds(c, o) \in {"go", "gone"} /\ Linking!Lock(c, "row", o, mode)
      /\ s7' = [s7 EXCEPT ![c].todo = left, ![c].writes = writes, ![c].pc = pc]
  BY <1>o, <1>m, <1>l, <1>w DEF Linking!LockRow
<1>1. s7 \in [Callers -> LinkCallRecord] /\ s7[c] \in LinkCallRecord /\ LinkCallFound(c) /\ Linking!InPlace(c)
  BY LinkTypes DEF Linking!Inv, LinkCallFound
<1>2. /\ o \in s7[c].todo /\ o \in LinkEnds \union LinkRows
      /\ \A q \in s7[c].todo \ {o} : o < q
      /\ s7[c].writes /\ ~Linking!Is(c, "list")
  BY <1>0, <1>o, LinkNextRow
<1>3. left \subseteq LinkEnds \union LinkRows
  BY <1>1, <1>l DEF LinkCallRecord, Linking!Incident
<1>4. pc \in {"check", "lock"} /\ (pc = "lock" <=> left # {}) /\ writes \in BOOLEAN
  BY <1>w
<1>5. writes <=> Linking!Finds(c, o) = "go"
  BY <1>w
<1>6. s7' = [s7 EXCEPT ![c].todo = left, ![c].writes = writes, ![c].pc = pc]
  BY <1>0
<1>7. /\ left = (s7[c].todo \ {o}) \union (IF Linking!Is(c, "delete") /\ o \in LinkEnds THEN Linking!Incident(o) ELSE {})
      /\ Linking!Finds(c, o) \in {"go", "gone"} /\ Linking!Lock(c, "row", o, mode)
  BY <1>0, <1>l
<1> HIDE DEF pc
<1>8. [s7[c] EXCEPT !.todo = left, !.writes = writes, !.pc = pc] \in LinkCallRecord
  BY <1>1, <1>3, <1>4 DEF LinkCallRecord, Linking!Pcs
<1>9. /\ s7' \in [Callers -> LinkCallRecord] /\ \A d \in Callers : d # c => s7'[d] = s7[d]
  BY <1>1, <1>6, <1>8
<1>10. /\ s7'[c].todo = left /\ s7'[c].writes = writes /\ s7'[c].pc = pc
       /\ s7'[c].answer = s7[c].answer /\ Linking!R(c)' = Linking!R(c)
  BY <1>1, <1>6 DEF LinkCallRecord, Linking!R
<1>11. s7[c].answer = "none" /\ <<c, "key", Linking!R(c).on, "write">> \in s6
  BY <1>0, <1>1, <1>2 DEF Linking!InPlace, Linking!At, Linking!Within
<1>12. /\ Linking!LocksExclude' /\ LinkOthersLocks(c)
       /\ <<c, "row", o, mode>> \in s6' /\ s6 \subseteq s6'
       /\ \A k \in s6' : k \in s6 \/ (k[1] = c /\ k[2] = "row" /\ k[3] = o)
  <2>1. s7'[c].pc \in Linking!Within
    BY <1>4, <1>10 DEF Linking!Within
  <2>2. mode \in {"write", "share"}
    BY <1>m DEF Linking!Mode
  <2>3. Linking!Lock(c, "row", o, mode)
    BY <1>7
  <2>4. ~Linking!Is(c, "list") /\ Linking!R(c)' = Linking!R(c) /\ o \in LinkEnds \union LinkRows
    BY <1>2, <1>10
  <2>5. "row" \in {"key", "row"} /\ \A d \in Callers : d # c => s7'[d] = s7[d]
    BY <1>9
  <2> HIDE DEF Linking!Within
  <2>6. Linking!LocksExclude'
    BY <2>1, <2>2, <2>3, <2>4, <2>5, LinkLockTakes
  <2>7. s6' = s6 \union {<<c, "row", o, mode>>}
    BY <2>3 DEF Linking!Lock
  <2> QED
    BY <2>6, <2>7 DEF LinkOthersLocks
<1>13. Linking!Incident(o) \subseteq LinkRows /\ \A e \in LinkEnds, l \in LinkRows : e < l
  BY LinkRowsApart DEF Linking!Incident
<1>14. \A k \in s6' : k[1] = c /\ k[2] = "row" => \A q \in left : k[3] < q
  <2> SUFFICES ASSUME NEW k \in s6', k[1] = c, k[2] = "row", NEW q \in left PROVE k[3] < q
    OBVIOUS
  <2>1. CASE q \in s7[c].todo \ {o}
    <3>1. k[3] = o \/ k[3] < q
      BY <1>1, <1>12, <2>1 DEF Linking!InPlace
    <3> QED
      BY <1>2, <2>1, <3>1
  <2>2. CASE q \notin s7[c].todo \ {o}
    <3>1. o \in LinkEnds /\ q \in LinkRows
      BY <1>7, <1>13, <2>2
    <3>2. k[3] = o \/ (k \in s6 /\ k[3] < o)
      BY <1>1, <1>2, <1>12 DEF Linking!InPlace
    <3>3. CASE k[3] = o
      BY <1>13, <3>1, <3>3
    <3>4. CASE k \in s6 /\ k[3] < o
      <4>1. k[3] \in LinkEnds \union LinkRows
        BY <3>4 DEF Linking!Inv, Linking!LocksExclude
      <4>2. k[3] \in Int /\ o \in Int /\ q \in Int /\ o < q
        BY <3>1, <4>1, LinkRowsApart
      <4> QED
        BY <3>4, <4>2
    <3> QED
      BY <3>2, <3>3, <3>4
  <2> QED
    BY <2>1, <2>2
<1>15. ~writes => Linking!Is(c, "unlink") /\ left = {}
  <2>1. ASSUME ~writes PROVE Linking!Is(c, "unlink") /\ o \in LinkRows
    BY <1>5, <1>7, <2>1 DEF Linking!Finds
  <2>2. ASSUME Linking!Is(c, "unlink") PROVE left = {}
    BY <1>0, <1>1, <1>2, <1>7, <2>2 DEF LinkCallFound, Linking!FoundByUnlink, Linking!Is,
      Linking!At, Linking!Past
  <2> QED
    BY <2>1, <2>2
<1>16. Linking!InPlace(c)'
  BY <1>2, <1>4, <1>10, <1>11, <1>12, <1>14, <1>15 DEF Linking!InPlace, Linking!At, Linking!Is
<1>17. Linking!AskedRight(c)' /\ Linking!DoneStands(c)' /\ Linking!ListGoesOn(c)'
  BY <1>0, <1>2, <1>4, <1>10, <1>11, LinkMutationStands DEF Linking!At
<1>18. \A q : Linking!Owns(c, q) => Linking!Owns(c, q)'
  BY <1>12 DEF Linking!Owns
<1>19. ~Linking!Is(c, "revise") => Linking!Owns(c, o)'
  BY <1>12, <1>m DEF Linking!Owns, Linking!Mode
<1>20. (\A l : Linking!Live(l)' <=> Linking!Live(l)) /\ s1' = s1 /\ s3' = s3
  BY <1>0 DEF Linking!db, Linking!Live
<1>21. \A e : Linking!Incident(e)' = Linking!Incident(e) /\ (Linking!Restricted(e)' <=> Linking!Restricted(e))
  BY <1>20 DEF Linking!Incident, Linking!Restricted
<1>22. "lock" \in Linking!Past
  BY DEF Linking!Past
<1>23. Linking!FoundByCreate(c)'
  <2> SUFFICES ASSUME Linking!Is(c, "create"), writes PROVE Linking!FoundByCreate(c)'
    BY <1>10 DEF Linking!FoundByCreate, Linking!Is
  <2>1. /\ s3[Linking!R(c).on] = Linking!NoLink /\ s7[c].todo \subseteq Linking!R(c).sides
        /\ \A e \in Linking!R(c).sides \ s7[c].todo : Linking!Owns(c, e) /\ e \notin s1
    BY <1>0, <1>1, <1>2, <1>22 DEF LinkCallFound, Linking!FoundByCreate, Linking!At
  <2>2. left = s7[c].todo \ {o} /\ Linking!Owns(c, o)' /\ o \in LinkEnds
    BY <1>2, <1>7, <1>19, <2>1, LinkTypes DEF Linking!Is
  <2>3. o \notin s1
    BY <1>5, <2>2, LinkRowsApart DEF Linking!Finds, Linking!Is
  <2>4. \A e \in Linking!R(c).sides \ left : Linking!Owns(c, e)' /\ e \notin s1
    BY <1>18, <2>1, <2>2, <2>3
  <2> QED
    BY <1>10, <1>20, <2>1, <2>2, <2>4 DEF Linking!FoundByCreate
<1>24. Linking!FoundByUnlink(c)'
  <2> SUFFICES ASSUME Linking!Is(c, "unlink"), writes PROVE Linking!FoundByUnlink(c)'
    BY <1>10 DEF Linking!FoundByUnlink, Linking!Is
  <2>1. s3[Linking!R(c).on] # Linking!NoLink /\ s7[c].todo \subseteq {Linking!R(c).on}
    BY <1>0, <1>1, <1>2, <1>22 DEF LinkCallFound, Linking!FoundByUnlink, Linking!At
  <2>2. o = Linking!R(c).on /\ left = {} /\ Linking!Owns(c, o)' /\ o \in LinkRows
    BY <1>2, <1>7, <1>19, <2>1 DEF Linking!Inv, Linking!AskedRight, Linking!Is
  <2>3. Linking!Live(o)
    BY <1>5, <2>2 DEF Linking!Finds
  <2> QED
    BY <1>10, <1>20, <2>1, <2>2, <2>3 DEF Linking!FoundByUnlink
<1>25. Linking!FoundByDelete(c)'
  <2> SUFFICES ASSUME Linking!Is(c, "delete"), writes PROVE Linking!FoundByDelete(c)'
    BY <1>10 DEF Linking!FoundByDelete, Linking!Is
  <2>1. /\ Linking!R(c).on \notin s1
        /\ Linking!R(c).on \in s7[c].todo => s7[c].todo = {Linking!R(c).on}
        /\ Linking!R(c).on \notin s7[c].todo =>
                     /\ Linking!Owns(c, Linking!R(c).on) /\ ~Linking!Restricted(Linking!R(c).on) /\ s7[c].todo \subseteq LinkRows
                     /\ \A l \in Linking!Incident(Linking!R(c).on) : l \in s7[c].todo \/ Linking!Owns(c, l)
    BY <1>0, <1>1, <1>2, <1>22 DEF LinkCallFound, Linking!FoundByDelete, Linking!At
  <2>2. Linking!R(c).on \in LinkEnds /\ Linking!Owns(c, o)'
    BY <1>19 DEF Linking!Inv, Linking!AskedRight, Linking!Is
  <2>3. CASE Linking!R(c).on \in s7[c].todo
    <3>1. o = Linking!R(c).on /\ left = Linking!Incident(o)
      BY <1>2, <1>7, <2>1, <2>2, <2>3
    <3>2. ~Linking!Restricted(o) /\ o \notin left /\ left \subseteq LinkRows
      BY <1>5, <1>13, <2>2, <3>1, LinkRowsApart DEF Linking!Finds
    <3> QED
      BY <1>10, <1>20, <1>21, <2>1, <2>2, <3>1, <3>2 DEF Linking!FoundByDelete
  <2>4. CASE Linking!R(c).on \notin s7[c].todo
    <3>1. o \in LinkRows /\ left = s7[c].todo \ {o}
      BY <1>2, <1>7, <2>1, <2>4, LinkRowsApart
    <3> QED
      BY <1>10, <1>18, <1>20, <1>21, <2>1, <2>2, <2>4, <3>1 DEF Linking!FoundByDelete
  <2> QED
    BY <2>3, <2>4
<1> QED
  BY <1>0, <1>9, <1>10, <1>11, <1>12, <1>16, <1>17, <1>23, <1>24, <1>25, LinkGoesKeeps DEF
    LinkCallStands, LinkCallFound

(* A call that takes a row takes it free of other calls, in its order. *)
LEMMA LinkLockRowKeeps ==
  ASSUME Linking!Inv, NEW c \in Callers, Linking!LockRow(c)
  PROVE  Linking!Inv'
<1>1. Linking!At(c, "lock") /\ UNCHANGED Linking!db /\ s5' = s5 /\ ~Linking!At(c, "idle")
  BY DEF Linking!LockRow, Linking!At
<1>2. CASE Linking!Finds(c, Linking!Next1(c)) \in {"restricted", "notFound"} /\ Linking!Answer(c, Linking!Finds(c, Linking!Next1(c)))
  <2>1. Linking!Finds(c, Linking!Next1(c)) \in Linking!Answers \ {"none", "done"}
    BY <1>2 DEF Linking!Answers
  <2> QED
    BY <1>1, <1>2, <2>1, LinkAnswerKeeps
<1>3. CASE ~(Linking!Finds(c, Linking!Next1(c)) \in {"restricted", "notFound"} /\ Linking!Answer(c, Linking!Finds(c, Linking!Next1(c))))
  BY <1>1, <1>3, LinkLockRowTakes DEF Linking!LockRow
<1> QED
  BY <1>2, <1>3

(* The grants a transaction relied on are asked for once more. *)
LEMMA LinkCheckKeeps ==
  ASSUME Linking!Inv, NEW c \in Callers, Linking!Check(c)
  PROVE  Linking!Inv'
<1>0. Linking!At(c, "check") /\ UNCHANGED Linking!db /\ s5' = s5 /\ ~Linking!At(c, "idle")
  BY DEF Linking!Check, Linking!At
<1>1. CASE Linking!Answer(c, "forbidden")
  <2>1. "forbidden" \in Linking!Answers \ {"none", "done"}
    BY DEF Linking!Answers
  <2> QED
    BY <1>0, <1>1, <2>1, LinkAnswerKeeps
<1>2. CASE s7' = [s7 EXCEPT ![c].pc = "commit"] /\ UNCHANGED s6
  <2>1. s7 \in [Callers -> LinkCallRecord] /\ s7[c] \in LinkCallRecord
    BY LinkTypes
  <2>2. [s7[c] EXCEPT !.pc = "commit"] \in LinkCallRecord
    BY <2>1 DEF LinkCallRecord, Linking!Pcs
  <2>3. s7' \in [Callers -> LinkCallRecord] /\ \A d \in Callers : d # c => s7'[d] = s7[d]
    BY <1>2, <2>1, <2>2
  <2>4. /\ s7'[c].pc = "commit" /\ Linking!R(c)' = Linking!R(c) /\ s7'[c].answer = s7[c].answer
        /\ s7'[c].todo = s7[c].todo /\ s7'[c].writes = s7[c].writes
        /\ s7'[c].due = s7[c].due /\ s7'[c].given = s7[c].given /\ s7'[c].page = s7[c].page
    BY <1>2, <2>1 DEF LinkCallRecord, Linking!R
  <2>5. LinkCallStands(c) /\ LinkCallFound(c) /\ s7[c].answer = "none"
    BY <1>0 DEF Linking!Inv, LinkCallStands, LinkCallFound, Linking!InPlace, Linking!At
  <2>6. Linking!LocksExclude' /\ LinkOthersLocks(c)
    <3>1. s7'[c].pc \in Linking!Within
      BY <2>4 DEF Linking!Within
    <3> QED
      BY <1>2, <2>3, <2>4, <3>1, LinkLocksRest
  <2>7. (\A l : Linking!Live(l)' <=> Linking!Live(l)) /\ s1' = s1 /\ s3' = s3 /\ s2' = s2
    BY <1>0 DEF Linking!db, Linking!Live
  <2>8. Linking!InPlace(c)'
    BY <1>0, <1>2, <2>4, <2>5 DEF LinkCallStands, Linking!InPlace, Linking!At, Linking!Is,
      Linking!Within
  <2>9. Linking!AskedRight(c)' /\ Linking!DoneStands(c)'
    BY <1>0, <2>4, <2>5 DEF LinkCallStands, Linking!AskedRight, Linking!DoneStands, Linking!At,
      Linking!Is
  <2>10. Linking!ListGoesOn(c)'
    <3>1. Linking!Owed(c)' = Linking!Owed(c)
      BY <1>0, <2>4, <2>7 DEF Linking!Owed, Linking!Needs
    <3> QED
      BY <1>0, <2>4, <2>5, <2>7, <3>1 DEF LinkCallStands, Linking!ListGoesOn, Linking!At, Linking!Is
  <2>11. LinkCallFound(c)'
    <3>1. \A e : Linking!Incident(e)' = Linking!Incident(e) /\ (Linking!Restricted(e)' <=> Linking!Restricted(e))
      BY <2>7 DEF Linking!Incident, Linking!Restricted
    <3>2. \A q : Linking!Owns(c, q)' <=> Linking!Owns(c, q)
      BY <1>2 DEF Linking!Owns
    <3>3. "check" \in Linking!Past /\ s7[c].pc = "check"
      BY <1>0 DEF Linking!Past, Linking!At
    <3>4. Linking!FoundByCreate(c)' /\ Linking!FoundByUnlink(c)'
      BY <2>4, <2>5, <2>7, <3>2, <3>3 DEF LinkCallFound, Linking!FoundByCreate,
        Linking!FoundByUnlink, Linking!Is
    <3>5. Linking!FoundByDelete(c)'
      BY <2>4, <2>5, <2>7, <3>1, <3>2, <3>3 DEF LinkCallFound, Linking!FoundByDelete, Linking!Is
    <3> QED
      BY <3>4, <3>5 DEF LinkCallFound
  <2> QED
    BY <1>0, <2>3, <2>4, <2>5, <2>6, <2>8, <2>9, <2>10, <2>11, LinkGoesKeeps DEF LinkCallStands
<1> QED
  BY <1>1, <1>2 DEF Linking!Check

(* A wait past its limit answers the caller and lets go of its locks. *)
LEMMA LinkTimeOutKeeps ==
  ASSUME Linking!Inv, NEW c \in Callers, Linking!TimeOut(c)
  PROVE  Linking!Inv'
<1>1. "backpressure" \in Linking!Answers \ {"none", "done"} /\ ~Linking!At(c, "idle") /\ UNCHANGED Linking!db /\ s5' = s5
  BY DEF Linking!Answers, Linking!TimeOut, Linking!Waits, Linking!At
<1> QED
  BY <1>1, LinkAnswerKeeps DEF Linking!TimeOut

(* Grants expire under every call. *)
LEMMA LinkLapseKeeps ==
  ASSUME Linking!Inv, NEW e \in LinkEnds, Linking!Lapse(e)
  PROVE  Linking!Inv'
<1>1. UNCHANGED Linking!db /\ s6' = s6 /\ s7' = s7 /\ s5' \subseteq s5
  BY DEF Linking!Lapse
<1>2. Linking!Typed' /\ Linking!LocksExclude'
  BY <1>1 DEF Linking!Inv, Linking!Typed, Linking!LocksExclude, Linking!db, Linking!Is, Linking!R
<1>3. Linking!EventsOnce' /\ Linking!NoDanglingLink'
  BY <1>1, LinkRowsRest DEF Linking!db
<1>4. Linking!ChangedOnce'
  BY <1>1 DEF Linking!Inv, Linking!ChangedOnce, Linking!R
<1>5. ASSUME NEW d \in Callers PROVE (LinkCallStands(d) /\ LinkCallFound(d))'
  BY <1>1, LinkRestGrows, LinkStandsRest, LinkFoundRests DEF Linking!db
<1> QED
  BY <1>2, <1>3, <1>4, <1>5 DEF Linking!Inv, LinkCallStands, LinkCallFound

(* A key is held by one call, and so is a row that will be written. *)
LEMMA LinkAlone ==
  ASSUME Linking!Inv, NEW c \in Callers, NEW d \in Callers, d # c
  PROVE  /\ s7[c].pc \in Linking!Within /\ s7[d].pc \in Linking!Within /\ ~Linking!Is(c, "list") /\ ~Linking!Is(d, "list") => Linking!R(c).on # Linking!R(d).on
         /\ \A o : ~(Linking!Owns(c, o) /\ Linking!Owns(d, o))
<1>1. \A k, m \in s6 : k[1] # m[1] /\ k[2] = m[2] /\ k[3] = m[3] => k[4] = "share" /\ m[4] = "share"
  BY DEF Linking!Inv, Linking!LocksExclude
<1>2. Linking!InPlace(c) /\ Linking!InPlace(d)
  BY DEF Linking!Inv
<1>3. ASSUME NEW what, NEW o, <<c, what, o, "write">> \in s6, <<d, what, o, "write">> \in s6 PROVE FALSE
  <2> DEFINE k == <<c, what, o, "write">>
             m == <<d, what, o, "write">>
  <2>1. /\ k[1] = c /\ k[2] = what /\ k[3] = o /\ k[4] = "write"
        /\ m[1] = d /\ m[2] = what /\ m[3] = o
    OBVIOUS
  <2>2. k \in s6 /\ m \in s6
    BY <1>3
  <2> HIDE DEF k, m
  <2> QED
    BY <1>1, <2>1, <2>2
<1> QED
  BY <1>2, <1>3 DEF Linking!InPlace, Linking!Owns

(* What is left to show of a transaction that writes. *)
LEMMA LinkWriteKeeps ==
  ASSUME Linking!Inv, NEW c \in Callers, NEW a \in {"done", "unknown"}, Linking!At(c, "commit"), ~Linking!Is(c, "list"),
         s5' = s5, Linking!Answer(c, a), LinkGrows,
         s1' \subseteq LinkEnds, s2' \subseteq LinkEnds, s3' \in [LinkRows -> Linking!Rows],
         s4' \subseteq Linking!Event, Linking!EventsOnce', Linking!NoDanglingLink',
         \A d \in Callers : d # c => LinkCallFound(d)',
         Linking!Is(c, "create") => s3'[Linking!R(c).on] # Linking!NoLink,
         Linking!Is(c, "unlink") => s3'[Linking!R(c).on].tombstone,
         Linking!Is(c, "delete") => Linking!R(c).on \in s1',
         \A d \in Callers : /\ d # c /\ s7[d].answer = "done" /\ Linking!R(d).op = Linking!R(c).op /\ Linking!R(d).on = Linking!R(c).on
                            => Linking!R(c).op \notin {"create", "unlink", "delete"}
  PROVE  Linking!Inv'
<1>1. ~Linking!At(c, "idle") /\ a \in Linking!Answers \ {"none"}
  BY DEF Linking!At, Linking!Answers
<1>2. /\ s7' \in [Callers -> LinkCallRecord]
      /\ s7'[c].pc = "answered" /\ s7'[c].answer = a /\ Linking!R(c)' = Linking!R(c)
      /\ \A d \in Callers : d # c => s7'[d] = s7[d]
      /\ Linking!LocksExclude' /\ LinkOthersLocks(c)
      /\ (Linking!AskedRight(c) /\ Linking!InPlace(c) /\ LinkCallFound(c))'
  BY <1>1, LinkEndFrame
<1>3. Linking!Typed'
  BY <1>2 DEF Linking!Inv, Linking!Typed, LinkCallRecord
<1>4. Linking!ChangedOnce'
  <2> SUFFICES ASSUME NEW d \in Callers, NEW e \in Callers, d # e, (s7[d].answer = "done")', (s7[e].answer = "done")',
                      Linking!R(d)'.op \in {"create", "unlink", "delete"}, Linking!R(d)'.op = Linking!R(e)'.op, Linking!R(d)'.on = Linking!R(e)'.on
               PROVE  FALSE
    BY DEF Linking!ChangedOnce
  <2>1. \A f \in Callers : f # c => s7'[f] = s7[f] /\ Linking!R(f)' = Linking!R(f)
    BY <1>2 DEF Linking!R
  <2>2. CASE d = c
    BY <1>2, <2>1, <2>2
  <2>3. CASE e = c
    BY <1>2, <2>1, <2>3
  <2>4. CASE d # c /\ e # c
    BY <2>1, <2>4 DEF Linking!Inv, Linking!ChangedOnce
  <2> QED
    BY <2>2, <2>3, <2>4
<1>5. ASSUME NEW d \in Callers, d # c PROVE LinkCallStands(d)'
  BY <1>2, <1>5, LinkStandsRest DEF LinkOthersLocks
<1>6. Linking!DoneStands(c)' /\ Linking!ListGoesOn(c)'
  BY <1>2 DEF Linking!DoneStands, Linking!ListGoesOn, Linking!Is
<1> QED
  BY <1>2, <1>3, <1>4, <1>5, <1>6 DEF Linking!Inv, LinkCallStands, LinkCallFound

(* What another call has found, told of the rows it has it from. *)
LEMMA LinkFoundStays ==
  ASSUME Linking!Inv, NEW c \in Callers, NEW a \in {"done", "unknown"}, Linking!At(c, "commit"), Linking!Answer(c, a), NEW d \in Callers, d # c,
         s3' \in [LinkRows -> Linking!Rows], ~Linking!Is(c, "list"),
         \A l \in LinkRows : l = Linking!R(d).on /\ l # Linking!R(c).on /\ ~Linking!Owns(c, l) => s3'[l] = s3[l],
         \A l \in LinkRows : l # Linking!R(c).on /\ s3[l] = Linking!NoLink => s3'[l] = Linking!NoLink,
         \A l \in LinkRows : s3[l] # Linking!NoLink => s3'[l] # Linking!NoLink,
         \A e \in LinkEnds : Linking!Owns(d, e) \/ e # Linking!R(c).on => (e \in s1' => e \in s1),
         \A e \in LinkEnds : Linking!Owns(d, e) => \A l \in Linking!Incident(e)' : l \in Linking!Incident(e) /\ s3'[l] = s3[l]
  PROVE  LinkCallFound(d)'
<1>1. ~Linking!At(c, "idle") /\ a \in Linking!Answers \ {"none"} /\ s7[c].pc \in Linking!Within
  BY DEF Linking!At, Linking!Answers, Linking!Within
<1>2. s7'[d] = s7[d] /\ Linking!R(d)' = Linking!R(d) /\ \A o : Linking!Owns(d, o) => Linking!Owns(d, o)'
  BY <1>1, LinkEndFrame DEF Linking!R, Linking!Owns, LinkOthersLocks
<1>3. LinkCallFound(d) /\ Linking!AskedRight(d)
  BY DEF Linking!Inv, LinkCallFound
<1>4. /\ s7[d].pc \in Linking!Past /\ ~Linking!Is(d, "list") => Linking!R(d).on # Linking!R(c).on
      /\ \A o : Linking!Owns(d, o) => ~Linking!Owns(c, o)
  BY <1>1, LinkAlone DEF Linking!Past, Linking!Within
<1>5. Linking!R(d).op \in {"create", "unlink", "delete", "revise", "list"} /\ Linking!R(d).sides \subseteq LinkEnds
  BY LinkTypes
<1>6. Linking!FoundByCreate(d)'
  <2> SUFFICES ASSUME Linking!Is(d, "create"), s7[d].pc \in Linking!Past, s7[d].writes PROVE Linking!FoundByCreate(d)'
    BY <1>2 DEF Linking!FoundByCreate, Linking!Is
  <2>1. /\ s3[Linking!R(d).on] = Linking!NoLink /\ s7[d].todo \subseteq Linking!R(d).sides
        /\ \A e \in Linking!R(d).sides \ s7[d].todo : Linking!Owns(d, e) /\ e \notin s1
    BY <1>3 DEF LinkCallFound, Linking!FoundByCreate
  <2>2. Linking!R(d).on \in LinkRows /\ Linking!R(d).on # Linking!R(c).on
    BY <1>3, <1>4 DEF Linking!AskedRight, Linking!Is
  <2> QED
    BY <1>2, <1>5, <2>1, <2>2 DEF Linking!FoundByCreate
<1>7. Linking!FoundByUnlink(d)'
  <2> SUFFICES ASSUME Linking!Is(d, "unlink"), s7[d].pc \in Linking!Past, s7[d].writes PROVE Linking!FoundByUnlink(d)'
    BY <1>2 DEF Linking!FoundByUnlink, Linking!Is
  <2>1. /\ s3[Linking!R(d).on] # Linking!NoLink /\ s7[d].todo \subseteq {Linking!R(d).on}
        /\ s7[d].todo = {} => Linking!Owns(d, Linking!R(d).on) /\ Linking!Live(Linking!R(d).on)
    BY <1>3 DEF LinkCallFound, Linking!FoundByUnlink
  <2>2. Linking!R(d).on \in LinkRows /\ Linking!R(d).on # Linking!R(c).on
    BY <1>3, <1>4 DEF Linking!AskedRight, Linking!Is
  <2>3. s7[d].todo = {} => Linking!Live(Linking!R(d).on)'
    BY <1>2, <1>4, <2>1, <2>2 DEF Linking!Live
  <2> QED
    BY <1>2, <2>1, <2>2, <2>3 DEF Linking!FoundByUnlink
<1>8. Linking!FoundByDelete(d)'
  <2> SUFFICES ASSUME Linking!Is(d, "delete"), s7[d].pc \in Linking!Past, s7[d].writes PROVE Linking!FoundByDelete(d)'
    BY <1>2 DEF Linking!FoundByDelete, Linking!Is
  <2>1. /\ Linking!R(d).on \notin s1
        /\ Linking!R(d).on \in s7[d].todo => s7[d].todo = {Linking!R(d).on}
        /\ Linking!R(d).on \notin s7[d].todo =>
                     /\ Linking!Owns(d, Linking!R(d).on) /\ ~Linking!Restricted(Linking!R(d).on) /\ s7[d].todo \subseteq LinkRows
                     /\ \A l \in Linking!Incident(Linking!R(d).on) : l \in s7[d].todo \/ Linking!Owns(d, l)
    BY <1>3 DEF LinkCallFound, Linking!FoundByDelete
  <2>2. Linking!R(d).on \in LinkEnds /\ Linking!R(d).on # Linking!R(c).on /\ Linking!R(d).on \notin s1'
    BY <1>3, <1>4, <2>1 DEF Linking!AskedRight, Linking!Is
  <2>3. Linking!R(d).on \notin s7[d].todo => \A l \in Linking!Incident(Linking!R(d).on)' : l \in Linking!Incident(Linking!R(d).on) /\ s3'[l] = s3[l]
    BY <1>2, <2>1, <2>2
  <2>4. Linking!R(d).on \notin s7[d].todo => ~Linking!Restricted(Linking!R(d).on)'
    BY <1>2, <2>1, <2>3 DEF Linking!Restricted
  <2> QED
    BY <1>2, <2>1, <2>2, <2>3, <2>4 DEF Linking!FoundByDelete
<1> QED
  BY <1>6, <1>7, <1>8 DEF LinkCallFound

(* A link is created: its ends are locked, and live. *)
LEMMA LinkCreateKeeps ==
  ASSUME Linking!Inv, NEW c \in Callers, NEW a \in {"done", "unknown"}, Linking!At(c, "commit"), s7[c].writes,
         s5' = s5, Linking!Answer(c, a), Linking!Is(c, "create"), Linking!Apply(c)
  PROVE  Linking!Inv'
<1> DEFINE row == [sides |-> Linking!R(c).sides, policy |-> Linking!R(c).policy, tombstone |-> FALSE]
           event == [link |-> Linking!R(c).on, revision |-> 1, operation |-> "create"]
<1>0. /\ s3' = [s3 EXCEPT ![Linking!R(c).on] = row] /\ s4' = s4 \union {event}
      /\ s1' = s1 /\ s2' = s2
  BY DEF Linking!Apply, Linking!Is
<1>1. Linking!FoundByCreate(c) /\ Linking!InPlace(c) /\ Linking!AskedRight(c) /\ Linking!Typed /\ Linking!EventsOnce /\ Linking!NoDanglingLink
  BY DEF Linking!Inv
<1>2. /\ s3[Linking!R(c).on] = Linking!NoLink /\ Linking!R(c).on \in LinkRows /\ Linking!R(c).sides # {} /\ ~Linking!Is(c, "list")
      /\ \A e \in Linking!R(c).sides : Linking!Owns(c, e) /\ e \notin s1
  BY <1>1 DEF Linking!FoundByCreate, Linking!InPlace, Linking!AskedRight, Linking!At, Linking!Is,
    Linking!Past
<1>3. row \in Linking!Rows /\ event \in Linking!Event /\ row # Linking!NoLink /\ event.link = Linking!R(c).on /\ event.revision = 1
  <2>1. Linking!R(c).sides \subseteq LinkEnds /\ Linking!R(c).policy \in Linking!Policies
    BY LinkTypes DEF Linking!Request
  <2>2. row.sides # Linking!NoLink.sides
    BY <1>2 DEF Linking!NoLink
  <2> QED
    BY <1>2, <2>1, <2>2 DEF Linking!Rows, Linking!Event
<1>4. row.sides = Linking!R(c).sides /\ row.tombstone = FALSE
  OBVIOUS
<1> HIDE DEF row, event
<1>5. /\ s3' \in [LinkRows -> Linking!Rows] /\ s3'[Linking!R(c).on] = row
      /\ \A l \in LinkRows : l # Linking!R(c).on => s3'[l] = s3[l]
  BY <1>0, <1>1, <1>2, <1>3 DEF Linking!Typed
<1>6. LinkGrows
  BY <1>0, <1>2, <1>5 DEF LinkGrows
<1>7. Linking!EventsOnce'
  <2>1. \A e \in s4 : e.link # Linking!R(c).on
    <3> SUFFICES ASSUME NEW e \in s4, e.link = Linking!R(c).on PROVE FALSE
      OBVIOUS
    <3>1. e.revision \in 1 .. 2
      BY <1>1 DEF Linking!Typed, Linking!Event
    <3>2. e.revision = 1 \/ e.revision = 2
      BY <3>1
    <3> QED
      BY <1>1, <1>2, <3>2 DEF Linking!EventsOnce
  <2>2. \A e, f \in s4' : e.link = f.link /\ e.revision = f.revision => e = f
    BY <1>0, <1>1, <1>3, <2>1 DEF Linking!EventsOnce
  <2>3. ASSUME NEW l \in LinkRows
        PROVE  /\ (\E e \in s4' : e.link = l /\ e.revision = 1) <=> s3'[l] # Linking!NoLink
               /\ (\E e \in s4' : e.link = l /\ e.revision = 2) <=> s3'[l] # Linking!NoLink /\ ~Linking!Live(l)'
    <3>1. CASE l = Linking!R(c).on
      <4>1. Linking!Live(l)' /\ s3'[l] # Linking!NoLink
        BY <1>3, <1>4, <1>5, <3>1 DEF Linking!Live
      <4> QED
        BY <1>0, <1>3, <2>1, <3>1, <4>1
    <3>2. CASE l # Linking!R(c).on
      <4>1. s3'[l] = s3[l] /\ (Linking!Live(l)' <=> Linking!Live(l))
        BY <1>5, <3>2 DEF Linking!Live
      <4>2. \A e \in s4' : e.link = l => e \in s4
        BY <1>0, <1>3, <3>2
      <4>3. s4 \subseteq s4'
        BY <1>0
      <4> QED
        BY <1>1, <4>1, <4>2, <4>3 DEF Linking!EventsOnce
    <3> QED
      BY <3>1, <3>2
  <2> QED
    BY <2>2, <2>3 DEF Linking!EventsOnce
<1>8. Linking!NoDanglingLink'
  BY <1>0, <1>1, <1>2, <1>4, <1>5 DEF Linking!NoDanglingLink, Linking!Live
<1>9. ASSUME NEW d \in Callers, d # c PROVE LinkCallFound(d)'
  <2>1. \A o : Linking!Owns(d, o) => ~Linking!Owns(c, o)
    BY <1>9, LinkAlone
  <2>2. ASSUME NEW e \in LinkEnds, Linking!Owns(d, e), NEW l \in Linking!Incident(e)'
        PROVE  l \in Linking!Incident(e) /\ s3'[l] = s3[l]
    <3>1. l \in LinkRows /\ l # Linking!R(c).on
      BY <1>2, <1>4, <1>5, <2>1, <2>2 DEF Linking!Incident
    <3> QED
      BY <1>5, <2>2, <3>1 DEF Linking!Incident, Linking!Live
  <2> QED
    BY <1>0, <1>2, <1>3, <1>5, <1>9, <2>2, LinkFoundStays
<1>10. \A d \in Callers : s7[d].answer = "done" => ~(Linking!R(d).op = Linking!R(c).op /\ Linking!R(d).on = Linking!R(c).on)
  BY <1>2 DEF Linking!Inv, Linking!DoneStands, Linking!Is
<1>11. s1' \subseteq LinkEnds /\ s2' \subseteq LinkEnds /\ s4' \subseteq Linking!Event
  BY <1>0, <1>1, <1>3 DEF Linking!Typed
<1>12. /\ Linking!Is(c, "create") => s3'[Linking!R(c).on] # Linking!NoLink
       /\ Linking!Is(c, "unlink") => s3'[Linking!R(c).on].tombstone
       /\ Linking!Is(c, "delete") => Linking!R(c).on \in s1'
  BY <1>3, <1>5 DEF Linking!Is
<1> QED
  BY <1>2, <1>5, <1>6, <1>7, <1>8, <1>9, <1>10, <1>11, <1>12, LinkWriteKeeps

(* A link is deleted, or the live links of an endpoint are detached: those rows
   are locked, and each gets its event. *)
LEMMA LinkEndKeeps ==
  ASSUME Linking!Inv, NEW c \in Callers, NEW a \in {"done", "unknown"}, Linking!At(c, "commit"), ~Linking!Is(c, "list"),
         s5' = s5, Linking!Answer(c, a), NEW ends \in SUBSET LinkRows, NEW operation \in {"delete", "detach"},
         \A l \in ends : Linking!Live(l) /\ Linking!Owns(c, l),
         s3' = [l \in LinkRows |-> IF l \in ends THEN [s3[l] EXCEPT !.tombstone = TRUE] ELSE s3[l]],
         s4' = s4 \union {[link |-> l, revision |-> 2, operation |-> operation] : l \in ends},
         s2' = s2, s1 \subseteq s1', s1' \subseteq LinkEnds,
         \A e \in s1' \ s1 : e = Linking!R(c).on /\ Linking!Owns(c, e) /\ Linking!Incident(e) \subseteq ends,
         Linking!Is(c, "create") => s3'[Linking!R(c).on] # Linking!NoLink,
         Linking!Is(c, "unlink") => s3'[Linking!R(c).on].tombstone,
         Linking!Is(c, "delete") => Linking!R(c).on \in s1',
         \A d \in Callers : s7[d].answer = "done" =>
                             ~(Linking!R(d).op = Linking!R(c).op /\ Linking!R(d).on = Linking!R(c).on /\ Linking!R(c).op \in {"create", "unlink", "delete"})
  PROVE  Linking!Inv'
<1>1. Linking!Typed /\ Linking!EventsOnce /\ Linking!NoDanglingLink /\ s3 \in [LinkRows -> Linking!Rows]
  BY DEF Linking!Inv, Linking!Typed
<1>2. \A l \in LinkRows : s3[l].sides \subseteq LinkEnds /\ s3[l] = [sides |-> s3[l].sides, policy |-> s3[l].policy, tombstone |-> s3[l].tombstone]
  BY <1>1 DEF Linking!Rows
<1>3. \A l \in ends : /\ s3'[l] \in Linking!Rows /\ s3'[l].sides = s3[l].sides /\ s3'[l].tombstone = TRUE
                      /\ s3[l] # Linking!NoLink /\ ~s3[l].tombstone
  BY <1>1 DEF Linking!Rows, Linking!Live
<1>4. \A l \in LinkRows : l \notin ends => s3'[l] = s3[l]
  OBVIOUS
<1>5. s3' \in [LinkRows -> Linking!Rows]
  BY <1>1, <1>3, <1>4
<1>6. \A l \in ends : s3'[l] # Linking!NoLink /\ ~Linking!Live(l)'
  BY <1>3 DEF Linking!NoLink, Linking!Live
<1>7. LinkGrows
  BY <1>3, <1>4, <1>6 DEF LinkGrows
<1>8. s4' \subseteq Linking!Event
  BY <1>1 DEF Linking!Typed, Linking!Event
<1> DEFINE told(l) == [link |-> l, revision |-> 2, operation |-> operation]
<1>9. s4' = s4 \union {told(l) : l \in ends} /\ \A l : told(l).link = l /\ told(l).revision = 2
  OBVIOUS
<1> HIDE DEF told
<1>10. Linking!EventsOnce'
  <2>1. \A e \in s4 : e.link \in ends => e.revision # 2
    BY <1>1, <1>3 DEF Linking!EventsOnce, Linking!Live
  <2>2. \A e, f \in s4' : e.link = f.link /\ e.revision = f.revision => e = f
    <3> SUFFICES ASSUME NEW e \in s4', NEW f \in s4', e.link = f.link, e.revision = f.revision PROVE e = f
      OBVIOUS
    <3>1. CASE e \in s4 /\ f \in s4
      BY <1>1, <3>1 DEF Linking!EventsOnce
    <3>2. CASE e \notin s4 \/ f \notin s4
      BY <1>9, <2>1, <3>2
    <3> QED
      BY <3>1, <3>2
  <2>3. ASSUME NEW l \in LinkRows
        PROVE  /\ (\E e \in s4' : e.link = l /\ e.revision = 1) <=> s3'[l] # Linking!NoLink
               /\ (\E e \in s4' : e.link = l /\ e.revision = 2) <=> s3'[l] # Linking!NoLink /\ ~Linking!Live(l)'
    <3>0. \A e \in s4' : e \in s4 \/ (e.link \in ends /\ e.revision = 2)
      BY <1>9
    <3>1. CASE l \in ends
      <4>1. \E e \in s4' : e.link = l /\ e.revision = 2
        BY <1>9, <3>1
      <4>2. \E e \in s4 : e.link = l /\ e.revision = 1
        BY <1>1, <1>3, <3>1 DEF Linking!EventsOnce
      <4> QED
        BY <1>6, <1>9, <3>1, <4>1, <4>2
    <3>2. CASE l \notin ends
      <4>1. s3'[l] = s3[l] /\ (Linking!Live(l)' <=> Linking!Live(l))
        BY <1>4, <3>2 DEF Linking!Live
      <4>2. \A e \in s4' : e.link = l => e \in s4
        BY <3>0, <3>2
      <4>3. s4 \subseteq s4'
        BY <1>9
      <4> QED
        BY <1>1, <4>1, <4>2, <4>3 DEF Linking!EventsOnce
    <3> QED
      BY <3>1, <3>2
  <2> QED
    BY <2>2, <2>3 DEF Linking!EventsOnce
<1>11. \A l \in LinkRows : Linking!Live(l)' => l \notin ends /\ Linking!Live(l) /\ s3'[l] = s3[l]
  BY <1>4, <1>6 DEF Linking!Live
<1>12. Linking!NoDanglingLink'
  <2> SUFFICES ASSUME NEW l \in LinkRows, Linking!Live(l)', NEW e \in s1', e \in s3'[l].sides PROVE FALSE
    BY DEF Linking!NoDanglingLink
  <2>1. l \notin ends /\ Linking!Live(l) /\ e \in s3[l].sides
    BY <1>11
  <2>2. e \notin s1
    BY <1>1, <2>1 DEF Linking!NoDanglingLink
  <2>3. l \in Linking!Incident(e)
    BY <2>1 DEF Linking!Incident
  <2> QED
    BY <2>1, <2>2, <2>3
<1>13. ASSUME NEW d \in Callers, d # c PROVE LinkCallFound(d)'
  <2>1. \A o : Linking!Owns(d, o) => ~Linking!Owns(c, o)
    BY <1>13, LinkAlone
  <2>2. ASSUME NEW e \in LinkEnds, NEW l \in Linking!Incident(e)'
        PROVE  l \in Linking!Incident(e) /\ s3'[l] = s3[l]
    BY <1>11, <2>2 DEF Linking!Incident
  <2>3. \A l \in LinkRows : s3[l] = Linking!NoLink => l \notin ends
    BY <1>3
  <2>4. \A e \in LinkEnds : Linking!Owns(d, e) \/ e # Linking!R(c).on => (e \in s1' => e \in s1)
    BY <2>1
  <2>5. \A l \in LinkRows : l = Linking!R(d).on /\ l # Linking!R(c).on /\ ~Linking!Owns(c, l) => s3'[l] = s3[l]
    BY <1>4
  <2>6. \A l \in LinkRows : l # Linking!R(c).on /\ s3[l] = Linking!NoLink => s3'[l] = Linking!NoLink
    BY <1>4, <2>3
  <2>7. \A l \in LinkRows : s3[l] # Linking!NoLink => s3'[l] # Linking!NoLink
    BY <1>4, <1>6
  <2>8. \A e \in LinkEnds : Linking!Owns(d, e) => \A l \in Linking!Incident(e)' : l \in Linking!Incident(e) /\ s3'[l] = s3[l]
    BY <2>2
  <2> QED
    BY <1>5, <1>13, <2>4, <2>5, <2>6, <2>7, <2>8, LinkFoundStays, ZenonT(90)
<1> QED
  BY <1>5, <1>7, <1>8, <1>10, <1>12, <1>13, <1>1, LinkWriteKeeps DEF Linking!Typed

(* The commit of an unlink ends the one link it found live. *)
LEMMA LinkUnlinkKeeps ==
  ASSUME Linking!Inv, NEW c \in Callers, NEW a \in {"done", "unknown"}, Linking!At(c, "commit"), s7[c].writes,
         s5' = s5, Linking!Answer(c, a), Linking!Is(c, "unlink"), Linking!Apply(c)
  PROVE  Linking!Inv'
<1>1. Linking!FoundByUnlink(c) /\ Linking!InPlace(c) /\ Linking!AskedRight(c) /\ Linking!Typed
  BY DEF Linking!Inv
<1>2. Linking!R(c).on \in LinkRows /\ ~Linking!Is(c, "list") /\ Linking!Owns(c, Linking!R(c).on) /\ Linking!Live(Linking!R(c).on)
  BY <1>1 DEF Linking!FoundByUnlink, Linking!InPlace, Linking!AskedRight, Linking!At, Linking!Is,
    Linking!Past
<1>3. PICK l : l = Linking!R(c).on
  OBVIOUS
<1>4. /\ s3' = [s3 EXCEPT ![l].tombstone = TRUE]
      /\ s4' = s4 \union {[link |-> l, revision |-> 2, operation |-> "delete"]}
      /\ s1' = s1 /\ s2' = s2
  BY <1>3 DEF Linking!Apply, Linking!Is
<1>5. s3' = [m \in LinkRows |-> IF m \in {l} THEN [s3[m] EXCEPT !.tombstone = TRUE] ELSE s3[m]]
  BY <1>1, <1>4 DEF Linking!Typed
<1>6. s4' = s4 \union {[link |-> m, revision |-> 2, operation |-> "delete"] : m \in {l}}
  BY <1>4
<1>7. s3'[l].tombstone = TRUE /\ l \in LinkRows
  BY <1>1, <1>2, <1>3, <1>5 DEF Linking!Typed, Linking!Rows
<1>8. \A d \in Callers : s7[d].answer = "done" => ~(Linking!R(d).op = Linking!R(c).op /\ Linking!R(d).on = Linking!R(c).on)
  BY <1>2 DEF Linking!Inv, Linking!DoneStands, Linking!Is, Linking!Live
<1>9. {l} \in SUBSET LinkRows /\ s1' \subseteq LinkEnds /\ s1' \ s1 = {} /\ s2' = s2
      /\ s1 \subseteq s1'
  BY <1>1, <1>4, <1>7 DEF Linking!Typed
<1>10. /\ Linking!Is(c, "create") => s3'[Linking!R(c).on] # Linking!NoLink
       /\ Linking!Is(c, "unlink") => s3'[Linking!R(c).on].tombstone
       /\ Linking!Is(c, "delete") => Linking!R(c).on \in s1'
  BY <1>3, <1>7 DEF Linking!Is
<1>11. \A m \in {l} : Linking!Live(m) /\ Linking!Owns(c, m)
  BY <1>2, <1>3
<1> QED
  BY <1>2, <1>5, <1>6, <1>8, <1>9, <1>10, <1>11, LinkEndKeeps

(* The commit of a deletion ends its endpoint, and every link of it that it found. *)
LEMMA LinkDeleteKeeps ==
  ASSUME Linking!Inv, NEW c \in Callers, NEW a \in {"done", "unknown"}, Linking!At(c, "commit"), s7[c].writes,
         s5' = s5, Linking!Answer(c, a), Linking!Is(c, "delete"), Linking!Apply(c)
  PROVE  Linking!Inv'
<1>1. Linking!FoundByDelete(c) /\ Linking!InPlace(c) /\ Linking!AskedRight(c) /\ Linking!Typed
  BY DEF Linking!Inv
<1>2. s7[c].todo = {} /\ "commit" \in Linking!Past /\ Linking!R(c).on \in LinkEnds /\ ~Linking!Is(c, "list")
  BY <1>1 DEF Linking!InPlace, Linking!AskedRight, Linking!At, Linking!Is, Linking!Past
<1>3. /\ Linking!R(c).on \notin s1 /\ Linking!Owns(c, Linking!R(c).on)
      /\ \A l \in Linking!Incident(Linking!R(c).on) : Linking!Owns(c, l)
  BY <1>1, <1>2 DEF Linking!FoundByDelete, Linking!At
<1>4. PICK ends : ends = Linking!Incident(Linking!R(c).on)
  OBVIOUS
<1>5. /\ s1' = s1 \union {Linking!R(c).on} /\ s2' = s2
      /\ s3' = [l \in LinkRows |-> IF l \in ends THEN [s3[l] EXCEPT !.tombstone = TRUE] ELSE s3[l]]
      /\ s4' = s4 \union {[link |-> l, revision |-> 2, operation |-> "detach"] : l \in ends}
  BY <1>4 DEF Linking!Apply, Linking!Is, Linking!Detached
<1>6. ends \in SUBSET LinkRows /\ \A l \in ends : Linking!Live(l) /\ Linking!Owns(c, l)
  BY <1>3, <1>4 DEF Linking!Incident
<1>7. \A d \in Callers : s7[d].answer = "done" => ~(Linking!R(d).op = Linking!R(c).op /\ Linking!R(d).on = Linking!R(c).on)
  BY <1>3 DEF Linking!Inv, Linking!DoneStands, Linking!Is
<1>8. /\ s1 \subseteq s1' /\ s1' \subseteq LinkEnds
      /\ \A e \in s1' \ s1 : e = Linking!R(c).on /\ Linking!Owns(c, e) /\ Linking!Incident(e) \subseteq ends
  BY <1>1, <1>2, <1>3, <1>4, <1>5 DEF Linking!Typed
<1>9. /\ Linking!Is(c, "create") => s3'[Linking!R(c).on] # Linking!NoLink
      /\ Linking!Is(c, "unlink") => s3'[Linking!R(c).on].tombstone
      /\ Linking!Is(c, "delete") => Linking!R(c).on \in s1'
  BY <1>5 DEF Linking!Is
<1> QED
  BY <1>2, <1>5, <1>6, <1>7, <1>8, <1>9, LinkEndKeeps

(* The commit of a revision adds a citation, and no link. *)
LEMMA LinkReviseKeeps ==
  ASSUME Linking!Inv, NEW c \in Callers, NEW a \in {"done", "unknown"}, Linking!At(c, "commit"), s7[c].writes,
         s5' = s5, Linking!Answer(c, a), Linking!Is(c, "revise"), Linking!Apply(c)
  PROVE  Linking!Inv'
<1>1. s2' = s2 \union {LinkSource} /\ s1' = s1 /\ s3' = s3 /\ s4' = s4
  BY DEF Linking!Apply, Linking!Is
<1>2. Linking!Typed /\ LinkSource \in LinkEnds /\ ~Linking!Is(c, "list")
  BY LinkConstants DEF Linking!Inv, Linking!LinksAssumption, Linking!Is
<1>3. Linking!EventsOnce' /\ Linking!NoDanglingLink'
  BY <1>1, LinkRowsRest
<1>4. LinkGrows
  BY <1>1 DEF LinkGrows
<1>5. "unknown" \in Linking!Answers /\ "done" \in Linking!Answers /\ ~Linking!At(c, "idle")
  BY DEF Linking!Answers, Linking!At
<1>6. ASSUME NEW d \in Callers, d # c PROVE LinkCallFound(d)'
  BY <1>1, <1>5, <1>6, LinkEndFrame, LinkFoundRests DEF LinkOthersLocks
<1>7. s1' \subseteq LinkEnds /\ s2' \subseteq LinkEnds /\ s3' \in [LinkRows -> Linking!Rows] /\ s4' \subseteq Linking!Event
  BY <1>1, <1>2 DEF Linking!Typed
<1>8. ~Linking!Is(c, "create") /\ ~Linking!Is(c, "unlink") /\ ~Linking!Is(c, "delete") /\ Linking!R(c).op \notin {"create", "unlink", "delete"}
  BY DEF Linking!Is
<1> QED
  BY <1>2, <1>3, <1>4, <1>6, <1>7, <1>8, LinkWriteKeeps

(* COMMIT: the writes take effect, or the transaction is rolled back. *)
LEMMA LinkCommitKeeps ==
  ASSUME Linking!Inv, NEW c \in Callers, Linking!Commit(c), ~Linking!Is(c, "list")
  PROVE  Linking!Inv'
<1>1. Linking!At(c, "commit") /\ s5' = s5 /\ ~Linking!At(c, "idle")
  BY DEF Linking!Commit, Linking!At
<1>2. ASSUME UNCHANGED Linking!db, NEW a \in {"replayed", "forbidden", "unknown"}, Linking!Answer(c, a) PROVE Linking!Inv'
  <2>1. a \in Linking!Answers \ {"none", "done"}
    BY DEF Linking!Answers
  <2> QED
    BY <1>1, <1>2, <2>1, LinkAnswerKeeps
<1>3. ASSUME s7[c].writes, Linking!Apply(c), NEW a \in {"done", "unknown"}, Linking!Answer(c, a) PROVE Linking!Inv'
  BY <1>1, <1>3, LinkCreateKeeps, LinkUnlinkKeeps, LinkDeleteKeeps, LinkReviseKeeps DEF
    Linking!Apply
<1> QED
  BY <1>2, <1>3 DEF Linking!Commit

(* The first of a set of naturals: whatever is left out comes after them all. *)
LEMMA FirstOnes ==
  ASSUME NEW found \in SUBSET Nat, IsFiniteSet(found), NEW n \in Nat, NEW rows,
         rows = {l \in found : Cardinality({m \in found : m < l}) =< n}, NEW l \in found \ rows
  PROVE  Cardinality(rows) > n /\ \A p \in rows : p < l
<1> DEFINE before(x) == {m \in found : m < x}
<1>1. \A x \in found : IsFiniteSet(before(x)) /\ Cardinality(before(x)) \in Nat
  BY FS_Subset, FS_CardinalityType
<1>2. \A x \in found : x \in rows <=> Cardinality(before(x)) <= n
  OBVIOUS
<1>3. rows \subseteq found /\ IsFiniteSet(rows) /\ Cardinality(rows) \in Nat
  BY FS_Subset, FS_CardinalityType
<1>4. \A x \in found : x \in Nat
  OBVIOUS
<1>5. \A x, y \in found : x <= y => before(x) \subseteq before(y)
  <2> SUFFICES ASSUME NEW x \in found, NEW y \in found, x <= y, NEW m \in found, m < x PROVE m < y
    OBVIOUS
  <2> QED
    BY <1>4
<1>6. \A p \in rows : p < l
  <2> SUFFICES ASSUME NEW p \in rows, l <= p PROVE FALSE
    BY <1>3, <1>4
  <2>1. before(l) \subseteq before(p) /\ p \in found
    BY <1>3, <1>5
  <2> HIDE DEF before
  <2>2. Cardinality(before(l)) <= Cardinality(before(p))
    BY <1>1, <2>1, FS_Subset
  <2> QED
    BY <1>1, <1>2, <2>1, <2>2
<1>7. Cardinality(rows) > n
  <2> DEFINE out == found \ rows
  <2>1. out \in SUBSET Nat /\ out # {}
    OBVIOUS
  <2>2. PICK x \in out : \A y \in out : x <= y
    <3> HIDE DEF out
    <3> QED
      BY <2>1, Least
  <2>3. before(x) \subseteq rows
    <3> SUFFICES ASSUME NEW m \in found, m < x, m \notin rows PROVE FALSE
      OBVIOUS
    <3>1. x <= m
      BY <2>2
    <3> QED
      BY <1>4, <3>1
  <2>4. x \in found /\ ~(Cardinality(before(x)) <= n)
    BY <1>2
  <2> HIDE DEF before, out
  <2>5. Cardinality(before(x)) <= Cardinality(rows)
    BY <1>3, <2>3, FS_Subset
  <2> QED
    BY <1>1, <1>3, <2>4, <2>5
<1> QED
  BY <1>6, <1>7

(* The statement of a page. *)
LEMMA LinkSelectKeeps ==
  ASSUME Linking!Inv, NEW c \in Callers, Linking!Select(c)
  PROVE  Linking!Inv'
<1>1. Linking!At(c, "page") /\ UNCHANGED Linking!db /\ s5' = s5 /\ ~Linking!At(c, "idle")
  BY DEF Linking!Select, Linking!At
<1>2. \A a \in {"notFound", "forbidden"} : a \in Linking!Answers \ {"none", "done"}
  BY DEF Linking!Answers
<1>3. CASE Linking!Answer(c, "notFound") \/ Linking!Answer(c, "forbidden")
  BY <1>1, <1>2, <1>3, LinkAnswerKeeps
<1>4. CASE ~(Linking!Answer(c, "notFound") \/ Linking!Answer(c, "forbidden"))
  <2>r. PICK rows : rows = Linking!Selects(c)
    OBVIOUS
  <2>e. PICK ends : ends = {Linking!R(c).on} \union UNION {s3[l].sides : l \in rows}
    OBVIOUS
  <2>f. PICK needs : needs = Linking!Needs(ends)
    OBVIOUS
  <2>1. /\ s7' = [s7 EXCEPT ![c].page = rows, ![c].fenced = @ \union needs, ![c].pc = "check", ![c].todo = {}]
        /\ s6' = s6
    BY <1>4, <2>r, <2>e, <2>f DEF Linking!Select
  <2>2. s7 \in [Callers -> LinkCallRecord] /\ s7[c] \in LinkCallRecord /\ LinkCallStands(c) /\ Linking!Typed
    BY LinkTypes DEF Linking!Inv, LinkCallStands
  <2>3. Linking!Is(c, "list") /\ Linking!R(c).on \in LinkEnds /\ s7[c].answer = "none"
    BY <1>1, <2>2 DEF LinkCallStands, Linking!InPlace, Linking!AskedRight, Linking!At, Linking!Is
  <2>4. rows \subseteq Linking!Incident(Linking!R(c).on) /\ rows \subseteq LinkRows
    BY <2>r DEF Linking!Selects, Linking!Incident
  <2>5. needs \subseteq LinkEnds
    <3>1. ends \subseteq LinkEnds
      BY <2>e, <2>2, <2>3, <2>4 DEF Linking!Typed, Linking!Rows
    <3> QED
      BY <2>2, <2>f, <3>1 DEF Linking!Needs, Linking!Typed
  <2>6. [s7[c] EXCEPT !.page = rows, !.fenced = @ \union needs, !.pc = "check", !.todo = {}] \in LinkCallRecord
    BY <2>2, <2>4, <2>5 DEF LinkCallRecord, Linking!Pcs
  <2>7. s7' \in [Callers -> LinkCallRecord] /\ \A d \in Callers : d # c => s7'[d] = s7[d]
    BY <2>1, <2>2, <2>6
  <2>8. /\ s7'[c].pc = "check" /\ s7'[c].todo = {} /\ s7'[c].page = rows /\ Linking!R(c)' = Linking!R(c)
        /\ s7'[c].answer = s7[c].answer /\ s7'[c].due = s7[c].due /\ s7'[c].given = s7[c].given
    BY <2>1, <2>2 DEF LinkCallRecord, Linking!R
  <2>9. \A k \in s6 : k[1] # c
    BY <2>3, LinkUnlocked
  <2>10. Linking!LocksExclude' /\ LinkOthersLocks(c)
    BY <2>1, <2>7, <2>8, <2>9, LinkLocksRest
  <2>11. Linking!AskedRight(c)' /\ Linking!InPlace(c)' /\ Linking!DoneStands(c)'
    <3>1. Linking!AskedRight(c)' /\ Linking!DoneStands(c)'
      BY <2>2, <2>3, <2>8 DEF LinkCallStands, Linking!AskedRight, Linking!DoneStands, Linking!At,
        Linking!Is
    <3>2. Linking!InPlace(c)'
      BY <2>1, <2>3, <2>8, <2>9 DEF Linking!InPlace, Linking!At, Linking!Is
    <3> QED
      BY <3>1, <3>2
  <2>12. LinkCallFound(c)'
    BY <2>3, <2>8 DEF LinkCallFound, Linking!FoundByCreate, Linking!FoundByUnlink,
      Linking!FoundByDelete, Linking!Is
  <2>13. Linking!ListGoesOn(c)'
    <3>1. (\A l : Linking!Live(l)' <=> Linking!Live(l)) /\ s3' = s3 /\ s2' = s2
      BY <1>1 DEF Linking!db, Linking!Live
    <3>2. Linking!Owed(c)' = Linking!Owed(c)
      BY <1>1, <2>8, <3>1 DEF Linking!Owed, Linking!Needs
    <3>3. /\ \A l \in s7[c].due : s3[l] # Linking!NoLink /\ Linking!R(c).on \in s3[l].sides
          /\ s5 \subseteq s7[c].granted
          /\ \A l \in Linking!Owed(c) : l \in s7[c].given \/ l > s7[c].after
      BY <1>1, <2>2, <2>3 DEF LinkCallStands, Linking!ListGoesOn, Linking!At
    <3>4. ASSUME NEW l \in Linking!Owed(c), l \notin s7[c].given, l \notin rows
          PROVE  Cardinality(rows) > LinkPage /\ \A p \in rows : p < l
      <4>f. PICK found : found = {m \in Linking!Incident(Linking!R(c).on) : m > s7[c].after /\ Linking!Needs(s3[m].sides) \subseteq s7[c].granted}
        OBVIOUS
      <4>1. rows = {m \in found : Cardinality({o \in found : o < m}) =< LinkPage}
        BY <2>r, <4>f, LinkCounts DEF Linking!Selects
      <4>2. l \in s7[c].due /\ Linking!Live(l) /\ Linking!Needs(s3[l].sides) \subseteq s5 /\ l \in LinkRows
        BY <2>2 DEF Linking!Owed, LinkCallRecord
      <4>3. l \in found
        BY <3>3, <3>4, <4>2, <4>f DEF Linking!Incident
      <4>4. found \in SUBSET Nat /\ IsFiniteSet(found) /\ LinkPage \in Nat
        <5>1. found \subseteq LinkRows
          BY <4>f DEF Linking!Incident
        <5>2. IsFiniteSet(LinkRows) /\ LinkRows \subseteq Nat /\ LinkPage \in Nat
          BY LinkConstants, LinkCounts DEF Linking!LinksAssumption
        <5> QED
          BY <5>1, <5>2, FS_Subset
      <4> QED
        BY <3>4, <4>1, <4>3, <4>4, FirstOnes
    <3>5. \A l \in Linking!Owed(c) : l \in s7[c].given \union rows \/ (Cardinality(rows) > LinkPage /\ \A p \in rows : p < l)
      BY <3>4
    <3> QED
      BY <2>3, <2>8, <3>1, <3>2, <3>3, <3>5, LinkCounts DEF Linking!ListGoesOn, Linking!At
  <2> QED
    BY <1>1, <2>3, <2>7, <2>8, <2>10, <2>11, <2>12, <2>13, LinkGoesKeeps DEF LinkCallStands
<1> QED
  BY <1>3, <1>4

(* A page is given. *)
LEMMA LinkGivePageKeeps ==
  ASSUME Linking!Inv, NEW c \in Callers, Linking!GivePage(c)
  PROVE  Linking!Inv'
<1>r. PICK rows : rows = s7[c].page
  OBVIOUS
<1>m. PICK more : more = (Cardinality(rows) > LinkPage)
  OBVIOUS
<1>g. PICK given : given = IF more THEN rows \ {Linking!Max(rows)} ELSE rows
  OBVIOUS
<1>n. PICK on : on = (more /\ Linking!R(c).on \in s5)
  OBVIOUS
<1>h. PICK granted : granted = s5
  OBVIOUS
<1>i. PICK after : after = IF more THEN Linking!Max(given) ELSE s7[c].after
  OBVIOUS
<1>j. PICK answer : answer = IF on THEN s7[c].answer ELSE IF more THEN "forbidden" ELSE "done"
  OBVIOUS
<1>k. PICK pc : pc = IF on THEN "page" ELSE "answered"
  OBVIOUS
<1>1. s7 \in [Callers -> LinkCallRecord] /\ s7[c] \in LinkCallRecord /\ LinkCallStands(c) /\ Linking!Typed
  BY LinkTypes DEF Linking!Inv, LinkCallStands
<1>2. /\ Linking!At(c, "commit") /\ Linking!Is(c, "list") /\ UNCHANGED Linking!db /\ s5' = s5 /\ s6' = Linking!Ended(c)
      /\ s7' = [s7 EXCEPT ![c].given = @ \union given, ![c].page = {}, ![c].after = after,
                          ![c].granted = granted, ![c].fenced = {Linking!R(c).on}, ![c].answer = answer, ![c].pc = pc]
  <2>1. s7[c].after = s7[c].after /\ (more /\ Linking!R(c).on \in s5 <=> on)
    BY <1>n
  <2> QED
    BY <1>r, <1>m, <1>g, <1>n, <1>h, <1>i, <1>j, <1>k, <1>1, LinkCounts DEF Linking!GivePage,
      LinkCallRecord
<1>3. s7[c].answer = "none" /\ Linking!R(c).on \in LinkEnds
  BY <1>1, <1>2 DEF LinkCallStands, Linking!InPlace, Linking!AskedRight, Linking!At, Linking!Is
<1>4. rows \subseteq LinkRows /\ rows \in SUBSET Nat /\ IsFiniteSet(rows) /\ Cardinality(rows) \in Nat /\ LinkPage \in Nat \ {0}
  <2>1. rows \subseteq LinkRows
    BY <1>1, <1>r DEF LinkCallRecord
  <2>2. IsFiniteSet(LinkRows) /\ LinkRows \subseteq Nat /\ LinkPage \in Nat \ {0}
    BY LinkConstants, LinkCounts DEF Linking!LinksAssumption
  <2> QED
    BY <2>1, <2>2, FS_Subset, FS_CardinalityType
<1>5. ASSUME more
      PROVE  /\ Linking!Max(rows) \in rows /\ \A q \in rows : q <= Linking!Max(rows)
             /\ given = rows \ {Linking!Max(rows)} /\ Linking!Max(given) \in given /\ \A q \in given : q <= Linking!Max(given)
  <2>1. Cardinality(rows) > 1 /\ rows # {}
    <3>1. Cardinality(rows) > LinkPage
      BY <1>5, <1>m
    <3>2. Cardinality(rows) > 1
      BY <1>4, <3>1
    <3> QED
      BY <3>2, FS_EmptySet
  <2>2. Linking!Max(rows) \in rows /\ \A q \in rows : q <= Linking!Max(rows)
    BY <1>4, <2>1, Greatest
  <2>3. given = rows \ {Linking!Max(rows)}
    BY <1>5, <1>g
  <2>4. IsFiniteSet(given) /\ Cardinality(given) = Cardinality(rows) - 1
    BY <1>4, <2>2, <2>3, FS_RemoveElement
  <2>5. given # {} /\ given \in SUBSET Nat
    <3>1. Cardinality(given) # 0
      BY <1>4, <2>1, <2>4
    <3> QED
      BY <1>4, <2>3, <3>1, FS_EmptySet
  <2> QED
    BY <2>2, <2>3, <2>4, <2>5, Greatest
<1>6. given \subseteq rows /\ after \in Nat
  BY <1>1, <1>4, <1>5, <1>g, <1>i DEF LinkCallRecord
<1>7. /\ pc \in Linking!Pcs /\ answer \in Linking!Answers /\ granted \subseteq LinkEnds
      /\ answer \in {"none", "forbidden", "done"}
      /\ pc \in {"page", "answered"} /\ (pc = "answered") = (answer # "none")
      /\ pc = "page" <=> on
      /\ answer = "done" => ~more
      /\ on => more
  BY <1>1, <1>3, <1>h, <1>j, <1>k, <1>n DEF Linking!Pcs, Linking!Answers, Linking!Typed
<1>8. [s7[c] EXCEPT !.given = @ \union given, !.page = {}, !.after = after, !.granted = granted,
                    !.fenced = {Linking!R(c).on}, !.answer = answer, !.pc = pc] \in LinkCallRecord
  BY <1>1, <1>3, <1>4, <1>6, <1>7 DEF LinkCallRecord
<1>9. s7' \in [Callers -> LinkCallRecord] /\ \A d \in Callers : d # c => s7'[d] = s7[d]
  BY <1>1, <1>2, <1>8
<1>10. /\ s7'[c].given = s7[c].given \union given /\ s7'[c].after = after /\ s7'[c].granted = granted
       /\ s7'[c].answer = answer /\ s7'[c].pc = pc /\ s7'[c].due = s7[c].due /\ Linking!R(c)' = Linking!R(c)
       /\ s7'[c].todo = s7[c].todo
  BY <1>1, <1>2 DEF LinkCallRecord, Linking!R
<1>11. (\A k \in s6 : k[1] # c) /\ s6' = s6
  BY <1>2, LinkUnlocked DEF Linking!Ended
<1>12. Linking!LocksExclude' /\ LinkOthersLocks(c)
  BY <1>9, <1>10, <1>11, LinkLocksRest
<1>13. Linking!AskedRight(c)' /\ Linking!DoneStands(c)'
  BY <1>1, <1>2, <1>7, <1>10 DEF LinkCallStands, Linking!AskedRight, Linking!DoneStands, Linking!At,
    Linking!Is
<1>14. Linking!InPlace(c)'
  BY <1>2, <1>7, <1>10, <1>11 DEF Linking!InPlace, Linking!At, Linking!Is, Linking!Within
<1>15. LinkCallFound(c)'
  BY <1>2, <1>10 DEF LinkCallFound, Linking!FoundByCreate, Linking!FoundByUnlink,
    Linking!FoundByDelete, Linking!Is
<1>16. Linking!ListGoesOn(c)'
  <2>1. (\A l : Linking!Live(l)' <=> Linking!Live(l)) /\ s3' = s3 /\ s2' = s2
    BY <1>2 DEF Linking!db, Linking!Live
  <2>2. Linking!Owed(c)' = Linking!Owed(c) /\ Linking!Owed(c) \subseteq LinkRows
    BY <1>1, <1>2, <1>10, <2>1 DEF Linking!Owed, Linking!Needs, LinkCallRecord
  <2>3. /\ \A l \in s7[c].due : s3[l] # Linking!NoLink /\ Linking!R(c).on \in s3[l].sides
        /\ \A l \in Linking!Owed(c) : l \in s7[c].given \union rows \/ (more /\ \A p \in rows : p < l)
    BY <1>1, <1>2, <1>r, <1>m, LinkCounts DEF LinkCallStands, Linking!ListGoesOn, Linking!At
  <2>4. ASSUME pc = "page" PROVE s5 \subseteq granted /\ \A l \in Linking!Owed(c) : l \in s7[c].given \union given \/ l > after
    <3>1. more /\ after = Linking!Max(given)
      BY <1>7, <1>i, <2>4
    <3>2. ASSUME NEW l \in Linking!Owed(c), l \notin s7[c].given, l \notin given PROVE l > after
      <4>1. \A q \in rows : q \in Nat
        BY <1>4
      <4>2. l \in Nat
        BY <2>2, LinkRowsApart
      <4>3. CASE l \in rows
        <5>1. l = Linking!Max(rows) /\ Linking!Max(given) \in rows /\ Linking!Max(given) # l
          BY <1>5, <3>1, <3>2, <4>3
        <5> QED
          BY <1>5, <3>1, <4>1, <4>2, <5>1
      <4>4. CASE \A p \in rows : p < l
        BY <1>5, <3>1, <4>1, <4>2, <4>4
      <4> QED
        BY <2>3, <3>2, <4>3, <4>4
    <3> QED
      BY <1>h, <3>2
  <2>5. ASSUME answer = "done" PROVE Linking!Owed(c) \subseteq s7[c].given \union given
    <3>1. ~more /\ given = rows
      BY <1>7, <1>g, <2>5
    <3> QED
      BY <2>3, <3>1
  <2>6. pc \in {"page", "answered"}
    BY <1>7
  <2> QED
    BY <1>2, <1>10, <2>1, <2>2, <2>3, <2>4, <2>5, <2>6 DEF Linking!ListGoesOn, Linking!At
<1>17. Linking!R(c)'.op \notin {"create", "unlink", "delete"}
  BY <1>2, <1>10 DEF Linking!Is
<1> QED
  BY <1>2, <1>9, <1>12, <1>13, <1>14, <1>15, <1>16, <1>17, LinkGoesKeeps DEF LinkCallStands

(* Every step keeps the invariant. *)
LEMMA LinkStepKeeps == Linking!Inv /\ [Linking!Next]_(Linking!vars) => Linking!Inv'
<1> SUFFICES ASSUME Linking!Inv, [Linking!Next]_(Linking!vars) PROVE Linking!Inv'
  OBVIOUS
<1>1. ASSUME NEW c \in Callers, Linking!Steps(c) PROVE Linking!Inv'
  BY <1>1, LinkLockKeyKeeps, LinkLookKeeps, LinkLockRowKeeps, LinkCheckKeeps, LinkCommitKeeps,
    LinkSelectKeeps, LinkGivePageKeeps DEF Linking!Steps
<1>2. ASSUME NEW c \in Callers, Linking!TimeOut(c) PROVE Linking!Inv'
  BY <1>2, LinkTimeOutKeeps
<1>3. ASSUME NEW c \in Callers, NEW r \in (LinkAsks \union ListAsks), Linking!Begin(c, r) PROVE Linking!Inv'
  BY <1>3, LinkBeginKeeps
<1>4. ASSUME NEW e \in LinkEnds, Linking!Lapse(e) PROVE Linking!Inv'
  BY <1>4, LinkLapseKeeps
<1>5. CASE UNCHANGED Linking!vars
  BY <1>5 DEF Linking!vars, Linking!Inv, Linking!Typed, Linking!LocksExclude, Linking!EventsOnce,
    Linking!NoDanglingLink, Linking!ChangedOnce, Linking!AskedRight, Linking!InPlace,
    Linking!DoneStands,
     Linking!ListGoesOn, Linking!FoundByCreate, Linking!FoundByUnlink, Linking!FoundByDelete, Linking!Live, Linking!R, Linking!Is, Linking!At, Linking!Owns, Linking!Owed, Linking!Needs, Linking!Restricted, Linking!Incident
<1> QED
  BY <1>1, <1>2, <1>3, <1>4, <1>5 DEF Linking!Next, Linking!NextOf

(* A pair of different values has two elements. *)
LEMMA Pair ==
  ASSUME NEW a, NEW b, a # b
  PROVE  IsFiniteSet({a, b}) /\ Cardinality({a, b}) = 2
<1>1. IsFiniteSet({a}) /\ Cardinality({a}) = 1
  BY FS_Singleton
<1>2. {a} \union {b} = {a, b} /\ b \notin {a}
  OBVIOUS
<1> QED
  BY <1>1, <1>2, FS_AddElement

(* What the events of a link are, one for each of its revisions. *)
LEMMA LinkTellsChanges == Linking!Inv => Linking!EventsTellChanges
<1> SUFFICES ASSUME Linking!Inv, NEW l \in LinkRows
             PROVE  LET told == {e \in s4 : e.link = l}
                    IN /\ {e.revision : e \in told} = IF s3[l] = Linking!NoLink THEN {} ELSE IF Linking!Live(l) THEN {1} ELSE 1 .. 2
                       /\ Cardinality(told) = Cardinality({e.revision : e \in told})
  BY LinkCounts DEF Linking!EventsTellChanges
<1> DEFINE told == {e \in s4 : e.link = l}
           revisions == {e.revision : e \in told}
<1>1. /\ \A e, f \in s4 : e.link = f.link /\ e.revision = f.revision => e = f
      /\ (\E e \in s4 : e.link = l /\ e.revision = 1) <=> s3[l] # Linking!NoLink
      /\ (\E e \in s4 : e.link = l /\ e.revision = 2) <=> s3[l] # Linking!NoLink /\ ~Linking!Live(l)
  BY DEF Linking!Inv, Linking!EventsOnce
<1>2. \A e \in s4 : e.revision = 1 \/ e.revision = 2
  BY DEF Linking!Inv, Linking!Typed, Linking!Event
<1>3. CASE s3[l] = Linking!NoLink
  <2>1. told = {} /\ revisions = {}
    BY <1>1, <1>2, <1>3
  <2> QED
    BY <1>3, <2>1
<1>4. CASE s3[l] # Linking!NoLink /\ Linking!Live(l)
  <2>1. PICK e \in s4 : e.link = l /\ e.revision = 1
    BY <1>1, <1>4
  <2>2. told = {e}
    BY <1>1, <1>2, <1>4, <2>1
  <2>3. revisions = {1}
    BY <2>1, <2>2
  <2> QED
    BY <1>4, <2>2, <2>3, FS_Singleton
<1>5. CASE s3[l] # Linking!NoLink /\ ~Linking!Live(l)
  <2>1. PICK e \in s4 : e.link = l /\ e.revision = 1
    BY <1>1, <1>5
  <2>2. PICK f \in s4 : f.link = l /\ f.revision = 2
    BY <1>1, <1>5
  <2>3. told = {e, f} /\ e # f
    BY <1>1, <1>2, <2>1, <2>2
  <2>4. revisions = {1, 2} /\ {1, 2} = 1 .. 2
    BY <2>1, <2>2, <2>3
  <2> HIDE DEF told, revisions
  <2>5. Cardinality(told) = 2
    BY <2>3, Pair
  <2>6. Cardinality(revisions) = 2
    BY <2>4, Pair
  <2> QED
    BY <1>5, <2>4, <2>5, <2>6 DEF told, revisions
<1> QED
  BY <1>3, <1>4, <1>5

(* A call that waits for a row is blocked by one that waits for a later row, or for none. *)
LEMMA LinkNoCircle == Linking!Inv => Linking!NoWaitCycle
<1> SUFFICES ASSUME Linking!Inv, NEW S \in (SUBSET Callers) \ {{}}
             PROVE  \E c \in S : ~Linking!Waits(c) \/ \A d \in S \ {c} :
                       ~ \E k \in s6 : /\ k[1] = d /\ k[2] = Linking!Awaits(c)[1] /\ k[3] = Linking!Awaits(c)[2]
                                       /\ ~(k[4] = "share" /\ Linking!Awaits(c)[3] = "share")
  BY DEF Linking!NoWaitCycle
<1>0. SUFFICES ASSUME \A c \in S : Linking!Waits(c) /\ \E d \in S \ {c} :
                         \E k \in s6 : k[1] = d /\ k[2] = Linking!Awaits(c)[1] /\ k[3] = Linking!Awaits(c)[2]
               PROVE  FALSE
  OBVIOUS
<1> DEFINE W == {c \in S : Linking!At(c, "lock")}
           rows == {Linking!Next1(c) : c \in W}
<1>1. ASSUME NEW c \in S
      PROVE  \E d \in W : \E k \in s6 : k[1] = d /\ k[2] = Linking!Awaits(c)[1] /\ k[3] = Linking!Awaits(c)[2]
  <2>1. PICK d \in S, k \in s6 : k[1] = d /\ k[2] = Linking!Awaits(c)[1] /\ k[3] = Linking!Awaits(c)[2]
    BY <1>0
  <2>2. s7[d].pc \in {"key", "lock"} /\ s7[d].pc \in Linking!Within
    BY <1>0, <2>1 DEF Linking!Waits, Linking!Inv, Linking!LocksExclude
  <2>3. d \in W
    BY <2>2 DEF Linking!Within, Linking!At
  <2> QED
    BY <2>1, <2>3
<1>2. W # {} /\ W \subseteq Callers /\ \A c \in W : Linking!At(c, "lock")
  <2>1. PICK c \in S : TRUE
    OBVIOUS
  <2>2. W # {}
    BY <1>1, <2>1
  <2> QED
    BY <2>2
<1>3. \A c \in W : Linking!Next1(c) \in LinkEnds \union LinkRows /\ Linking!Next1(c) \in s7[c].todo
  BY <1>2, LinkNextRow
<1>4. rows \in SUBSET Nat /\ rows # {} /\ IsFiniteSet(rows)
  <2>1. IsFiniteSet(LinkEnds \union LinkRows)
    BY LinkConstants, FS_Union, LinkCounts DEF Linking!LinksAssumption
  <2>2. rows \subseteq LinkEnds \union LinkRows /\ rows # {}
    BY <1>2, <1>3
  <2> HIDE DEF rows
  <2> QED
    BY <2>1, <2>2, LinkRowsApart, FS_Subset
<1>5. PICK c \in W : \A d \in W : Linking!Next1(d) <= Linking!Next1(c)
  <2>1. Linking!Max(rows) \in rows /\ \A q \in rows : q <= Linking!Max(rows)
    <3> HIDE DEF rows
    <3> QED
      BY <1>4, Greatest
  <2>2. PICK c \in W : Linking!Next1(c) = Linking!Max(rows)
    BY <2>1
  <2>3. \A d \in W : Linking!Next1(d) \in rows
    OBVIOUS
  <2> HIDE DEF rows, W
  <2> QED
    BY <2>1, <2>2, <2>3
<1> HIDE DEF rows
<1>6. Linking!Awaits(c)[1] = "row" /\ Linking!Awaits(c)[2] = Linking!Next1(c) /\ c \in S
  BY <1>2 DEF Linking!Awaits, Linking!At
<1> HIDE DEF W
<1>7. PICK d \in W, k \in s6 : k[1] = d /\ k[2] = "row" /\ k[3] = Linking!Next1(c)
  BY <1>1, <1>6
<1>8. Linking!Next1(c) < Linking!Next1(d)
  BY <1>2, <1>3, <1>7 DEF Linking!Inv, Linking!InPlace
<1>9. Linking!Next1(c) \in Nat /\ Linking!Next1(d) \in Nat
  BY <1>3, LinkRowsApart
<1> QED
  BY <1>5, <1>8, <1>9

(* The invariant is more than each of the invariants the runs check. *)
LEMMA LinkInvTells == Linking!Inv => Linking!TypeOK /\ Linking!NoDanglingLink /\ Linking!EventsTellChanges /\ Linking!ChangedOnce /\ Linking!NoWaitCycle /\ Linking!ListedAll
<1> SUFFICES ASSUME Linking!Inv PROVE Linking!TypeOK /\ Linking!ListedAll
  BY LinkTellsChanges, LinkNoCircle DEF Linking!Inv
<1>1. Linking!TypeOK
  <2>1. ASSUME NEW c \in Callers
        PROVE  /\ s7[c].pc \in Linking!Pcs /\ Linking!R(c) \in Linking!Request /\ s7[c].answer \in Linking!Answers
               /\ (s7[c].pc = "answered") = (s7[c].answer # "none")
               /\ Linking!At(c, "lock") => s7[c].todo # {}
    BY LinkTypes DEF Linking!Inv, Linking!InPlace, LinkCallRecord
  <2>2. ASSUME NEW c \in Callers, s7[c].pc \in {"idle", "answered"} PROVE \A k \in s6 : k[1] # c
    <3>1. s7[c].pc \notin Linking!Within
      BY <2>2 DEF Linking!Within
    <3> QED
      BY <3>1, LinkUnlocked
  <2> QED
    BY <2>1, <2>2 DEF Linking!Inv, Linking!Typed, Linking!TypeOK
<1>2. Linking!ListedAll
  <2> SUFFICES ASSUME NEW c \in Callers, Linking!Is(c, "list"), s7[c].answer = "done" PROVE Linking!Owed(c) \subseteq s7[c].given
    BY DEF Linking!ListedAll, Linking!Owed
  <2>1. ~Linking!At(c, "idle")
    BY DEF Linking!Inv, Linking!InPlace, Linking!At
  <2> QED
    BY <2>1 DEF Linking!Inv, Linking!ListGoesOn
<1> QED
  BY <1>1, <1>2

(* Only a commit changes links and events. *)
LEMMA LinkOnlyCommits ==
  ASSUME Linking!Inv, [Linking!Next]_(Linking!vars)
  PROVE  \/ UNCHANGED Linking!db
         \/ \E c \in Callers : /\ Linking!At(c, "commit") /\ s7[c].writes /\ Linking!Authorized(c) /\ Linking!Apply(c) /\ s5' = s5
                               /\ ~Linking!Is(c, "list")
<1>1. ASSUME NEW c \in Callers, Linking!Steps(c)
      PROVE  \/ UNCHANGED Linking!db
             \/ /\ Linking!At(c, "commit") /\ s7[c].writes /\ Linking!Authorized(c) /\ Linking!Apply(c) /\ s5' = s5 /\ ~Linking!Is(c, "list")
  <2>1. CASE Linking!LockKey(c) \/ Linking!Look(c) \/ Linking!LockRow(c) \/ Linking!Check(c) \/ Linking!Select(c) \/ Linking!GivePage(c)
    BY <2>1 DEF Linking!LockKey, Linking!Look, Linking!LockRow, Linking!Check, Linking!Select,
      Linking!GivePage
  <2>2. CASE ~Linking!Is(c, "list") /\ Linking!Commit(c)
    BY <2>2 DEF Linking!Commit
  <2> QED
    BY <1>1, <2>1, <2>2 DEF Linking!Steps
<1>2. ASSUME NEW c \in Callers, Linking!TimeOut(c) PROVE UNCHANGED Linking!db
  BY <1>2 DEF Linking!TimeOut
<1>3. ASSUME NEW c \in Callers, NEW r \in (LinkAsks \union ListAsks), Linking!Begin(c, r) PROVE UNCHANGED Linking!db
  BY <1>3 DEF Linking!Begin
<1>4. ASSUME NEW e \in LinkEnds, Linking!Lapse(e) PROVE UNCHANGED Linking!db
  BY <1>4 DEF Linking!Lapse
<1>5. CASE UNCHANGED Linking!vars
  BY <1>5 DEF Linking!vars, Linking!db
<1> QED
  BY <1>1, <1>2, <1>3, <1>4, <1>5 DEF Linking!Next, Linking!NextOf

(* What no step does, told of the commit that would. *)
LEMMA LinkStepTells == Linking!Inv /\ [Linking!Next]_(Linking!vars) => Linking!GrantsHeldAtCommit /\ Linking!RestrictHolds
<1> SUFFICES ASSUME Linking!Inv, [Linking!Next]_(Linking!vars) PROVE Linking!GrantsHeldAtCommit /\ Linking!RestrictHolds
  OBVIOUS
<1>1. CASE UNCHANGED Linking!db
  BY <1>1 DEF Linking!db, Linking!GrantsHeldAtCommit, Linking!RestrictHolds, Linking!Live
<1>2. ASSUME NEW c \in Callers, Linking!At(c, "commit"), s7[c].writes, Linking!Authorized(c), Linking!Apply(c), ~Linking!Is(c, "list")
      PROVE  Linking!GrantsHeldAtCommit /\ Linking!RestrictHolds
  <2>1. Linking!Typed /\ Linking!FoundByUnlink(c) /\ Linking!FoundByDelete(c) /\ Linking!InPlace(c) /\ Linking!AskedRight(c) /\ s3 \in [LinkRows -> Linking!Rows]
    BY DEF Linking!Inv, Linking!Typed
  <2>2. Linking!EventNeeds(c) \subseteq s5
    BY <1>2 DEF Linking!Authorized
  <2>3. CASE Linking!Is(c, "create")
    <3>1. /\ Linking!R(c).on \in LinkRows
          /\ s4' = s4 \union {[link |-> Linking!R(c).on, revision |-> 1, operation |-> "create"]}
          /\ s3' = [s3 EXCEPT ![Linking!R(c).on] = [sides |-> Linking!R(c).sides, policy |-> Linking!R(c).policy, tombstone |-> FALSE]]
      BY <1>2, <2>1, <2>3 DEF Linking!Apply, Linking!Is, Linking!AskedRight
    <3>2. s3'[Linking!R(c).on].sides = Linking!R(c).sides /\ Linking!Needs(Linking!R(c).sides) \subseteq s5
      BY <2>1, <2>2, <2>3, <3>1 DEF Linking!EventNeeds
    <3>3. \A e \in s4' \ s4 : e.link = Linking!R(c).on
      BY <3>1
    <3>4. \A l \in LinkRows : Linking!Live(l) => Linking!Live(l)'
      <4>1. s3[Linking!R(c).on] = Linking!NoLink
        BY <1>2, <2>3 DEF Linking!Inv, Linking!FoundByCreate, Linking!At, Linking!Past
      <4> QED
        BY <2>1, <3>1, <4>1 DEF Linking!Live
    <3> QED
      BY <3>2, <3>3, <3>4 DEF Linking!GrantsHeldAtCommit, Linking!RestrictHolds
  <2>4. CASE Linking!Is(c, "unlink")
    <3>1. /\ Linking!R(c).on \in LinkRows
          /\ s4' = s4 \union {[link |-> Linking!R(c).on, revision |-> 2, operation |-> "delete"]}
          /\ s3' = [s3 EXCEPT ![Linking!R(c).on].tombstone = TRUE]
      BY <1>2, <2>1, <2>4 DEF Linking!Apply, Linking!Is, Linking!AskedRight
    <3>2. s3'[Linking!R(c).on].sides = s3[Linking!R(c).on].sides /\ Linking!Needs(s3[Linking!R(c).on].sides) \subseteq s5
      BY <2>1, <2>2, <2>4, <3>1 DEF Linking!EventNeeds, Linking!Rows, Linking!Is
    <3>3. \A e \in s4' \ s4 : e.link = Linking!R(c).on
      BY <3>1
    <3>4. \A l \in LinkRows : l # Linking!R(c).on => (Linking!Live(l) <=> Linking!Live(l)')
      BY <2>1, <3>1 DEF Linking!Live
    <3> QED
      BY <3>1, <3>2, <3>3, <3>4 DEF Linking!GrantsHeldAtCommit, Linking!RestrictHolds
  <2>5. CASE Linking!Is(c, "delete")
    <3>1. /\ s3' = [l \in LinkRows |-> IF l \in Linking!Detached(c) THEN [s3[l] EXCEPT !.tombstone = TRUE] ELSE s3[l]]
          /\ s4' = s4 \union {[link |-> l, revision |-> 2, operation |-> "detach"] : l \in Linking!Detached(c)}
      BY <1>2, <2>5 DEF Linking!Apply, Linking!Is
    <3>2. ~Linking!Restricted(Linking!R(c).on)
      BY <1>2, <2>1, <2>5 DEF Linking!FoundByDelete, Linking!InPlace, Linking!At, Linking!Past
    <3>3. \A e \in s4' \ s4 : e.operation = "detach"
      BY <3>1
    <3>4. \A l \in LinkRows : Linking!Live(l) /\ ~Linking!Live(l)' => l \in Linking!Detached(c)
      BY <3>1 DEF Linking!Live
    <3>5. \A l \in LinkRows : Linking!Live(l) /\ ~Linking!Live(l)' => s3[l].policy # "restrict"
      BY <3>2, <3>4 DEF Linking!Restricted, Linking!Detached
    <3> QED
      BY <3>3, <3>5 DEF Linking!GrantsHeldAtCommit, Linking!RestrictHolds
  <2>6. CASE Linking!Is(c, "revise")
    <3>1. s4' = s4 /\ s3' = s3
      BY <1>2, <2>6 DEF Linking!Apply, Linking!Is
    <3> QED
      BY <3>1 DEF Linking!GrantsHeldAtCommit, Linking!RestrictHolds, Linking!Live
  <2>7. Linking!R(c).op \in {"create", "unlink", "delete", "revise"}
    BY <1>2, LinkTypes DEF Linking!Is
  <2> QED
    BY <2>3, <2>4, <2>5, <2>6, <2>7 DEF Linking!Is
<1> QED
  BY <1>1, <1>2, LinkOnlyCommits

----------------------------------------------------------------------------
(* Indexed queries: the parts "backfill" and "pages". *)

(* Their constants are as IndexedQueries assumes. *)
LEMMA IndexConstants == Querying!QueriesAssumption
  BY SuiteAssumption

(* Cardinalities are what they are. *)
LEMMA IndexCounts == \A S : Querying!Cardinality(S) = Cardinality(S) /\ (Querying!IsFiniteSet(S) <=> IsFiniteSet(S))
  BY DEF Querying!Cardinality, Cardinality, Querying!IsFiniteSet, IsFiniteSet

(* A strict order of S, as a set of pairs, in which any two members compare. *)
IndexOrders(R, S) ==
  /\ \A x \in S : <<x, x>> \notin R
  /\ \A x, y, z \in S : <<x, y>> \in R /\ <<y, z>> \in R => <<x, z>> \in R
  /\ \A x, y \in S : x # y => <<x, y>> \in R \/ <<y, x>> \in R

(* F is the first n members of S, or all of them if there are fewer. *)
IndexIsFirst(F, n, S, R) ==
  /\ F \subseteq S /\ IsFiniteSet(F) /\ Cardinality(F) <= n
  /\ \A r \in S \ F : Cardinality(F) >= n /\ \A s \in F : <<s, r>> \in R

(* A set of numbers has a least one. *)
LEMMA IndexLeastOf ==
  ASSUME NEW T \in SUBSET Nat, T # {}
  PROVE  \E m \in T : \A q \in T : m <= q
<1> DEFINE Below == {p \in Nat \X Nat : p[1] < p[2]}
<1>1. IsWellFoundedOn(Below, Nat)
  BY NatLessThanWellFounded DEF OpToRel
<1>2. PICK s \in T : \A q \in T : <<q, s>> \notin Below
  <2> HIDE DEF Below
  <2> QED BY <1>1, WFMin
<1>3. ASSUME NEW q \in T PROVE s <= q
  <2>1. <<q, s>> \in Nat \X Nat /\ <<q, s>>[1] = q /\ <<q, s>>[2] = s
    OBVIOUS
  <2> QED
    BY <1>2, <2>1
<1> QED
  BY <1>3

(* What precedes a member of a finite ordered set, the more of it the later the member. *)
LEMMA IndexPreceding ==
  ASSUME NEW S, IsFiniteSet(S), NEW R, IndexOrders(R, S), NEW x \in S
  PROVE  /\ IsFiniteSet({s \in S : <<s, x>> \in R}) /\ Cardinality({s \in S : <<s, x>> \in R}) \in Nat
         /\ \A y \in S : <<x, y>> \in R =>
              Cardinality({s \in S : <<s, x>> \in R}) < Cardinality({s \in S : <<s, y>> \in R})
<1> DEFINE Pre(r) == {s \in S : <<s, r>> \in R}
<1>1. \A r \in S : Pre(r) \in SUBSET S
  OBVIOUS
<1>2. \A r \in S : IsFiniteSet(Pre(r)) /\ Cardinality(Pre(r)) \in Nat
  <2> HIDE DEF Pre
  <2> QED
    BY <1>1, FS_Subset, FS_CardinalityType
<1>3. ASSUME NEW y \in S, <<x, y>> \in R PROVE Cardinality(Pre(x)) < Cardinality(Pre(y))
  <2>1. Pre(x) \in SUBSET Pre(y)
    BY <1>3 DEF IndexOrders
  <2>2. x \in Pre(y) /\ x \notin Pre(x)
    BY <1>3 DEF IndexOrders
  <2> HIDE DEF Pre
  <2>3. Cardinality(Pre(x)) <= Cardinality(Pre(y)) /\ Cardinality(Pre(x)) # Cardinality(Pre(y))
    BY <1>2, <2>1, <2>2, FS_Subset
  <2> QED
    BY <1>2, <2>3
<1> QED
  BY <1>2, <1>3

(* A finite set has a first member in its order. *)
LEMMA IndexFirstOne ==
  ASSUME NEW S, IsFiniteSet(S), NEW R, IndexOrders(R, S), S # {}
  PROVE  \E m \in S : \A s \in S \ {m} : <<m, s>> \in R
<1> DEFINE Pre(r) == {s \in S : <<s, r>> \in R}
           sizes == {Cardinality(Pre(r)) : r \in S}
<1>1. \A r \in S : Cardinality(Pre(r)) \in Nat
  BY IndexPreceding
<1>2. sizes \in SUBSET Nat /\ sizes # {}
  BY <1>1
<1>3. PICK k \in sizes : \A q \in sizes : k <= q
  <2> HIDE DEF sizes
  <2> QED
    BY <1>2, IndexLeastOf
<1>4. PICK m \in S : k = Cardinality(Pre(m))
  OBVIOUS
<1>5. ASSUME NEW s \in S \ {m}, <<m, s>> \notin R PROVE FALSE
  <2>1. <<s, m>> \in R
    BY <1>5 DEF IndexOrders
  <2>2. Cardinality(Pre(s)) < Cardinality(Pre(m))
    BY <2>1, IndexPreceding
  <2>3. Cardinality(Pre(s)) \in sizes
    OBVIOUS
  <2> HIDE DEF Pre, sizes
  <2> QED
    BY <1>1, <1>3, <1>4, <2>2, <2>3
<1> QED
  BY <1>5

(* And a last one. *)
LEMMA IndexLastOne ==
  ASSUME NEW S, IsFiniteSet(S), NEW R, IndexOrders(R, S), S # {}
  PROVE  \E m \in S : \A s \in S \ {m} : <<s, m>> \in R
<1> DEFINE Q == {p \in S \X S : <<p[2], p[1]>> \in R}
<1>1. \A x, y \in S : <<x, y>> \in Q <=> <<y, x>> \in R
  OBVIOUS
<1> HIDE DEF Q
<1>2. IndexOrders(Q, S)
  BY <1>1 DEF IndexOrders
<1>3. PICK m \in S : \A s \in S \ {m} : <<m, s>> \in Q
  BY <1>2, IndexFirstOne
<1> QED
  BY <1>1, <1>3

(* The members with fewer than n before them are the first n. *)
LEMMA IndexFirstsAre ==
  ASSUME NEW S, IsFiniteSet(S), NEW R, IndexOrders(R, S), NEW n \in Nat, NEW F,
         F = {r \in S : Cardinality({s \in S : <<s, r>> \in R}) < n}
  PROVE  IndexIsFirst(F, n, S, R)
<1> DEFINE Pre(r) == {s \in S : <<s, r>> \in R}
<1>1. \A r \in S : IsFiniteSet(Pre(r)) /\ Cardinality(Pre(r)) \in Nat
  BY IndexPreceding
<1>2. \A x, y \in S : <<x, y>> \in R => Cardinality(Pre(x)) < Cardinality(Pre(y))
  BY IndexPreceding
<1>3. F \in SUBSET S /\ (\A r \in S : r \in F <=> Cardinality(Pre(r)) < n)
  OBVIOUS
<1>4. IsFiniteSet(F) /\ Cardinality(F) \in Nat
  BY <1>3, FS_Subset, FS_CardinalityType
<1>a. \A r \in S : Pre(r) = {s \in S : <<s, r>> \in R}
  OBVIOUS
<1> HIDE DEF Pre
<1>5. Cardinality(F) <= n
  <2>1. CASE F = {}
    <3>1. Cardinality(F) = 0
      BY <1>4, <2>1, FS_EmptySet
    <3> QED
      BY <3>1
  <2>2. CASE F # {}
    <3>1. IndexOrders(R, F)
      BY <1>3 DEF IndexOrders
    <3>2. PICK m \in F : \A s \in F \ {m} : <<s, m>> \in R
      BY <1>4, <2>2, <3>1, IndexLastOne
    <3>3. F \ {m} \in SUBSET Pre(m)
      BY <1>3, <1>a, <3>2
    <3>4. Cardinality(F \ {m}) = Cardinality(F) - 1
      BY <1>4, FS_RemoveElement
    <3>5. Cardinality(F \ {m}) <= Cardinality(Pre(m))
      BY <1>1, <1>3, <3>3, FS_Subset
    <3>6. Cardinality(Pre(m)) < n /\ Cardinality(Pre(m)) \in Nat
      BY <1>1, <1>3
    <3> QED
      BY <1>4, <3>4, <3>5, <3>6
  <2> QED
    BY <2>1, <2>2
<1>6. ASSUME NEW r \in S \ F PROVE Cardinality(F) >= n /\ \A s \in F : <<s, r>> \in R
  <2>1. \A s \in F : <<s, r>> \in R
    <3> SUFFICES ASSUME NEW s \in F, <<s, r>> \notin R PROVE FALSE
      OBVIOUS
    <3>1. <<r, s>> \in R /\ s \in S
      BY <1>3 DEF IndexOrders
    <3>2. Cardinality(Pre(r)) < Cardinality(Pre(s))
      BY <1>2, <3>1
    <3> QED
      BY <1>1, <1>3, <3>1, <3>2
  <2>2. Cardinality(F) >= n
    <3>1. IsFiniteSet(S \ F) /\ S \ F # {} /\ IndexOrders(R, S \ F)
      BY <1>6, FS_Subset DEF IndexOrders
    <3>2. PICK m \in S \ F : \A s \in (S \ F) \ {m} : <<m, s>> \in R
      BY <3>1, IndexFirstOne
    <3>3. Pre(m) \in SUBSET F
      <4> SUFFICES ASSUME NEW s \in S, <<s, m>> \in R, s \notin F PROVE FALSE
        BY <1>a
      <4>1. s # m /\ m \in S
        BY DEF IndexOrders
      <4>2. <<m, s>> \in R
        BY <3>2, <4>1
      <4> QED
        BY <4>1, <4>2 DEF IndexOrders
    <3>4. Cardinality(Pre(m)) <= Cardinality(F)
      BY <1>4, <3>3, FS_Subset
    <3>5. ~(Cardinality(Pre(m)) < n) /\ Cardinality(Pre(m)) \in Nat
      BY <1>1, <1>3
    <3> QED
      BY <1>4, <3>4, <3>5
  <2> QED
    BY <2>1, <2>2
<1> QED
  BY <1>3, <1>4, <1>5, <1>6 DEF IndexIsFirst

(* So the first n of the first members of each of three parts are the first n of the whole. *)
LEMMA IndexFirstOfParts ==
  ASSUME NEW S, IsFiniteSet(S), NEW R, IndexOrders(R, S), NEW n \in Nat,
         NEW U, NEW C, IndexIsFirst(C, n, U, R), U \in SUBSET S,
         \A r \in S \ U : \E F \in SUBSET U : IsFiniteSet(F) /\ Cardinality(F) = n /\ \A s \in F : <<s, r>> \in R
  PROVE  IndexIsFirst(C, n, S, R)
<1>0. C \in SUBSET U /\ C \in SUBSET S /\ IsFiniteSet(C) /\ Cardinality(C) \in Nat /\ Cardinality(C) <= n
  BY FS_CardinalityType DEF IndexIsFirst
<1>1. ASSUME NEW r \in S \ C PROVE Cardinality(C) >= n /\ \A s \in C : <<s, r>> \in R
  <2>1. CASE r \in U
    BY <2>1 DEF IndexIsFirst
  <2>2. CASE r \notin U
    <3>1. PICK F \in SUBSET U : IsFiniteSet(F) /\ Cardinality(F) = n /\ \A s \in F : <<s, r>> \in R
      BY <2>2
    <3>2. CASE F \subseteq C
      <4>1. Cardinality(F) <= Cardinality(C)
        BY <1>0, <3>2, FS_Subset
      <4>2. Cardinality(F) = Cardinality(C)
        BY <1>0, <3>1, <4>1
      <4>3. F = C
        BY <1>0, <3>2, <4>2, FS_Subset
      <4> QED
        BY <1>0, <3>1, <4>2, <4>3
    <3>3. CASE ~(F \subseteq C)
      <4>1. PICK f \in F : f \in U \ C
        BY <3>3
      <4>2. Cardinality(C) >= n /\ \A s \in C : <<s, f>> \in R
        BY <4>1 DEF IndexIsFirst
      <4>3. <<f, r>> \in R /\ f \in S
        BY <3>1, <4>1
      <4> QED
        BY <1>0, <4>2, <4>3 DEF IndexOrders
    <3> QED
      BY <3>2, <3>3
  <2> QED
    BY <2>1, <2>2
<1> QED
  BY <1>0, <1>1 DEF IndexIsFirst

(* The constants are numbers. *)
LEMMA IndexNumbers ==
  /\ IndexRecords \in Nat \ {0} /\ IndexBatch \in Nat \ {0} /\ IndexVersions \in Nat \ {0}
  /\ IndexWrites \in Nat /\ 0 \in Nat /\ IndexMax \in Nat /\ IndexMax > 2 /\ IndexBytes \in Nat /\ IndexBytes > 1
  /\ Querying!Ids \subseteq Nat \ {0} /\ IsFiniteSet(Querying!Ids) /\ Querying!FieldValues \subseteq Nat /\ Querying!NoRow \in Nat /\ Querying!NoRow \notin Querying!FieldValues
<1>1. IsFiniteSet(1 .. IndexRecords)
  BY IndexConstants, FS_Interval DEF Querying!QueriesAssumption
<1> QED
  BY IndexConstants, <1>1 DEF Querying!QueriesAssumption, Querying!Ids, Querying!FieldValues,
    Querying!NoRow

(* A record's position has the form its order asks. *)
LEMMA IndexKeys ==
  ASSUME Querying!TypeOK, NEW r \in Querying!Ids
  PROVE  Querying!Key(r) \in Querying!KeyOf /\ Querying!InOrder(Querying!Key(r)) /\ Querying!Key(r).id = r
<1>1. s4[r] \in Nat /\ s3[r].at \in Nat /\ r \in Nat
  BY IndexNumbers DEF Querying!TypeOK, Querying!Record
<1>2. Querying!Rank(s4[r]) \in 0..2
  BY <1>1 DEF Querying!Rank
<1> QED
  BY <1>1, <1>2 DEF Querying!Key, Querying!KeyOf, Querying!InOrder

(* Positions are in a strict order, and "after" a cursor is after it in that order. *)
LEMMA IndexKeysCompare ==
  ASSUME NEW a \in Querying!KeyOf, NEW b \in Querying!KeyOf, NEW c \in Querying!KeyOf, Querying!InOrder(a), Querying!InOrder(b), Querying!InOrder(c)
  PROVE  /\ ~Querying!Precedes(a, a)
         /\ Querying!Precedes(a, b) /\ Querying!Precedes(b, c) => Querying!Precedes(a, c)
         /\ a.id # b.id => Querying!Precedes(a, b) \/ Querying!Precedes(b, a)
         /\ Querying!After(a, b) <=> Querying!Precedes(a, b)
<1> USE DEF Querying!KeyOf
<1>1. ~Querying!Sorted => ~Querying!Down
  BY DEF Querying!Down, Querying!Sorted
<1>2. ~Querying!Precedes(a, a)
  BY DEF Querying!Precedes
<1>3. Querying!After(a, b) <=> Querying!Precedes(a, b)
  <2>1. CASE Querying!Sorted /\ a.rank = b.rank /\ a.rank = 2
    BY <2>1 DEF Querying!Precedes, Querying!After, Querying!InOrder
  <2>2. CASE Querying!Sorted /\ a.rank = b.rank /\ a.rank # 2
    <3>1. a.val = a.rank /\ b.val = b.rank
      BY <2>2 DEF Querying!InOrder, Querying!Rank
    <3> QED
      BY <2>2, <3>1 DEF Querying!Precedes, Querying!After, Querying!InOrder
  <2>3. CASE ~Querying!Sorted
    BY <1>1, <2>3 DEF Querying!Precedes, Querying!After, Querying!InOrder
  <2>4. CASE Querying!Sorted /\ a.rank # b.rank
    BY <2>4 DEF Querying!Precedes, Querying!After
  <2> QED
    BY <2>1, <2>2, <2>3, <2>4
<1>4. a.id # b.id => Querying!Precedes(a, b) \/ Querying!Precedes(b, a)
  <2>1. CASE Querying!Down
    BY <2>1 DEF Querying!Precedes, Querying!Down
  <2>2. CASE ~Querying!Down
    BY <2>2 DEF Querying!Precedes, Querying!Down
  <2> QED
    BY <2>1, <2>2
<1>5. ASSUME Querying!Precedes(a, b), Querying!Precedes(b, c) PROVE Querying!Precedes(a, c)
  <2>1. CASE Querying!Down
    BY <1>5, <2>1 DEF Querying!Precedes, Querying!Down
  <2>2. CASE ~Querying!Down
    BY <1>5, <2>2 DEF Querying!Precedes, Querying!Down
  <2> QED
    BY <2>1, <2>2
<1> QED
  BY <1>2, <1>3, <1>4, <1>5

(* The order of the records, as pairs. *)
IndexBy == {p \in Querying!Ids \X Querying!Ids : Querying!Precedes(Querying!Key(p[1]), Querying!Key(p[2]))}

(* The order of a traversal is one on the records. *)
LEMMA IndexOrdered ==
  ASSUME Querying!TypeOK, NEW S \in SUBSET Querying!Ids
  PROVE  /\ IndexOrders(IndexBy, S) /\ IsFiniteSet(S)
         /\ \A x, y \in Querying!Ids : <<x, y>> \in IndexBy <=> Querying!Precedes(Querying!Key(x), Querying!Key(y))
<1>1. \A x, y \in Querying!Ids : <<x, y>> \in IndexBy <=> Querying!Precedes(Querying!Key(x), Querying!Key(y))
  BY DEF IndexBy
<1>2. \A x \in S : <<x, x>> \notin IndexBy
  BY <1>1, IndexKeys, IndexKeysCompare
<1>3. \A x, y, z \in S : <<x, y>> \in IndexBy /\ <<y, z>> \in IndexBy => <<x, z>> \in IndexBy
  <2> SUFFICES ASSUME NEW x \in S, NEW y \in S, NEW z \in S, Querying!Precedes(Querying!Key(x), Querying!Key(y)), Querying!Precedes(Querying!Key(y), Querying!Key(z))
               PROVE  Querying!Precedes(Querying!Key(x), Querying!Key(z))
    BY <1>1
  <2> QED
    BY IndexKeys, IndexKeysCompare
<1>4. \A x, y \in S : x # y => <<x, y>> \in IndexBy \/ <<y, x>> \in IndexBy
  <2> SUFFICES ASSUME NEW x \in S, NEW y \in S, x # y
               PROVE  Querying!Precedes(Querying!Key(x), Querying!Key(y)) \/ Querying!Precedes(Querying!Key(y), Querying!Key(x))
    BY <1>1
  <2> QED
    BY IndexKeys, IndexKeysCompare
<1> QED
  BY <1>1, <1>2, <1>3, <1>4, IndexNumbers, FS_Subset DEF IndexOrders

(* A statement's LIMIT takes the first rows in the order. *)
LEMMA IndexFirstKeysAre ==
  ASSUME Querying!TypeOK, NEW S \in SUBSET Querying!Ids, NEW n \in Nat
  PROVE  IndexIsFirst(Querying!FirstKeys(n, S), n, S, IndexBy)
<1>1. \A r \in S : {s \in S : Querying!Precedes(Querying!Key(s), Querying!Key(r))} = {s \in S : <<s, r>> \in IndexBy}
  BY IndexOrdered
<1>2. Querying!FirstKeys(n, S) = {r \in S : Cardinality({s \in S : <<s, r>> \in IndexBy}) < n}
  BY <1>1, IndexCounts DEF Querying!FirstKeys
<1> QED
  BY <1>2, IndexOrdered, IndexFirstsAre

(* What a page may return, were it not for its limits. *)
IndexFound ==
  {r \in Querying!Ids : Querying!Ahead(r) /\ IF ~Querying!Sorted \/ s7.q.filter # 0 THEN Querying!Live(r) /\ Querying!Matches(s7.q, r) ELSE s4[r] # Querying!NoRow}

(* A page's candidates are the first of them, though each rank is cut by itself. *)
LEMMA IndexCandidatesAre ==
  ASSUME Querying!Inv
  PROVE  IndexIsFirst(Querying!Candidates, s7.q.limit + 1, IndexFound, IndexBy)
<1>0. Querying!TypeOK /\ s7.q.limit + 1 \in Nat /\ IndexFound \in SUBSET Querying!Ids
  BY DEF Querying!Inv, Querying!TypeOK, Querying!Query, IndexFound
<1>1. CASE ~Querying!Sorted \/ s7.q.filter # 0
  <2>1. Querying!Candidates = Querying!FirstKeys(s7.q.limit + 1, IndexFound)
    BY <1>1 DEF Querying!Candidates, IndexFound
  <2> QED
    BY <1>0, <2>1, IndexFirstKeysAre
<1>2. CASE Querying!Sorted /\ s7.q.filter = 0
  <2> DEFINE n == s7.q.limit + 1
             Part(k) == {r \in Querying!Ids : s4[r] # Querying!NoRow /\ Querying!Rank(s4[r]) = k /\ Querying!Ahead(r)}
             U == UNION {Querying!FirstKeys(n, Part(k)) : k \in 0..2}
  <2>1. \A k \in 0..2 : Part(k) \in SUBSET IndexFound
    BY <1>2 DEF IndexFound
  <2>2. \A k \in 0..2 : IndexIsFirst(Querying!FirstKeys(n, Part(k)), n, Part(k), IndexBy)
    <3> SUFFICES ASSUME NEW k \in 0..2 PROVE IndexIsFirst(Querying!FirstKeys(n, Part(k)), n, Part(k), IndexBy)
      OBVIOUS
    <3>1. Part(k) \in SUBSET Querying!Ids
      OBVIOUS
    <3> HIDE DEF Part
    <3> QED
      BY <1>0, <3>1, IndexFirstKeysAre
  <2>3. U \in SUBSET IndexFound
    <3> HIDE DEF Part
    <3> QED
      BY <2>1, <2>2 DEF IndexIsFirst
  <2>4. {r \in U : Querying!Live(r)} = U
    <3>1. \A r \in IndexFound : Querying!Live(r)
      BY <1>2 DEF IndexFound, Querying!Inv, Querying!NothingLeftBehind
    <3> QED
      BY <2>3, <3>1
  <2>5. Querying!Candidates = Querying!FirstKeys(n, U)
    <3>1. Querying!Candidates = Querying!FirstKeys(n, {r \in U : Querying!Live(r)})
      BY <1>2 DEF Querying!Candidates
    <3> QED
      BY <2>4, <3>1
  <2>6. ASSUME NEW r \in IndexFound \ U
        PROVE  \E F \in SUBSET U : IsFiniteSet(F) /\ Cardinality(F) = n /\ \A s \in F : <<s, r>> \in IndexBy
    <3>1. r \in Part(Querying!Rank(s4[r])) /\ Querying!Rank(s4[r]) \in 0..2
      <4>1. s4[r] \in Nat
        BY <1>0, IndexNumbers DEF Querying!TypeOK
      <4> QED
        BY <1>2, <4>1 DEF IndexFound, Querying!Rank
    <3> DEFINE F == Querying!FirstKeys(n, Part(Querying!Rank(s4[r])))
    <3>2. IndexIsFirst(F, n, Part(Querying!Rank(s4[r])), IndexBy) /\ F \in SUBSET U
      <4> HIDE DEF Part
      <4> QED
        BY <2>2, <3>1
    <3>3. r \notin F
      BY <3>2
    <3> HIDE DEF F, Part, U
    <3>4. Cardinality(F) = n /\ IsFiniteSet(F) /\ \A s \in F : <<s, r>> \in IndexBy
      BY <1>0, <3>1, <3>2, <3>3, FS_CardinalityType DEF IndexIsFirst
    <3> QED
      BY <3>2, <3>4
  <2>7. IndexIsFirst(Querying!FirstKeys(n, U), n, U, IndexBy) /\ IndexOrders(IndexBy, IndexFound) /\ IsFiniteSet(IndexFound)
    <3>1. U \in SUBSET Querying!Ids
      BY <1>0, <2>3
    <3> HIDE DEF U
    <3> QED
      BY <1>0, <3>1, IndexFirstKeysAre, IndexOrdered
  <2> HIDE DEF U
  <2> QED
    BY <1>0, <2>3, <2>5, <2>6, <2>7, IndexFirstOfParts
<1> QED
  BY <1>1, <1>2

(* What a page returns is the first of what it may return, and all of it when there is no more. *)
LEMMA IndexChosenAre ==
  ASSUME Querying!Inv
  PROVE  /\ Querying!Chosen \in SUBSET IndexFound
         /\ \A r \in IndexFound \ Querying!Chosen, s \in Querying!Chosen : <<s, r>> \in IndexBy
         /\ ~Querying!More => IndexFound \subseteq Querying!Chosen
<1> DEFINE L == s7.q.limit
           F == Querying!FirstKeys(L, Querying!Candidates)
           UpTo(r) == {s \in Querying!Candidates : s = r \/ Querying!Precedes(Querying!Key(s), Querying!Key(r))}
<1>0. Querying!TypeOK /\ L \in Nat \ {0} /\ IndexFound \in SUBSET Querying!Ids
  BY DEF Querying!Inv, Querying!TypeOK, Querying!Query, IndexFound
<1>1. IndexIsFirst(Querying!Candidates, L + 1, IndexFound, IndexBy)
  BY IndexCandidatesAre
<1>2. Querying!Candidates \in SUBSET Querying!Ids /\ Querying!Candidates \in SUBSET IndexFound /\ IsFiniteSet(Querying!Candidates) /\ Cardinality(Querying!Candidates) \in Nat
  BY <1>0, <1>1, FS_CardinalityType DEF IndexIsFirst
<1>3. IndexIsFirst(F, L, Querying!Candidates, IndexBy)
  BY <1>0, <1>2, IndexFirstKeysAre
<1>4. /\ IndexOrders(IndexBy, Querying!Ids) /\ IndexOrders(IndexBy, Querying!Candidates)
      /\ \A x, y \in Querying!Ids : <<x, y>> \in IndexBy <=> Querying!Precedes(Querying!Key(x), Querying!Key(y))
  BY <1>0, <1>2, IndexOrdered
<1>5. \A r : IsFiniteSet(UpTo(r)) /\ Cardinality(UpTo(r)) \in Nat
             /\ IsFiniteSet(UpTo(r) \cap {1}) /\ Cardinality(UpTo(r) \cap {1}) \in Nat
  <2> SUFFICES ASSUME NEW r PROVE IsFiniteSet(UpTo(r)) /\ Cardinality(UpTo(r)) \in Nat
             /\ IsFiniteSet(UpTo(r) \cap {1}) /\ Cardinality(UpTo(r) \cap {1}) \in Nat
    OBVIOUS
  <2>1. UpTo(r) \in SUBSET Querying!Candidates /\ UpTo(r) \cap {1} \in SUBSET Querying!Candidates
    OBVIOUS
  <2> HIDE DEF UpTo
  <2> QED
    BY <1>2, <2>1, FS_Subset, FS_CardinalityType
<1>6. \A r : Querying!Consumed(r) = Cardinality(UpTo(r)) + Cardinality(UpTo(r) \cap {1})
  BY IndexCounts DEF Querying!Consumed, Querying!Bytes
<1>6n. \A r : Querying!Consumed(r) \in Nat
  <2> SUFFICES ASSUME NEW r PROVE Querying!Consumed(r) \in Nat
    OBVIOUS
  <2>1. Cardinality(UpTo(r)) \in Nat /\ Cardinality(UpTo(r) \cap {1}) \in Nat
    BY <1>5
  <2>2. Querying!Consumed(r) = Cardinality(UpTo(r)) + Cardinality(UpTo(r) \cap {1})
    BY <1>6
  <2> HIDE DEF UpTo
  <2> QED
    BY <2>1, <2>2
<1>7. ASSUME NEW r \in Querying!Candidates, NEW s \in Querying!Candidates, <<r, s>> \in IndexBy PROVE Querying!Consumed(r) <= Querying!Consumed(s)
  <2>1. UpTo(r) \in SUBSET UpTo(s) /\ UpTo(r) \cap {1} \in SUBSET (UpTo(s) \cap {1})
    <3> SUFFICES ASSUME NEW x \in Querying!Candidates, x = r \/ Querying!Precedes(Querying!Key(x), Querying!Key(r)) PROVE Querying!Precedes(Querying!Key(x), Querying!Key(s))
      OBVIOUS
    <3>1. x = r \/ <<x, r>> \in IndexBy
      BY <1>2, <1>4
    <3>2. <<x, s>> \in IndexBy
      BY <1>7, <1>2, <1>4, <3>1 DEF IndexOrders
    <3> QED
      BY <1>2, <1>4, <3>2
  <2> HIDE DEF UpTo
  <2>2. /\ Cardinality(UpTo(r)) <= Cardinality(UpTo(s))
        /\ Cardinality(UpTo(r) \cap {1}) <= Cardinality(UpTo(s) \cap {1})
    BY <1>5, <2>1, FS_Subset
  <2>3. /\ Querying!Consumed(r) = Cardinality(UpTo(r)) + Cardinality(UpTo(r) \cap {1})
        /\ Querying!Consumed(s) = Cardinality(UpTo(s)) + Cardinality(UpTo(s) \cap {1})
    BY <1>6
  <2>4. /\ Cardinality(UpTo(r)) \in Nat /\ Cardinality(UpTo(r) \cap {1}) \in Nat
        /\ Cardinality(UpTo(s)) \in Nat /\ Cardinality(UpTo(s) \cap {1}) \in Nat
    BY <1>5
  <2> QED
    BY <2>2, <2>3, <2>4
<1>8. Querying!Chosen = {r \in F : Querying!Consumed(r) <= IndexBytes}
  BY DEF Querying!Chosen
<1>9. ASSUME NEW r \in Querying!Candidates \ Querying!Chosen, NEW s \in Querying!Chosen PROVE <<s, r>> \in IndexBy
  <2>0. s \in F /\ s \in Querying!Candidates /\ Querying!Consumed(s) <= IndexBytes
    BY <1>3, <1>8 DEF IndexIsFirst
  <2>1. CASE r \notin F
    BY <1>3, <2>0, <2>1 DEF IndexIsFirst
  <2>2. CASE r \in F
    <3>1. ~(Querying!Consumed(r) <= IndexBytes)
      BY <1>8, <2>2
    <3>2. r # s /\ ~(<<r, s>> \in IndexBy)
      <4>1. <<r, s>> \in IndexBy => Querying!Consumed(r) <= Querying!Consumed(s)
        BY <1>7, <2>0
      <4>2. Querying!Consumed(r) \in Nat /\ Querying!Consumed(s) \in Nat
        BY <1>6n
      <4> HIDE DEF F, UpTo
      <4> QED
        BY <2>0, <3>1, <4>1, <4>2, IndexNumbers
    <3> QED
      BY <1>4, <2>0, <3>2 DEF IndexOrders
  <2> QED
    BY <2>1, <2>2
<1>10. Querying!Chosen \in SUBSET Querying!Candidates /\ Querying!Chosen \in SUBSET F
  BY <1>3, <1>8 DEF IndexIsFirst
<1>11. ASSUME Querying!Chosen = {} PROVE Querying!Candidates = {}
  <2> SUFFICES ASSUME Querying!Candidates # {} PROVE FALSE
    OBVIOUS
  <2>1. PICK m \in Querying!Candidates : \A s \in Querying!Candidates \ {m} : <<m, s>> \in IndexBy
    BY <1>2, <1>4, IndexFirstOne
  <2>2. UpTo(m) = {m}
    <3> SUFFICES ASSUME NEW x \in Querying!Candidates, x # m, Querying!Precedes(Querying!Key(x), Querying!Key(m)) PROVE FALSE
      OBVIOUS
    <3>1. <<x, m>> \in IndexBy /\ <<m, x>> \in IndexBy
      BY <1>2, <1>4, <2>1
    <3> QED
      BY <1>4, <3>1 DEF IndexOrders
  <2>3. Querying!Consumed(m) <= 2
    <3>1. Cardinality(UpTo(m)) = 1
      BY <2>2, FS_Singleton
    <3>2. UpTo(m) \cap {1} \in SUBSET UpTo(m)
      OBVIOUS
    <3> HIDE DEF UpTo
    <3>3. Cardinality(UpTo(m) \cap {1}) <= 1
      BY <1>5, <3>1, <3>2, FS_Subset
    <3> QED
      BY <1>5, <1>6, <3>1, <3>3
  <2>4. m \in F
    <3> SUFFICES ASSUME m \notin F PROVE FALSE
      OBVIOUS
    <3>1. Cardinality(F) >= L /\ \A s \in F : <<s, m>> \in IndexBy
      BY <1>3 DEF IndexIsFirst
    <3>2. F # {}
      <4> HIDE DEF F
      <4> QED
        BY <1>0, <3>1, FS_EmptySet
    <3>3. PICK f \in F : f \in Querying!Candidates /\ f # m
      BY <1>3, <3>2 DEF IndexIsFirst
    <3>4. <<f, m>> \in IndexBy /\ <<m, f>> \in IndexBy
      BY <2>1, <3>1, <3>3
    <3> QED
      BY <1>4, <3>3, <3>4 DEF IndexOrders
  <2>5. Querying!Consumed(m) \in Nat
    BY <1>6n
  <2>6. Querying!Consumed(m) <= IndexBytes
    BY <2>3, <2>5, IndexNumbers
  <2> QED
    BY <1>8, <1>11, <2>4, <2>6
<1>12. ASSUME ~Querying!More, NEW r \in IndexFound \ Querying!Chosen PROVE FALSE
  <2>1. Querying!Chosen = Querying!Candidates
    BY <1>11, <1>12 DEF Querying!More
  <2>2. Cardinality(Querying!Candidates) >= L + 1
    BY <1>1, <1>12, <2>1 DEF IndexIsFirst
  <2>3. Cardinality(Querying!Candidates) <= Cardinality(F) /\ Cardinality(F) <= L /\ Cardinality(F) \in Nat
    <3>1. IsFiniteSet(F) /\ Cardinality(F) <= L /\ Querying!Candidates \in SUBSET F
      BY <1>3, <1>10, <2>1 DEF IndexIsFirst
    <3> HIDE DEF F
    <3> QED
      BY <3>1, FS_Subset, FS_CardinalityType
  <2> HIDE DEF F
  <2> QED
    BY <1>0, <1>2, <2>2, <2>3
<1>13. ASSUME NEW r \in IndexFound \ Querying!Chosen, NEW s \in Querying!Chosen PROVE <<s, r>> \in IndexBy
  BY <1>1, <1>9, <1>10 DEF IndexIsFirst
<1> QED
  BY <1>2, <1>10, <1>12, <1>13

(* A batch reads the first rows of its snapshot. *)
LEMMA IndexFirstsOfIds ==
  ASSUME NEW S \in SUBSET Querying!Ids, NEW n \in Nat
  PROVE  /\ Querying!First(n, S) \subseteq S /\ IsFiniteSet(Querying!First(n, S))
         /\ \A r \in S \ Querying!First(n, S) : Cardinality(Querying!First(n, S)) >= n /\ \A s \in Querying!First(n, S) : s < r
<1> DEFINE Less == {p \in Querying!Ids \X Querying!Ids : p[1] < p[2]}
<1>1. \A x, y \in Querying!Ids : <<x, y>> \in Less <=> x < y
  OBVIOUS
<1> HIDE DEF Less
<1>2. IndexOrders(Less, S) /\ IsFiniteSet(S)
  <2>1. \A x \in S : x \in Querying!Ids /\ x \in Nat
    BY IndexNumbers
  <2>2. \A x, y, z \in S : x < y /\ y < z => x < z
    BY <2>1
  <2>3. \A x, y \in S : x # y => x < y \/ y < x
    BY <2>1
  <2>4. \A x \in S : ~(x < x)
    BY <2>1
  <2> QED
    BY <1>1, <2>1, <2>2, <2>3, <2>4, IndexNumbers, FS_Subset DEF IndexOrders
<1>3. Querying!First(n, S) = {r \in S : Cardinality({s \in S : <<s, r>> \in Less}) < n}
  <2>1. \A r \in S : {s \in S : s < r} = {s \in S : <<s, r>> \in Less}
    BY <1>1
  <2> QED
    BY <2>1, IndexCounts DEF Querying!First
<1>4. IndexIsFirst(Querying!First(n, S), n, S, Less)
  BY <1>2, <1>3, IndexFirstsAre
<1> QED
  BY <1>1, <1>4 DEF IndexIsFirst

(* A finite set of numbers has a greatest one. *)
LEMMA IndexGreatestOf ==
  ASSUME NEW n \in 0 .. IndexRecords, NEW S \in SUBSET Querying!Ids
  PROVE  Querying!Max({n} \union S) \in {n} \union S /\ \A q \in {n} \union S : q <= Querying!Max({n} \union S)
<1>t. PICK T : T = {n} \union S
  OBVIOUS
<1>l. PICK Less : Less = {p \in T \X T : p[1] < p[2]}
  OBVIOUS
<1>1. T \in SUBSET Nat /\ T # {} /\ IsFiniteSet(T)
  <2>1. IsFiniteSet({n}) /\ IsFiniteSet(S)
    BY IndexNumbers, FS_Singleton, FS_Subset
  <2>2. IsFiniteSet({n} \union S)
    BY <2>1, FS_Union
  <2> QED
    BY <1>t, <2>2, IndexNumbers
<1>2. \A x, y \in T : <<x, y>> \in Less <=> x < y
  BY <1>l
<1>3. IndexOrders(Less, T)
  BY <1>1, <1>2 DEF IndexOrders
<1>4. PICK m \in T : \A s \in T \ {m} : <<s, m>> \in Less
  <2>1. IsFiniteSet(T) /\ T # {}
    BY <1>1
  <2> QED
    BY <1>3, <2>1, IndexLastOne
<1>5. \A q \in T : m >= q
  <2> SUFFICES ASSUME NEW q \in T PROVE m >= q
    OBVIOUS
  <2>1. q = m \/ q < m
    BY <1>2, <1>4
  <2> QED
    BY <1>1, <2>1
<1>6. Querying!Max(T) \in T /\ \A q \in T : Querying!Max(T) >= q
  BY <1>5 DEF Querying!Max
<1> QED
  BY <1>1, <1>t, <1>6

(* Before anything is written, no row is in the index. *)
LEMMA IndexInitInv == Querying!Init => Querying!Inv
<1> SUFFICES ASSUME Querying!Init PROVE Querying!Inv
  OBVIOUS
<1> USE IndexNumbers DEF Querying!Init
<1>1. Querying!TypeOK
  <2>1. Querying!NoRecord \in Querying!Record /\ s3 \in [Querying!Ids -> Querying!Record]
    BY DEF Querying!NoRecord, Querying!Record, Querying!FieldValues
  <2>2. Querying!NoReader.q \in Querying!Query /\ Querying!NoCursor \in Querying!KeyOf
    BY DEF Querying!NoReader, Querying!Query, Querying!NoCursor, Querying!KeyOf
  <2> QED
    BY <2>1, <2>2 DEF Querying!TypeOK, Querying!NoWrite, Querying!NoFill, Querying!NoReader,
      Querying!Ids
<1>2. Querying!ReadyIsExact /\ Querying!NothingLeftBehind /\ Querying!BesideFill
  BY DEF Querying!ReadyIsExact, Querying!NothingLeftBehind, Querying!BesideFill, Querying!NoFill,
    Querying!Declared
<1>3. Querying!ToBeFound /\ Querying!CursorDivides /\ Querying!TraversalIsComplete /\ Querying!TraversalRepeatsNothing
  BY DEF Querying!ToBeFound, Querying!CursorDivides, Querying!TraversalIsComplete,
    Querying!TraversalRepeatsNothing, Querying!NoReader
<1> QED
  BY <1>1, <1>2, <1>3 DEF Querying!Inv

(* A traversal keeps its place while what it has seen, and is to see, stays as it is. *)
LEMMA IndexTraversalKeeps ==
  ASSUME Querying!Inv, NEW seen \in SUBSET s7.seen, NEW stable \in SUBSET s7.stable,
         s7' = [s7 EXCEPT !.seen = seen, !.stable = stable], stable \intersect s7.seen \subseteq seen,
         \A r \in seen \union stable : s3'[r] = s3[r] /\ (Querying!Uses(s7.q) => s4'[r] = s4[r]),
         s2.st = "ready" => s2'.st = "ready"
  PROVE  Querying!ToBeFound' /\ Querying!CursorDivides' /\ Querying!TraversalIsComplete' /\ Querying!TraversalRepeatsNothing'
<1>1. /\ s7'.pc = s7.pc /\ s7'.q = s7.q /\ s7'.cursor = s7.cursor /\ s7'.first = s7.first
      /\ s7'.repeated = s7.repeated /\ s7'.seen = seen /\ s7'.stable = stable
  BY DEF Querying!Inv, Querying!TypeOK
<1>2. Querying!Sorted' = Querying!Sorted /\ Querying!Down' = Querying!Down /\ (Querying!Sorted => Querying!Uses(s7.q))
  BY <1>1 DEF Querying!Sorted, Querying!Down, Querying!Uses
<1>3. \A r \in seen \union stable : Querying!Key(r)' = Querying!Key(r)
  BY <1>2 DEF Querying!Key
<1>4. \A r \in seen \union stable : Querying!Ahead(r)' = Querying!Ahead(r)
  BY <1>1, <1>2, <1>3 DEF Querying!Ahead, Querying!After
<1>5. Querying!ToBeFound'
  BY <1>1 DEF Querying!Inv, Querying!ToBeFound, Querying!Live, Querying!Uses
<1>6. Querying!CursorDivides'
  BY <1>1, <1>2, <1>4 DEF Querying!Inv, Querying!CursorDivides, Querying!InOrder
<1>7. Querying!TraversalIsComplete' /\ Querying!TraversalRepeatsNothing'
  BY <1>1 DEF Querying!Inv, Querying!TraversalIsComplete, Querying!TraversalRepeatsNothing
<1> QED
  BY <1>5, <1>6, <1>7

(* So it does while nothing it reads changes. *)
LEMMA IndexTraversalRests ==
  ASSUME Querying!Inv, s7' = s7, s3' = s3, s4' = s4, s2.st = "ready" => s2'.st = "ready"
  PROVE  Querying!ToBeFound' /\ Querying!CursorDivides' /\ Querying!TraversalIsComplete' /\ Querying!TraversalRepeatsNothing'
<1>1. s7' = [s7 EXCEPT !.seen = s7.seen, !.stable = s7.stable]
  BY DEF Querying!Inv, Querying!TypeOK
<1> QED
  BY <1>1, IndexTraversalKeeps

(* A new version declares the field while no write or batch goes on. *)
LEMMA IndexReviseKeeps == ASSUME Querying!Inv, Querying!Revise PROVE Querying!Inv'
<1>1. Querying!TypeOK'
  BY IndexNumbers DEF Querying!Inv, Querying!TypeOK, Querying!Revise
<1>2. Querying!ReadyIsExact' /\ Querying!NothingLeftBehind' /\ Querying!BesideFill'
  BY DEF Querying!Inv, Querying!TypeOK, Querying!Revise, Querying!ReadyIsExact,
    Querying!NothingLeftBehind, Querying!BesideFill, Querying!Declared, Querying!Live, Querying!Ids
<1>3. Querying!ToBeFound' /\ Querying!CursorDivides' /\ Querying!TraversalIsComplete' /\ Querying!TraversalRepeatsNothing'
  BY IndexTraversalRests DEF Querying!Revise
<1> QED
  BY <1>1, <1>2, <1>3 DEF Querying!Inv

(* A write changes nothing before its commit, nor does one that rolls back. *)
LEMMA IndexWriteKeeps == ASSUME Querying!Inv, NEW w \in IndexWriters, NEW r \in Querying!Ids, Querying!Write(w, r) PROVE Querying!Inv'
<1>1. Querying!TypeOK'
  <2>1. \A v \in Querying!FieldValues : [st |-> "live", val |-> v, at |-> s8 + 1] \in Querying!Record
    BY DEF Querying!Record, Querying!Inv, Querying!TypeOK
  <2>2. Querying!Written(r) \in SUBSET Querying!Record
    BY <2>1 DEF Querying!Written, Querying!Record, Querying!Inv, Querying!TypeOK
  <2>3. PICK rec \in Querying!Record, old \in BOOLEAN :
            s5' = [s5 EXCEPT ![w] = [pc |-> "wrote", r |-> r, rec |-> rec, declared |-> Querying!Declared, old |-> old]]
    BY <2>2 DEF Querying!Write
  <2>4. Querying!Declared \in BOOLEAN
    BY DEF Querying!Declared
  <2>5. s5' \in [IndexWriters -> [pc : {"idle", "wrote"}, r : Querying!Ids, rec : Querying!Record, declared : BOOLEAN, old : BOOLEAN]]
    BY <2>3, <2>4 DEF Querying!Inv, Querying!TypeOK
  <2>6. s8' \in Nat /\ s9' \in Nat
    BY DEF Querying!Write, Querying!Inv, Querying!TypeOK
  <2> QED
    BY <2>5, <2>6 DEF Querying!Write, Querying!Inv, Querying!TypeOK
<1>2. Querying!ReadyIsExact' /\ Querying!NothingLeftBehind' /\ Querying!BesideFill'
  BY DEF Querying!Inv, Querying!Write, Querying!ReadyIsExact, Querying!NothingLeftBehind,
    Querying!BesideFill, Querying!Declared, Querying!Live
<1>3. Querying!ToBeFound' /\ Querying!CursorDivides' /\ Querying!TraversalIsComplete' /\ Querying!TraversalRepeatsNothing'
  BY IndexTraversalRests DEF Querying!Write
<1> QED
  BY <1>1, <1>2, <1>3 DEF Querying!Inv

(* A writer that is done is as it was at first. *)
LEMMA IndexWritersEnd ==
  ASSUME Querying!TypeOK, NEW w \in IndexWriters, s5' = [s5 EXCEPT ![w] = Querying!NoWrite]
  PROVE  s5' \in [IndexWriters -> [pc : {"idle", "wrote"}, r : Querying!Ids, rec : Querying!Record, declared : BOOLEAN, old : BOOLEAN]]
<1>1. Querying!NoWrite \in [pc : {"idle", "wrote"}, r : Querying!Ids, rec : Querying!Record, declared : BOOLEAN, old : BOOLEAN]
  BY IndexNumbers DEF Querying!NoWrite, Querying!NoRecord, Querying!Record, Querying!FieldValues,
    Querying!Ids
<1> QED
  BY <1>1 DEF Querying!TypeOK

(* A write taken back leaves everything as it was. *)
LEMMA IndexRollbackKeeps == ASSUME Querying!Inv, NEW w \in IndexWriters, Querying!Rollback(w) PROVE Querying!Inv'
<1>1. Querying!TypeOK'
  <2>1. Querying!TypeOK /\ s10' \in Nat
    BY DEF Querying!Rollback, Querying!Inv, Querying!TypeOK, Querying!Fault
  <2> QED
    BY <2>1, IndexWritersEnd DEF Querying!Rollback, Querying!TypeOK
<1>2. Querying!ReadyIsExact' /\ Querying!NothingLeftBehind' /\ Querying!BesideFill'
  BY DEF Querying!Inv, Querying!Rollback, Querying!ReadyIsExact, Querying!NothingLeftBehind,
    Querying!BesideFill, Querying!Declared, Querying!Live
<1>3. Querying!ToBeFound' /\ Querying!CursorDivides' /\ Querying!TraversalIsComplete' /\ Querying!TraversalRepeatsNothing'
  BY IndexTraversalRests DEF Querying!Rollback
<1> QED
  BY <1>1, <1>2, <1>3 DEF Querying!Inv

(* A write that commits leaves a row for a live record of a declared field, and no other. *)
LEMMA IndexCommitKeeps == ASSUME Querying!Inv, NEW w \in IndexWriters, Querying!Commit(w) PROVE Querying!Inv'
<1> DEFINE x == s5[w]
<1>1. /\ x.r \in Querying!Ids /\ x.rec \in Querying!Record /\ Querying!Projected(x) /\ Querying!Row(x) \in Querying!FieldValues \union {Querying!NoRow}
      /\ s3' = [s3 EXCEPT ![x.r] = x.rec] /\ s4' = [s4 EXCEPT ![x.r] = Querying!Row(x)]
      /\ s7' = Querying!Changed(x.r) /\ s5' = [s5 EXCEPT ![w] = Querying!NoWrite]
      /\ UNCHANGED <<s1, s2, s6, s8, s9, s10>>
  BY DEF Querying!Commit, Querying!Inv, Querying!TypeOK, Querying!Row, Querying!Record
<1>2. /\ Querying!Row(x) # Querying!NoRow => x.rec.st = "live" /\ Querying!Row(x) = x.rec.val
      /\ x.rec.st = "live" /\ Querying!Declared => Querying!Row(x) # Querying!NoRow
  BY <1>1 DEF Querying!Row, Querying!Projected
<1> HIDE DEF x
<1>3. Querying!TypeOK'
  <2>1. s5' \in [IndexWriters -> [pc : {"idle", "wrote"}, r : Querying!Ids, rec : Querying!Record, declared : BOOLEAN, old : BOOLEAN]]
    BY <1>1, IndexWritersEnd DEF Querying!Inv
  <2>2. s3' \in [Querying!Ids -> Querying!Record] /\ s4' \in [Querying!Ids -> Querying!FieldValues \union {Querying!NoRow}]
    BY <1>1 DEF Querying!Inv, Querying!TypeOK
  <2> QED
    BY <1>1, <2>1, <2>2 DEF Querying!Inv, Querying!TypeOK, Querying!Changed
<1>4. /\ \A r \in Querying!Ids : r # x.r => s3'[r] = s3[r] /\ s4'[r] = s4[r]
      /\ s3'[x.r] = x.rec /\ s4'[x.r] = Querying!Row(x)
  BY <1>1 DEF Querying!Inv, Querying!TypeOK
<1>5. Querying!ReadyIsExact'
  BY <1>1, <1>2, <1>4 DEF Querying!Inv, Querying!ReadyIsExact, Querying!Live, Querying!Declared
<1>6. Querying!NothingLeftBehind' /\ Querying!BesideFill'
  BY <1>1, <1>2, <1>4 DEF Querying!Inv, Querying!NothingLeftBehind, Querying!BesideFill,
    Querying!Live, Querying!Declared
<1>7. Querying!ToBeFound' /\ Querying!CursorDivides' /\ Querying!TraversalIsComplete' /\ Querying!TraversalRepeatsNothing'
  <2> DEFINE seen == s7.seen \ {x.r}
             stable == s7.stable \ {x.r}
  <2>1. s7' = [s7 EXCEPT !.seen = seen, !.stable = stable]
    BY <1>1 DEF Querying!Changed
  <2>2. \A r \in seen \union stable : r \in Querying!Ids /\ r # x.r
    BY DEF Querying!Inv, Querying!TypeOK
  <2>3. \A r \in seen \union stable : s3'[r] = s3[r] /\ s4'[r] = s4[r]
    BY <1>4, <2>2
  <2>4. seen \in SUBSET s7.seen /\ stable \in SUBSET s7.stable /\ stable \intersect s7.seen \subseteq seen
    OBVIOUS
  <2> HIDE DEF seen, stable
  <2> QED
    <3>1. s2.st = "ready" => s2'.st = "ready"
      BY <1>1
    <3> QED
      BY <2>1, <2>3, <2>4, <3>1, IndexTraversalKeeps
<1> QED
  BY <1>3, <1>5, <1>6, <1>7 DEF Querying!Inv

(* A batch begins with the live records it has not passed. *)
LEMMA IndexBeginBatchKeeps == ASSUME Querying!Inv, Querying!BeginBatch PROVE Querying!Inv'
<1>1. Querying!TypeOK'
  BY DEF Querying!Inv, Querying!TypeOK, Querying!BeginBatch
<1>2. Querying!ReadyIsExact' /\ Querying!NothingLeftBehind' /\ Querying!BesideFill'
  BY DEF Querying!Inv, Querying!TypeOK, Querying!BeginBatch, Querying!ReadyIsExact,
    Querying!NothingLeftBehind, Querying!BesideFill, Querying!Declared, Querying!Live
<1>3. Querying!ToBeFound' /\ Querying!CursorDivides' /\ Querying!TraversalIsComplete' /\ Querying!TraversalRepeatsNothing'
  BY IndexTraversalRests DEF Querying!BeginBatch
<1> QED
  BY <1>1, <1>2, <1>3 DEF Querying!Inv

(* So does a batch that fails. *)
LEMMA IndexFailBatchKeeps == ASSUME Querying!Inv, Querying!FailBatch PROVE Querying!Inv'
<1>1. Querying!TypeOK'
  BY IndexNumbers DEF Querying!Inv, Querying!TypeOK, Querying!FailBatch, Querying!NoFill,
    Querying!Fault
<1>2. Querying!ReadyIsExact' /\ Querying!NothingLeftBehind' /\ Querying!BesideFill'
  BY DEF Querying!Inv, Querying!FailBatch, Querying!NoFill, Querying!ReadyIsExact,
    Querying!NothingLeftBehind, Querying!BesideFill, Querying!Declared, Querying!Live
<1>3. Querying!ToBeFound' /\ Querying!CursorDivides' /\ Querying!TraversalIsComplete' /\ Querying!TraversalRepeatsNothing'
  BY IndexTraversalRests DEF Querying!FailBatch
<1> QED
  BY <1>1, <1>2, <1>3 DEF Querying!Inv

(* A batch gives every row it read its value: what it passes is in the index, *)
(* by its snapshot or by a write beside it.                                   *)
LEMMA IndexFinishBatchKeeps == ASSUME Querying!Inv, Querying!FinishBatch PROVE Querying!Inv'
<1> DEFINE S == {r \in s6.snap : Querying!Live(r)}
           rows == Querying!First(IndexBatch, S)
<1>0. Querying!TypeOK /\ S \in SUBSET Querying!Ids /\ IndexBatch \in Nat /\ rows = Querying!BatchRows
  BY IndexNumbers DEF Querying!Inv, Querying!TypeOK, Querying!BatchRows
<1>1. /\ rows \subseteq S
      /\ \A r \in S \ rows : Cardinality(rows) >= IndexBatch /\ \A s \in rows : s < r
  BY <1>0, IndexFirstsOfIds
<1>2. /\ s6.pc = "read" /\ s2.st = "pending"
      /\ s2' = [st |-> IF Querying!IsLast(rows) THEN "ready" ELSE "pending", after |-> Querying!Reached(rows)]
      /\ s4' = [r \in Querying!Ids |-> IF r \in rows /\ s4[r] = Querying!NoRow THEN s3[r].val ELSE s4[r]]
      /\ s6' = Querying!NoFill /\ UNCHANGED <<s1, s3, s5, s7, s8, s9, s10>>
  BY <1>0 DEF Querying!FinishBatch, Querying!Inv, Querying!BesideFill
<1>3. Querying!Reached(rows) \in {s2.after} \union rows /\ \A q \in {s2.after} \union rows : q <= Querying!Reached(rows)
  BY <1>0, <1>1, IndexGreatestOf DEF Querying!Reached, Querying!TypeOK
<1>4. Querying!IsLast(rows) => S \subseteq rows
  <2> SUFFICES ASSUME Querying!IsLast(rows), NEW r \in S \ rows PROVE FALSE
    OBVIOUS
  <2>1. Cardinality(rows) < IndexBatch /\ Cardinality(rows) >= IndexBatch
    BY <1>1, IndexCounts DEF Querying!IsLast
  <2>2. Cardinality(rows) \in Nat
    BY <1>0, IndexFirstsOfIds, FS_CardinalityType
  <2> HIDE DEF rows
  <2> QED
    BY <1>0, <2>1, <2>2
<1>r. \A r \in rows : r \in Querying!Ids /\ Querying!Live(r) /\ r \in Nat /\ s3[r].val # Querying!NoRow
  <2>1. \A r \in rows : r \in S /\ Querying!Live(r)
    BY <1>1
  <2> HIDE DEF rows, S
  <2> QED
    <3> SUFFICES ASSUME NEW r \in rows PROVE r \in Querying!Ids /\ Querying!Live(r) /\ r \in Nat /\ s3[r].val # Querying!NoRow
      OBVIOUS
    <3>1. r \in Querying!Ids /\ Querying!Live(r)
      BY <1>0, <2>1
    <3> QED
      BY <1>0, <3>1, IndexNumbers DEF Querying!TypeOK, Querying!Record
<1>s. \A r \in Querying!Ids : Querying!Live(r) /\ r > s2.after => r \in S \/ s4[r] # Querying!NoRow
  BY <1>2 DEF Querying!Inv, Querying!BesideFill
<1> HIDE DEF rows, S
<1>5. Querying!TypeOK'
  <2>1. Querying!Reached(rows) \in 0 .. IndexRecords
    BY <1>0, <1>3, <1>r DEF Querying!TypeOK, Querying!Ids
  <2> QED
    BY <1>0, <1>2, <2>1 DEF Querying!TypeOK, Querying!Record, Querying!NoFill
<1>6. \A r \in Querying!Ids : /\ s4'[r] # Querying!NoRow => Querying!Live(r) /\ s4'[r] = s3[r].val
                              /\ s4[r] # Querying!NoRow \/ r \in rows => s4'[r] # Querying!NoRow
  BY <1>2, <1>r DEF Querying!Inv, Querying!NothingLeftBehind
<1>7. Querying!NothingLeftBehind'
  <2> SUFFICES ASSUME NEW r \in Querying!Ids, Querying!Live(r), r <= Querying!Reached(rows) PROVE s4'[r] # Querying!NoRow
    BY <1>2, <1>6 DEF Querying!NothingLeftBehind, Querying!Live
  <2>0. r \in Nat /\ s2.after \in Nat
    BY <1>0, IndexNumbers DEF Querying!TypeOK
  <2>1. CASE r <= s2.after
    BY <1>2, <1>6, <2>1 DEF Querying!Inv, Querying!NothingLeftBehind, Querying!Declared
  <2>2. CASE r > s2.after
    <3>1. Querying!Reached(rows) \in rows
      BY <1>3, <2>0, <2>2
    <3>2. r \in S => r \in rows
      <4> SUFFICES ASSUME r \in S \ rows PROVE FALSE
        OBVIOUS
      <4>1. Querying!Reached(rows) < r /\ Querying!Reached(rows) \in Nat
        BY <1>1, <1>r, <3>1
      <4> QED
        BY <2>0, <4>1
    <3> QED
      BY <1>6, <1>s, <2>2, <3>2
  <2> QED
    BY <2>0, <2>1, <2>2
<1>8. Querying!ReadyIsExact'
  <2> SUFFICES ASSUME Querying!IsLast(rows), NEW r \in Querying!Ids, Querying!Live(r) PROVE s4'[r] # Querying!NoRow
    BY <1>2, <1>6 DEF Querying!ReadyIsExact, Querying!Live
  <2>0. r \in Nat /\ s2.after \in Nat
    BY <1>0, IndexNumbers DEF Querying!TypeOK
  <2>1. CASE r <= s2.after
    BY <1>2, <1>6, <2>1 DEF Querying!Inv, Querying!NothingLeftBehind, Querying!Declared
  <2>2. CASE r > s2.after
    BY <1>4, <1>6, <1>s, <2>2
  <2> QED
    BY <2>0, <2>1, <2>2
<1>9. Querying!BesideFill'
  BY <1>2 DEF Querying!BesideFill, Querying!NoFill
<1>10. Querying!ToBeFound' /\ Querying!CursorDivides' /\ Querying!TraversalIsComplete' /\ Querying!TraversalRepeatsNothing'
  <2>1. s7.pc # "idle" => ~Querying!Uses(s7.q)
    BY <1>2 DEF Querying!Inv, Querying!ToBeFound
  <2>2. CASE s7.pc = "idle"
    BY <1>2, <2>2 DEF Querying!Inv, Querying!ToBeFound, Querying!CursorDivides,
      Querying!TraversalIsComplete, Querying!TraversalRepeatsNothing, Querying!Live
  <2>3. CASE s7.pc # "idle"
    <3>1. s7' = [s7 EXCEPT !.seen = s7.seen, !.stable = s7.stable]
      BY <1>0, <1>2 DEF Querying!TypeOK
    <3> QED
      BY <1>2, <2>1, <2>3, <3>1, IndexTraversalKeeps
  <2> QED
    BY <2>2, <2>3
<1> QED
  BY <1>5, <1>7, <1>8, <1>9, <1>10 DEF Querying!Inv

(* A traversal starts with all that it is to see ahead of it. *)
LEMMA IndexStartKeeps == ASSUME Querying!Inv, NEW q \in IndexQueries, Querying!Start(q) PROVE Querying!Inv'
<1> DEFINE stable == {r \in Querying!Ids : Querying!Live(r) /\ (q.filter = 0 \/ s3[r].val = q.filter)}
<1>1. /\ s7' = [Querying!NoReader EXCEPT !.pc = "page", !.q = q, !.version = s1, !.stable = stable]
      /\ Querying!Uses(q) => s2.st = "ready"
      /\ UNCHANGED <<s1, s2, s3, s4, s5, s6, s8, s9, s10>>
  BY DEF Querying!Start
<1>2. /\ s7'.pc = "page" /\ s7'.q = q /\ s7'.first /\ ~s7'.repeated
      /\ s7'.seen = {} /\ s7'.stable = stable
  BY <1>1 DEF Querying!NoReader
<1>3. Querying!TypeOK'
  <2>1. q \in Querying!Query /\ Querying!NoCursor \in Querying!KeyOf
    BY IndexConstants DEF Querying!QueriesAssumption, Querying!NoCursor, Querying!KeyOf
  <2>2. stable \in SUBSET Querying!Ids
    OBVIOUS
  <2> HIDE DEF stable
  <2> QED
    <3>1. s7' \in [version : Nat, pc : {"idle", "page", "ended"}, q : Querying!Query, cursor : Querying!KeyOf,
                   first : BOOLEAN, seen : SUBSET Querying!Ids, stable : SUBSET Querying!Ids, repeated : BOOLEAN]
      <4>1. s1 \in Nat
        BY DEF Querying!Inv, Querying!TypeOK
      <4> QED
        BY <1>1, <2>1, <2>2, <4>1 DEF Querying!NoReader
    <3> QED
      BY <1>1, <3>1 DEF Querying!Inv, Querying!TypeOK
<1>4. Querying!ReadyIsExact' /\ Querying!NothingLeftBehind' /\ Querying!BesideFill'
  BY <1>1 DEF Querying!Inv, Querying!ReadyIsExact, Querying!NothingLeftBehind, Querying!BesideFill,
    Querying!Declared, Querying!Live
<1>5. Querying!ToBeFound'
  BY <1>1, <1>2 DEF Querying!ToBeFound, Querying!Uses, Querying!Live
<1>6. Querying!CursorDivides' /\ Querying!TraversalIsComplete' /\ Querying!TraversalRepeatsNothing'
  BY <1>2 DEF Querying!CursorDivides, Querying!TraversalIsComplete,
    Querying!TraversalRepeatsNothing, Querying!Ahead
<1> QED
  BY <1>3, <1>4, <1>5, <1>6 DEF Querying!Inv

(* A cursor of another version ends its traversal. *)
LEMMA IndexCursorInvalidKeeps == ASSUME Querying!Inv, Querying!CursorInvalid PROVE Querying!Inv'
<1>1. Querying!TypeOK'
  <2>1. Querying!NoReader.q \in Querying!Query /\ Querying!NoCursor \in Querying!KeyOf
    BY IndexNumbers DEF Querying!NoReader, Querying!Query, Querying!NoCursor, Querying!KeyOf
  <2> QED
    BY <2>1 DEF Querying!Inv, Querying!TypeOK, Querying!CursorInvalid, Querying!NoReader
<1>2. Querying!ReadyIsExact' /\ Querying!NothingLeftBehind' /\ Querying!BesideFill'
  BY DEF Querying!Inv, Querying!CursorInvalid, Querying!ReadyIsExact, Querying!NothingLeftBehind,
    Querying!BesideFill, Querying!Declared, Querying!Live
<1>3. Querying!ToBeFound' /\ Querying!CursorDivides' /\ Querying!TraversalIsComplete' /\ Querying!TraversalRepeatsNothing'
  BY DEF Querying!CursorInvalid, Querying!NoReader, Querying!ToBeFound, Querying!CursorDivides,
    Querying!TraversalIsComplete, Querying!TraversalRepeatsNothing
<1> QED
  BY <1>1, <1>2, <1>3 DEF Querying!Inv

(* What a traversal is to see and has not is what a page may return. *)
LEMMA IndexOwedIsFound ==
  ASSUME Querying!Inv, s7.pc = "page", NEW r \in s7.stable \ s7.seen
  PROVE  r \in IndexFound
<1>1. r \in Querying!Ids /\ Querying!Live(r) /\ Querying!Ahead(r) /\ (s7.q.filter = 0 \/ s3[r].val = s7.q.filter)
  BY DEF Querying!Inv, Querying!TypeOK, Querying!ToBeFound, Querying!CursorDivides
<1>2. CASE Querying!Uses(s7.q)
  <2>1. s4[r] = s3[r].val /\ s3[r].val # Querying!NoRow
    BY <1>1, <1>2, IndexNumbers DEF Querying!Inv, Querying!ToBeFound, Querying!ReadyIsExact,
      Querying!TypeOK, Querying!Record
  <2> QED
    BY <1>1, <2>1 DEF IndexFound, Querying!Matches
<1>3. CASE ~Querying!Uses(s7.q)
  BY <1>1, <1>3 DEF IndexFound, Querying!Matches, Querying!Uses, Querying!Sorted
<1> QED
  BY <1>2, <1>3

(* The last record of a page is one that all the others precede. *)
LEMMA IndexLastIs ==
  ASSUME Querying!TypeOK, NEW S \in SUBSET Querying!Ids, S # {}
  PROVE  Querying!LastOf(S) \in S /\ \A r \in S \ {Querying!LastOf(S)} : <<r, Querying!LastOf(S)>> \in IndexBy
<1>1. IndexOrders(IndexBy, S) /\ IsFiniteSet(S) /\ \A x, y \in Querying!Ids : <<x, y>> \in IndexBy <=> Querying!Precedes(Querying!Key(x), Querying!Key(y))
  BY IndexOrdered
<1>2. PICK m \in S : \A s \in S \ {m} : <<s, m>> \in IndexBy
  BY <1>1, IndexLastOne
<1>3. \A s \in S \ {m} : Querying!Precedes(Querying!Key(s), Querying!Key(m))
  BY <1>1, <1>2
<1>4. Querying!LastOf(S) \in S /\ \A s \in S \ {Querying!LastOf(S)} : Querying!Precedes(Querying!Key(s), Querying!Key(Querying!LastOf(S)))
  BY <1>3 DEF Querying!LastOf
<1> QED
  BY <1>1, <1>4

(* A page moves the cursor past what it returns, and past nothing it owes. *)
LEMMA IndexPageKeeps == ASSUME Querying!Inv, Querying!Page PROVE Querying!Inv'
<1> DEFINE last == Querying!LastOf(Querying!Chosen)
           seen == s7.seen \union Querying!Chosen
<1>1. /\ s7.pc = "page" /\ s7'.q = s7.q /\ s7'.stable = s7.stable /\ s7'.seen = seen
      /\ s7'.repeated = (s7.repeated \/ Querying!Chosen \cap s7.seen # {}) /\ ~s7'.first
      /\ s7'.cursor = IF Querying!Chosen # {} THEN Querying!Key(last) ELSE s7.cursor
      /\ s7'.pc = IF Querying!More THEN "page" ELSE "ended"
      /\ s7'.version = s7.version
      /\ UNCHANGED <<s1, s2, s3, s4, s5, s6, s8, s9, s10>>
  BY DEF Querying!Page, Querying!Inv, Querying!TypeOK
<1>2. /\ Querying!Chosen \in SUBSET IndexFound /\ IndexFound \in SUBSET Querying!Ids /\ \A r \in IndexFound : Querying!Ahead(r)
      /\ \A r \in IndexFound \ Querying!Chosen, s \in Querying!Chosen : <<s, r>> \in IndexBy
      /\ ~Querying!More => IndexFound \subseteq Querying!Chosen
  BY IndexChosenAre DEF IndexFound
<1>3. \A r \in s7.stable \ s7.seen : r \in IndexFound
  BY <1>1, IndexOwedIsFound
<1>4. Querying!Chosen \intersect s7.seen = {}
  BY <1>1, <1>2 DEF Querying!Inv, Querying!CursorDivides
<1>5. Querying!TypeOK'
  <2>1. Querying!Chosen # {} => Querying!Key(last) \in Querying!KeyOf
    BY <1>2, IndexLastIs, IndexKeys DEF Querying!Inv
  <2>2. seen \in SUBSET Querying!Ids
    BY <1>2 DEF Querying!Inv, Querying!TypeOK
  <2>3. s7' \in [version : Nat, pc : {"idle", "page", "ended"}, q : Querying!Query, cursor : Querying!KeyOf,
                 first : BOOLEAN, seen : SUBSET Querying!Ids, stable : SUBSET Querying!Ids, repeated : BOOLEAN]
    <3>1. Querying!Page /\ (Querying!More \in BOOLEAN) /\ (Querying!Chosen \cap s7.seen # {}) \in BOOLEAN
      BY DEF Querying!More
    <3> QED
      BY <2>1, <2>2, <3>1 DEF Querying!Page, Querying!Inv, Querying!TypeOK
  <2> QED
    BY <1>1, <2>3 DEF Querying!Inv, Querying!TypeOK
<1>6. Querying!ReadyIsExact' /\ Querying!NothingLeftBehind' /\ Querying!BesideFill' /\ Querying!ToBeFound'
  BY <1>1 DEF Querying!Inv, Querying!ReadyIsExact, Querying!NothingLeftBehind, Querying!BesideFill,
    Querying!Declared, Querying!Live, Querying!ToBeFound, Querying!Uses
<1>7. Querying!TraversalRepeatsNothing'
  BY <1>1, <1>4 DEF Querying!Inv, Querying!TraversalRepeatsNothing
<1>8. Querying!TraversalIsComplete'
  BY <1>1, <1>2, <1>3 DEF Querying!TraversalIsComplete
<1>9. Querying!CursorDivides'
  <2> SUFFICES ASSUME Querying!More
               PROVE  /\ Querying!InOrder(s7.cursor)'
                      /\ \A r \in seen : ~Querying!Ahead(r)'
                      /\ \A r \in s7.stable \ seen : Querying!Ahead(r)'
    BY <1>1 DEF Querying!CursorDivides
  <2>1. Querying!Chosen # {} /\ last \in Querying!Chosen /\ last \in Querying!Ids /\ Querying!Ahead(last)
        /\ (\A r \in Querying!Chosen \ {last} : <<r, last>> \in IndexBy)
    BY <1>2, IndexLastIs DEF Querying!More, Querying!Inv
  <2>2. Querying!Sorted' = Querying!Sorted /\ Querying!Down' = Querying!Down
    BY <1>1 DEF Querying!Sorted, Querying!Down
  <2>3. \A r \in Querying!Ids : Querying!Key(r)' = Querying!Key(r)
    BY <1>1, <2>2 DEF Querying!Key
  <2>4. \A r \in Querying!Ids : Querying!Ahead(r)' <=> Querying!Precedes(Querying!Key(last), Querying!Key(r))
    <3> SUFFICES ASSUME NEW r \in Querying!Ids PROVE Querying!Ahead(r)' <=> Querying!Precedes(Querying!Key(last), Querying!Key(r))
      OBVIOUS
    <3>1. Querying!Ahead(r)' <=> Querying!After(Querying!Key(last), Querying!Key(r))
      BY <1>1, <2>1, <2>2, <2>3 DEF Querying!Ahead, Querying!After
    <3> QED
      BY <2>1, <3>1, IndexKeys, IndexKeysCompare DEF Querying!Inv
  <2>5. Querying!InOrder(s7.cursor)'
    <3>1. Querying!InOrder(Querying!Key(last))
      BY <2>1, IndexKeys DEF Querying!Inv
    <3> QED
      BY <1>1, <2>1, <2>2, <3>1 DEF Querying!InOrder
  <2>6. ASSUME NEW r \in seen PROVE ~Querying!Precedes(Querying!Key(last), Querying!Key(r))
    <3>0. r \in Querying!Ids /\ Querying!Key(r) \in Querying!KeyOf /\ Querying!InOrder(Querying!Key(r)) /\ Querying!Key(last) \in Querying!KeyOf /\ Querying!InOrder(Querying!Key(last))
      BY <1>2, <2>1, IndexKeys DEF Querying!Inv, Querying!TypeOK
    <3>1. CASE r = last
      BY <3>0, <3>1, IndexKeysCompare
    <3>2. CASE r \in Querying!Chosen \ {last}
      <4>1. Querying!Precedes(Querying!Key(r), Querying!Key(last))
        BY <2>1, <3>0, <3>2, IndexOrdered DEF Querying!Inv
      <4> QED
        BY <3>0, <4>1, IndexKeysCompare
    <3>3. CASE r \in s7.seen
      <4>1. ~s7.first /\ ~Querying!After(s7.cursor, Querying!Key(r)) /\ Querying!After(s7.cursor, Querying!Key(last)) /\ Querying!InOrder(s7.cursor)
        BY <1>1, <2>1, <3>3 DEF Querying!Inv, Querying!CursorDivides, Querying!Ahead
      <4>2. s7.cursor \in Querying!KeyOf
        BY DEF Querying!Inv, Querying!TypeOK
      <4>3. Querying!Precedes(s7.cursor, Querying!Key(last)) /\ ~Querying!Precedes(s7.cursor, Querying!Key(r))
        BY <3>0, <4>1, <4>2, IndexKeysCompare
      <4> QED
        BY <3>0, <4>1, <4>2, <4>3, IndexKeysCompare
    <3> QED
      BY <3>1, <3>2, <3>3
  <2>7. ASSUME NEW r \in s7.stable \ seen PROVE Querying!Precedes(Querying!Key(last), Querying!Key(r))
    <3>1. r \in IndexFound \ Querying!Chosen /\ r \in Querying!Ids
      BY <1>2, <1>3
    <3>2. <<last, r>> \in IndexBy
      BY <1>2, <2>1, <3>1
    <3> QED
      BY <2>1, <3>1, <3>2, IndexOrdered DEF Querying!Inv
  <2>8. seen \in SUBSET Querying!Ids /\ s7.stable \in SUBSET Querying!Ids
    BY <1>2 DEF Querying!Inv, Querying!TypeOK
  <2> HIDE DEF seen, last
  <2> QED
    BY <2>4, <2>5, <2>6, <2>7, <2>8
<1> QED
  BY <1>5, <1>6, <1>7, <1>8, <1>9 DEF Querying!Inv

(* Every step keeps the invariant. *)
LEMMA IndexStepKeeps == ASSUME Querying!Inv, [Querying!Next]_(Querying!vars) PROVE Querying!Inv'
<1>1. CASE UNCHANGED Querying!vars
  <2>1. Querying!TypeOK' /\ Querying!ReadyIsExact' /\ Querying!NothingLeftBehind' /\ Querying!BesideFill'
    BY <1>1 DEF Querying!vars, Querying!Inv, Querying!TypeOK, Querying!ReadyIsExact,
      Querying!NothingLeftBehind, Querying!BesideFill, Querying!Declared, Querying!Live
  <2>2. Querying!ToBeFound' /\ Querying!CursorDivides' /\ Querying!TraversalIsComplete' /\ Querying!TraversalRepeatsNothing'
    BY <1>1, IndexTraversalRests DEF Querying!vars
  <2> QED
    BY <2>1, <2>2 DEF Querying!Inv
<1>2. CASE Querying!Next
  <2>1. CASE Querying!Revise \/ Querying!BeginBatch \/ Querying!FinishBatch \/ Querying!FailBatch \/ Querying!Page \/ Querying!CursorInvalid
    BY <2>1, IndexReviseKeeps, IndexBeginBatchKeeps, IndexFinishBatchKeeps, IndexFailBatchKeeps,
      IndexPageKeeps, IndexCursorInvalidKeeps
  <2>2. ASSUME NEW w \in IndexWriters, Querying!Commit(w) \/ Querying!Rollback(w) \/ \E r \in Querying!Ids : Querying!Write(w, r) PROVE Querying!Inv'
    BY <2>2, IndexCommitKeeps, IndexRollbackKeeps, IndexWriteKeeps
  <2>3. ASSUME NEW q \in IndexQueries, Querying!Start(q) PROVE Querying!Inv'
    BY <2>3, IndexStartKeeps
  <2> QED
    BY <1>2, <2>1, <2>2, <2>3 DEF Querying!Next, Querying!NextOf
<1> QED
  BY <1>1, <1>2

----------------------------------------------------------------------------
(* The suite: a behaviour is one of its part, so what a part's invariant tells
   the suite shows. *)

PartsHold ==
    /\ part = "batch" => Ingesting!Inv
    /\ part \in {"claims", "sources"} => Claiming!Inv
    /\ part \in {"links", "lists"} => Linking!Inv
    /\ part \in {"backfill", "pages"} => Querying!Inv

(* A step of the suite keeps its part, and is a step of it. *)
LEMMA PartSteps ==
  ASSUME [SuiteNext]_all
  PROVE  /\ part' = part
         /\ part = "batch" => [Ingesting!Next]_(Ingesting!vars)
         /\ part \in {"claims", "sources"} => [Claiming!Next]_(Claiming!vars)
         /\ part \in {"links", "lists"} => [Linking!Next]_(Linking!vars)
         /\ part \in {"backfill", "pages"} => [Querying!Next]_(Querying!vars)
<1>1. CASE UNCHANGED all
  BY <1>1 DEF all, slots, Ingesting!vars, Claiming!vars, Linking!vars, Querying!vars
<1>2. CASE SuiteNext
  <2>1. part' = part
    BY <1>2 DEF SuiteNext, Run, After6, After7, After8, After10
  <2>2. part = "batch" => Ingesting!Next
    BY <1>2 DEF SuiteNext, Run
  <2>3. part \in {"claims", "sources"} => Claiming!NextOf(ClaimAsks) \/ Claiming!NextOf(SourceAsks)
    BY <1>2 DEF SuiteNext, Run
  <2>4. part \in {"links", "lists"} => Linking!NextOf(LinkAsks) \/ Linking!NextOf(ListAsks)
    BY <1>2 DEF SuiteNext, Run
  <2>7. part \in {"backfill", "pages"} => Querying!NextOf({}) \/ Querying!NextOf(IndexQueries)
    BY <1>2 DEF SuiteNext, Run
  <2>8. part \in {"backfill", "pages"} => Querying!Next
    BY <2>7 DEF Querying!Next, Querying!NextOf
  <2>5. part \in {"claims", "sources"} => Claiming!Next
    BY <2>3 DEF Claiming!Next, Claiming!NextOf
  <2>6. part \in {"links", "lists"} => Linking!Next
    BY <2>4 DEF Linking!Next, Linking!NextOf
  <2> QED
    BY <2>1, <2>2, <2>5, <2>6, <2>8
<1> QED
  BY <1>1, <1>2

(* Every part starts, and goes on, within its invariant. *)
LEMMA PartsInvariant == SuiteSpec => []PartsHold
<1>1. SuiteInit => PartsHold
  BY BatchInitInv, ClaimInitInv, LinkInitInv, IndexInitInv DEF SuiteInit, Start, PartsHold
<1>2. PartsHold /\ [SuiteNext]_all => PartsHold'
  BY PartSteps, BatchStepKeeps, ClaimStepKeeps, LinkStepKeeps, IndexStepKeeps DEF PartsHold
<1> QED
  BY <1>1, <1>2, PTL DEF SuiteSpec

(* Whatever calls of a batch race, are cut off or cancelled, its items tell    *)
(* the effects that committed, and an answer that it is settled is true.       *)
THEOREM BatchesSafe == SuiteSpec => []BatchesHold
<1>1. PartsHold => BatchesHold
  BY BatchInvTells DEF PartsHold, BatchesHold
<1> QED
  BY <1>1, PartsInvariant, PTL

(* Every answer about a claim or a source is an entry of its history, a review *)
(* keeps the content it reviews, a source is parsed once, and what is cited    *)
(* exists.                                                                     *)
THEOREM ClaimsSafe == SuiteSpec => []ClaimsHold
<1>1. PartsHold => ClaimsHold
  BY ClaimInvTells DEF PartsHold, ClaimsHold
<1> QED
  BY <1>1, PartsInvariant, PTL

(* No live link joins what is deleted, each change of a link is told once, a   *)
(* listing skips no link, and no calls wait in a circle.                       *)
THEOREM LinksSafe == SuiteSpec => []LinksHold
<1>1. PartsHold => LinksHold
  BY LinkInvTells DEF PartsHold, LinksHold
<1> QED
  BY <1>1, PartsInvariant, PTL

(* An index that is ready is exact whatever wrote beside its backfill, and a   *)
(* traversal by pages gives every record that stayed, none twice, for every    *)
(* order, filter, page size and number of records.                             *)
THEOREM IndexSafe == SuiteSpec => []IndexHolds
<1>1. PartsHold => IndexHolds
  BY DEF PartsHold, IndexHolds, Querying!Inv
<1> QED
  BY <1>1, PartsInvariant, PTL

(* No item takes effect once its batch is cancelled; a link changes only while *)
(* its caller may read both ends, and no restrict link ends with an endpoint;  *)
(* no history grows past its deletion, nor past its writer's authority.        *)
THEOREM StepsSafe == SuiteSpec => StepsHold
<1> DEFINE Step == /\ part = "batch" => Ingesting!CancelStopsEffects
                   /\ part = "links" => Linking!GrantsHeldAtCommit /\ Linking!RestrictHolds
                   /\ part = "claims" => Claiming!DeletionsEndHistories /\ Claiming!RevisionsAuthorized
                   /\ part = "sources" => Claiming!DeletionsEndHistories
<1>1. PartsHold /\ [SuiteNext]_all => Step
  BY PartSteps, BatchCancelStops, LinkStepTells, ClaimStepTells DEF PartsHold
<1>2. PartsHold /\ [SuiteNext]_all => [Step]_all
  BY <1>1
<1> HIDE DEF Step
<1>3. SuiteSpec => [][Step]_all
  BY <1>2, PartsInvariant, PTL DEF SuiteSpec
<1> QED
  BY <1>3 DEF StepsHold, Step
=============================================================================
