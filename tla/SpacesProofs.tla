---------------------------- MODULE SpacesProofs ----------------------------
(***************************************************************************)
(* Proofs about the suite of the control plane (MCSpaces), whatever its    *)
(* constants are, for its parts                                            *)
(*                                                                         *)
(*   admission   CellAdmission: until an assertion ends the row of whoever *)
(*               consumed it stays, an insertion under way excludes every  *)
(*               earlier consumer, and nobody enters afterwards; that the  *)
(*               row is there would not do, for it may be pruned and come  *)
(*               again                                                     *)
(*   keys        AgentKeys!Inv: a row tells no more than has happened at   *)
(*               the provider, a key nobody denied has what its issuer has *)
(*               come to write, and a deletion has behind it what can no   *)
(*               longer come to life                                       *)
(*   creation    SpaceProvisioning!Inv: whoever works on the cell's row    *)
(*               holds the lock of the reservation unless its connection   *)
(*               is lost, and the row they write is the owner's            *)
(*   texts, removals, space                                                *)
(*               see SpaceBytesProofs                                      *)
(*                                                                         *)
(* A part's variables are the slots s1, s2, ... of the suite in the order  *)
(* its module declares them.                                               *)
(***************************************************************************)
EXTENDS SpaceBytesProofs

----------------------------------------------------------------------------
(* Admission: the part "admission". *)

(* Cardinalities are what they are. *)
LEMMA AdmitCounts == \A S : Admitting!Cardinality(S) = Cardinality(S) /\ (Admitting!IsFiniteSet(S) <=> IsFiniteSet(S))
  BY DEF Admitting!Cardinality, Cardinality, Admitting!IsFiniteSet, IsFiniteSet

(* The constants are as CellAdmission assumes. *)
LEMMA AdmitConstants == Admitting!AdmissionAssumption
  BY SuiteAssumption

AdmitRequestType == [pc : Admitting!Steps, answer : {"none", "ok", "refused", "unknown"}, fenced : 0 .. AdmitTime]
AdmitCallType == [state : Admitting!CallStates, kind : {"records", "effect"}, awaits : Joined \cup {0}]

AdmitInNonce == {"prune", "eligible", "insert", "nonce"}
AdmitInEffect == {"inside", "settling", "fence", "commit"}
AdmitShown(r) == AssertionOf[r]
AdmitEnds(r) == AssertEnds[AssertionOf[r]]

(* A request whose nonce is committed: about to enter, or entered. *)
AdmitConsumed(r) == s8[r].pc = "begin" \/ r \in s10

(* What an open nonce transaction has pruned had expired. *)
AdmitPrunedInv ==
  \A r \in Requests : /\ s6[r] # {} => s8[r].pc \in {"eligible", "insert", "nonce"}
                      /\ \A n \in s6[r] : AssertEnds[n] <= s1
                      /\ r \in s7 => s8[r].pc = "nonce"

AdmitSpent == \A r \in Requests : AdmitConsumed(r) /\ s1 < AdmitEnds(r) => AdmitShown(r) \in s5

AdmitFresh ==
  \A q, r \in Requests : q # r /\ AdmitShown(q) = AdmitShown(r) =>
    /\ r \in s7 => q \notin s7 /\ (s1 < AdmitEnds(r) => ~AdmitConsumed(q))
    /\ s1 < AdmitEnds(r) => ~(AdmitConsumed(q) /\ AdmitConsumed(r))

(* What a request in its effect, or after it, has behind it. *)
AdmitEffectInv ==
  \A r \in Requests :
    /\ r \in s10 => s8[r].pc \in AdmitInEffect \cup {"done"}
    /\ s8[r].pc \in AdmitInEffect => r \in s10
    /\ s8[r].pc \in {"fence", "commit"} => Admitting!Whole(r)
    /\ s8[r].pc = "commit" => s8[r].fenced < AdmitEnds(r) /\ s8[r].fenced < KeyEnds
    /\ s8[r].pc # "done" => r \notin s11 /\ s8[r].answer = "none"

AdmitInv ==
  /\ Admitting!TypeOK /\ AdmitPrunedInv /\ AdmitSpent /\ AdmitFresh /\ Admitting!EnteredOnce
  /\ AdmitEffectInv /\ Admitting!InsideMeansAllowed /\ Admitting!CommitsWhole /\ Admitting!AnswersTell

-----------------------------------------------------------------------------
(* At first no nonce is there. *)
LEMMA AdmitInitInv == Admitting!Init => AdmitInv
<1> SUFFICES ASSUME Admitting!Init PROVE AdmitInv
  OBVIOUS
<1> USE AdmitConstants DEF Admitting!AdmissionAssumption, Admitting!Init
<1>1. Admitting!TypeOK
  BY DEF Admitting!TypeOK, Admitting!Steps, Admitting!CallStates, Admitting!NoCall,
    Admitting!Lifecycles, Admitting!Open, Admitting!Assertions
<1>2. AdmitPrunedInv /\ AdmitSpent /\ AdmitFresh
  BY DEF AdmitPrunedInv, AdmitSpent, AdmitFresh, AdmitConsumed
<1>3. Admitting!EnteredOnce /\ AdmitEffectInv /\ Admitting!InsideMeansAllowed /\ Admitting!CommitsWhole /\ Admitting!AnswersTell
  BY DEF Admitting!EnteredOnce, AdmitEffectInv, AdmitInEffect, Admitting!InsideMeansAllowed,
    Admitting!CommitsWhole, Admitting!AnswersTell
<1> QED BY <1>1, <1>2, <1>3 DEF AdmitInv

(* How a nonce's transaction may end, and an effect's. *)
LEMMA AdmitNonceEnds ==
  ASSUME NEW r \in Requests, Admitting!CommitNonce(r)
  PROVE  /\ s8[r].pc = "nonce" /\ s6' = [s6 EXCEPT ![r] = {}] /\ s7' = s7 \ {r}
         /\ UNCHANGED <<s1, s2, s3, s4, s9, s10, s11>>
         /\ \/ r \in s7 /\ s5' = (s5 \ s6[r]) \cup {AdmitShown(r)} /\ s8' = [s8 EXCEPT ![r].pc = "begin"]
            \/ /\ s5' = s5 \/ s5' = s5 \ s6[r]
                  \/ (r \in s7 /\ s5' = (s5 \ s6[r]) \cup {AdmitShown(r)})
               /\ \E a \in {"refused", "unknown"} : s8' = [s8 EXCEPT ![r].pc = "done", ![r].answer = a]
<1>1. CASE r \in s7
  <2>1. {AssertionOf[q] : q \in s7 \cap {r}} = {AdmitShown(r)}
    BY <1>1 DEF AdmitShown
  <2> QED BY <1>1, <2>1 DEF Admitting!CommitNonce, Admitting!At, Admitting!Go, Admitting!Answer,
      Admitting!Undo, Admitting!policy, Admitting!history
<1>2. CASE r \notin s7
  <2>1. {AssertionOf[q] : q \in s7 \cap {r}} = {}
    BY <1>2
  <2> QED BY <1>2, <2>1 DEF Admitting!CommitNonce, Admitting!At, Admitting!Go, Admitting!Answer,
      Admitting!Undo, Admitting!policy, Admitting!history
<1> QED BY <1>1, <1>2

(* The commit of an effect ends its request. *)
LEMMA AdmitEffectEnds ==
  ASSUME NEW r \in Requests, Admitting!Commit(r)
  PROVE  /\ s8[r].pc = "commit"
         /\ UNCHANGED <<s1, s2, s3, s4, s5, s6, s7, s9, s10>>
         /\ \E a \in {"ok", "refused", "unknown"} :
              /\ s8' = [s8 EXCEPT ![r].pc = "done", ![r].answer = a]
              /\ s11' = s11 \cup {r} \/ (s11' = s11 /\ a # "ok")
              /\ a = "refused" => s11' = s11
BY DEF Admitting!Commit, Admitting!At, Admitting!Answer, Admitting!policy, Admitting!table

(* The types a step needs. *)
LEMMA AdmitTyping == ASSUME Admitting!TypeOK PROVE s8 \in [Requests -> AdmitRequestType] /\ s6 \in [Requests -> SUBSET s5]
BY DEF Admitting!TypeOK, AdmitRequestType

(* A request's place and answer are of its type. *)
LEMMA AdmitReqType ==
  ASSUME s8 \in [Requests -> AdmitRequestType], NEW r \in Requests, NEW step \in Admitting!Steps,
         NEW a \in {"none", "ok", "refused", "unknown"}
  PROVE  /\ [s8 EXCEPT ![r].pc = step, ![r].answer = a] \in [Requests -> AdmitRequestType]
         /\ [s8 EXCEPT ![r].pc = step] \in [Requests -> AdmitRequestType]
BY DEF AdmitRequestType

(* What moving on, or answering, does to the requests. *)
LEMMA AdmitGoMoves ==
  ASSUME s8 \in [Requests -> AdmitRequestType], NEW r \in Requests, NEW s \in Admitting!Steps, Admitting!Go(r, s)
  PROVE  /\ s8' \in [Requests -> AdmitRequestType]
         /\ s8'[r].pc = s /\ s8'[r].answer = s8[r].answer /\ s8'[r].fenced = s8[r].fenced
         /\ \A q \in Requests : q # r => s8'[q] = s8[q]
BY DEF Admitting!Go, AdmitRequestType

(* An answer moves its request only. *)
LEMMA AdmitAnswerMoves ==
  ASSUME s8 \in [Requests -> AdmitRequestType], NEW r \in Requests,
         NEW a \in {"none", "ok", "refused", "unknown"}, Admitting!Answer(r, a)
  PROVE  /\ s8' \in [Requests -> AdmitRequestType]
         /\ s8'[r].pc = "done" /\ s8'[r].answer = a /\ s8'[r].fenced = s8[r].fenced
         /\ \A q \in Requests : q # r => s8'[q] = s8[q]
BY DEF Admitting!Answer, AdmitRequestType, Admitting!Steps

(* A request moves on, or ends, and touches no nonce. *)
LEMMA AdmitTypeKept ==
  ASSUME AdmitInv, NEW r \in Requests, s8[r].pc # "nonce",
         s8' \in [Requests -> AdmitRequestType], \A q \in Requests : q # r => s8'[q] = s8[q],
         UNCHANGED <<s1, s2, s3, s4, s5, s6, s7, s9>>,
         s10' \subseteq s10 \cup {r}, s11' \subseteq s11 \cup {r}
  PROVE  Admitting!TypeOK'
<1>1. s7' \subseteq {q \in Requests : s8'[q].pc = "nonce"}
  BY DEF AdmitInv, Admitting!TypeOK
<1> QED BY <1>1 DEF AdmitInv, Admitting!TypeOK, AdmitRequestType

(* Every step keeps the types. *)
LEMMA AdmitTypeNext == ASSUME AdmitInv, [Admitting!Next]_(Admitting!vars) PROVE Admitting!TypeOK'
<1>1. ASSUME NEW r \in Requests, Admitting!Begin(r) PROVE Admitting!TypeOK'
  <2>1. s8' \in [Requests -> AdmitRequestType] /\ \A q \in Requests : q # r => s8'[q] = s8[q]
    BY <1>1, AdmitTyping, AdmitGoMoves DEF AdmitInv, Admitting!Begin, Admitting!Steps
  <2> QED BY <1>1, <2>1, AdmitTypeKept DEF Admitting!Begin, Admitting!At, Admitting!policy,
      Admitting!table, Admitting!history
<1>2. ASSUME NEW r \in Requests, Admitting!Prune(r) PROVE Admitting!TypeOK'
  <2>1. PICK rows \in SUBSET Admitting!Prunable : s6' = [s6 EXCEPT ![r] = rows]
    BY <1>2 DEF Admitting!Prune
  <2>2. rows \subseteq s5 /\ \A q \in Requests : rows \cap s6[q] = {}
    BY <2>1 DEF Admitting!Prunable
  <2>3. s6' \in [Requests -> SUBSET s5]
    BY <2>1, <2>2 DEF AdmitInv, Admitting!TypeOK
  <2>4. \A q \in Requests : s6'[q] = IF q = r THEN rows ELSE s6[q]
    BY <2>1 DEF AdmitInv, Admitting!TypeOK
  <2>5. \A p, q \in Requests : p # q => s6'[p] \cap s6'[q] = {}
    BY <2>2, <2>4 DEF AdmitInv, Admitting!TypeOK
  <2>6. /\ s8[r].pc = "prune" /\ s8' = [s8 EXCEPT ![r].pc = "eligible"]
        /\ UNCHANGED <<s1, s2, s3, s4, s5, s7, s9, s10, s11>>
    BY <1>2 DEF Admitting!Prune, Admitting!At, Admitting!Go, Admitting!policy, Admitting!history
  <2> QED BY <2>3, <2>5, <2>6 DEF AdmitInv, Admitting!TypeOK, Admitting!Steps
<1>3. ASSUME NEW r \in Requests, Admitting!Eligible(r) PROVE Admitting!TypeOK'
  <2>1. s8' \in [Requests -> AdmitRequestType] /\ \A q \in Requests : q # r => s8'[q] = s8[q]
    BY <1>3, AdmitTyping, AdmitGoMoves DEF AdmitInv, Admitting!Eligible, Admitting!Steps
  <2> QED BY <1>3, <2>1, AdmitTypeKept DEF Admitting!Eligible, Admitting!At, Admitting!policy,
      Admitting!table, Admitting!history
<1>4. ASSUME NEW r \in Requests, Admitting!Insert(r) PROVE Admitting!TypeOK'
  <2>1. s8' \in [Requests -> AdmitRequestType] /\ s8'[r].pc = "nonce" /\ \A q \in Requests : q # r => s8'[q] = s8[q]
    BY <1>4, AdmitTyping, AdmitGoMoves DEF AdmitInv, Admitting!Insert, Admitting!Steps
  <2>2. /\ UNCHANGED <<Admitting!policy, s5, s6, s9, Admitting!history>>
        /\ s7' \in {s7, s7 \cup {r}}
    BY <1>4 DEF Admitting!Insert
  <2>3. s7' \subseteq {q \in Requests : s8'[q].pc = "nonce"}
    BY <2>1, <2>2 DEF AdmitInv, Admitting!TypeOK
  <2> QED BY <2>1, <2>2, <2>3 DEF AdmitInv, Admitting!TypeOK, AdmitRequestType, Admitting!policy,
      Admitting!history
<1>5. ASSUME NEW r \in Requests, Admitting!CommitNonce(r) PROVE Admitting!TypeOK'
  <2>1. \A q \in Requests : s6'[q] = IF q = r THEN {} ELSE s6[q]
    <3>1. s6' = [s6 EXCEPT ![r] = {}]
      BY <1>5, AdmitNonceEnds
    <3> QED BY <3>1, AdmitTyping DEF AdmitInv
  <2>2. s5' \subseteq Admitting!Assertions /\ s5 \ s6[r] \subseteq s5'
    <3>1. AdmitShown(r) \in Admitting!Assertions /\ s5 \subseteq Admitting!Assertions
      BY AdmitConstants DEF AdmitInv, Admitting!TypeOK, AdmitShown, Admitting!AdmissionAssumption,
        Admitting!Assertions
    <3> HIDE DEF Admitting!Assertions
    <3> QED BY <1>5, <3>1, AdmitNonceEnds
  <2>3. \A p, q \in Requests : p # q => s6'[p] \cap s6'[q] = {}
    BY <2>1 DEF AdmitInv, Admitting!TypeOK
  <2>6. s6' \in [Requests -> SUBSET s5']
    <3>1. \A q \in Requests : s6'[q] \subseteq s5'
      BY <2>1, <2>2, AdmitTyping DEF AdmitInv, Admitting!TypeOK
    <3>2. s6' = [q \in Requests |-> s6'[q]]
      BY <1>5, AdmitNonceEnds, AdmitTyping DEF AdmitInv
    <3> QED BY <3>1, <3>2
  <2>4. s8' \in [Requests -> AdmitRequestType]
    <3>1. CASE s8' = [s8 EXCEPT ![r].pc = "begin"]
      BY <3>1, AdmitTyping, AdmitReqType DEF AdmitInv, Admitting!Steps
    <3>2. ASSUME NEW a \in {"refused", "unknown"}, s8' = [s8 EXCEPT ![r].pc = "done", ![r].answer = a]
          PROVE  s8' \in [Requests -> AdmitRequestType]
      BY <3>2, AdmitTyping, AdmitReqType DEF AdmitInv, Admitting!Steps
    <3> QED BY <1>5, <3>1, <3>2, AdmitNonceEnds
  <2>5. s7' \subseteq {q \in Requests : s8'[q].pc = "nonce"}
    BY <1>5, AdmitNonceEnds DEF AdmitInv, Admitting!TypeOK
  <2> QED BY <1>5, <2>2, <2>3, <2>4, <2>5, <2>6, AdmitNonceEnds DEF AdmitInv, Admitting!TypeOK,
      AdmitRequestType
<1>6. ASSUME NEW r \in Requests, Admitting!Enter(r) PROVE Admitting!TypeOK'
  <2>1. s8' \in [Requests -> AdmitRequestType] /\ \A q \in Requests : q # r => s8'[q] = s8[q]
    BY <1>6, AdmitTyping, AdmitGoMoves DEF AdmitInv, Admitting!Enter, Admitting!Steps
  <2> QED BY <1>6, <2>1, AdmitTypeKept DEF Admitting!Enter, Admitting!At, Admitting!policy,
      Admitting!table
<1>7. ASSUME NEW r \in Requests, Admitting!Issue(r) PROVE Admitting!TypeOK'
  BY <1>7 DEF Admitting!Issue, Admitting!At, Admitting!Go, Admitting!Answer, Admitting!Undo,
    Admitting!policy, Admitting!table, Admitting!history, Admitting!Unissued, AdmitInv,
    AdmitPrunedInv, Admitting!TypeOK, Admitting!Steps, Admitting!CallStates, Admitting!Lifecycles,
    Admitting!Assertions
<1>8. ASSUME NEW r \in Requests, Admitting!IssueNested(r) PROVE Admitting!TypeOK'
  BY <1>8 DEF Admitting!IssueNested, Admitting!At, Admitting!Go, Admitting!Answer, Admitting!Undo,
    Admitting!policy, Admitting!table, Admitting!history, Admitting!Unissued, Admitting!Nestable,
    AdmitInv, AdmitPrunedInv, Admitting!TypeOK, Admitting!Steps, Admitting!CallStates,
    Admitting!Lifecycles, Admitting!Assertions
<1>9. ASSUME NEW r \in Requests, Admitting!StartCall(r) PROVE Admitting!TypeOK'
  <2>1. PICK i \in Joined, x \in {"working", "failed"} : s9' = [s9 EXCEPT ![r][i].state = x]
    BY <1>9 DEF Admitting!StartCall
  <2>2. s9' \in [Requests -> [Joined -> AdmitCallType]]
    <3>1. s9 \in [Requests -> [Joined -> AdmitCallType]] /\ x \in Admitting!CallStates
      BY DEF AdmitInv, Admitting!TypeOK, AdmitCallType, Admitting!CallStates
    <3>2. [s9[r][i] EXCEPT !.state = x] \in AdmitCallType
      BY <3>1 DEF AdmitCallType
    <3> QED
      BY <2>1, <3>1, <3>2
  <2>3. UNCHANGED <<Admitting!policy, Admitting!table, s8, Admitting!history>>
    BY <1>9 DEF Admitting!StartCall
  <2> QED BY <2>2, <2>3 DEF Admitting!policy, Admitting!table, Admitting!history, AdmitInv,
      Admitting!TypeOK, AdmitCallType
<1>10. ASSUME NEW r \in Requests, Admitting!EndCall(r) PROVE Admitting!TypeOK'
  <2>1. PICK i \in Joined, x \in {"ok", "failed"} : s9' = [s9 EXCEPT ![r][i].state = x]
    BY <1>10 DEF Admitting!EndCall
  <2>2. s9' \in [Requests -> [Joined -> AdmitCallType]]
    <3>1. s9 \in [Requests -> [Joined -> AdmitCallType]] /\ x \in Admitting!CallStates
      BY DEF AdmitInv, Admitting!TypeOK, AdmitCallType, Admitting!CallStates
    <3>2. [s9[r][i] EXCEPT !.state = x] \in AdmitCallType
      BY <3>1 DEF AdmitCallType
    <3> QED
      BY <2>1, <3>1, <3>2
  <2>3. UNCHANGED <<Admitting!policy, Admitting!table, s8, Admitting!history>>
    BY <1>10 DEF Admitting!EndCall
  <2> QED BY <2>2, <2>3 DEF Admitting!policy, Admitting!table, Admitting!history, AdmitInv,
      Admitting!TypeOK, AdmitCallType
<1>11. ASSUME NEW r \in Requests, Admitting!Return(r) PROVE Admitting!TypeOK'
  <2>1. s8' \in [Requests -> AdmitRequestType] /\ \A q \in Requests : q # r => s8'[q] = s8[q]
    BY <1>11, AdmitTyping, AdmitGoMoves DEF AdmitInv, Admitting!Return, Admitting!Steps
  <2> QED BY <1>11, <2>1, AdmitTypeKept DEF Admitting!Return, Admitting!At, Admitting!policy,
      Admitting!table, Admitting!history
<1>12. ASSUME NEW r \in Requests, Admitting!Settle(r) PROVE Admitting!TypeOK'
  <2>1. s8' \in [Requests -> AdmitRequestType] /\ \A q \in Requests : q # r => s8'[q] = s8[q]
    BY <1>12, AdmitTyping, AdmitGoMoves, AdmitAnswerMoves DEF AdmitInv, Admitting!Settle,
      Admitting!Steps
  <2> QED BY <1>12, <2>1, AdmitTypeKept DEF Admitting!Settle, Admitting!At, Admitting!policy,
      Admitting!table, Admitting!history
<1>13. ASSUME NEW r \in Requests, Admitting!Fence(r) PROVE Admitting!TypeOK'
  <2>1. s8' \in [Requests -> AdmitRequestType] /\ \A q \in Requests : q # r => s8'[q] = s8[q]
    <3>1. s8' = [s8 EXCEPT ![r].pc = "commit", ![r].fenced = s1] /\ s1 \in 0 .. AdmitTime
      BY <1>13 DEF Admitting!Fence, AdmitInv, Admitting!TypeOK
    <3> QED BY <3>1, AdmitTyping DEF AdmitInv, AdmitRequestType, Admitting!Steps
  <2> QED BY <1>13, <2>1, AdmitTypeKept DEF Admitting!Fence, Admitting!At, Admitting!policy,
      Admitting!table, Admitting!history
<1>14. ASSUME NEW r \in Requests, Admitting!Commit(r) PROVE Admitting!TypeOK'
  <2>1. s8' \in [Requests -> AdmitRequestType] /\ \A q \in Requests : q # r => s8'[q] = s8[q]
    BY <1>14, AdmitTyping, AdmitAnswerMoves DEF AdmitInv, Admitting!Commit
  <2> QED BY <1>14, <2>1, AdmitEffectEnds, AdmitTypeKept
<1>15. ASSUME NEW r \in Requests, Admitting!Refuse(r) PROVE Admitting!TypeOK'
  BY <1>15 DEF Admitting!Refuse, Admitting!At, Admitting!Go, Admitting!Answer, Admitting!Undo,
    Admitting!policy, Admitting!table, Admitting!history, AdmitInv, AdmitPrunedInv,
    Admitting!TypeOK, Admitting!Steps, Admitting!CallStates, Admitting!Lifecycles,
    Admitting!Assertions
<1>16. ASSUME Admitting!Cleanup PROVE Admitting!TypeOK'
  BY <1>16 DEF Admitting!Cleanup, Admitting!At, Admitting!Go, Admitting!Answer, Admitting!Undo,
    Admitting!policy, Admitting!table, Admitting!history, Admitting!Prunable, AdmitInv,
    AdmitPrunedInv, Admitting!TypeOK, Admitting!Steps, Admitting!CallStates, Admitting!Lifecycles,
    Admitting!Assertions
<1>17. ASSUME Admitting!ChangePolicy PROVE Admitting!TypeOK'
  BY AdmitConstants, <1>17 DEF Admitting!AdmissionAssumption, Admitting!ChangePolicy, Admitting!At,
    Admitting!Go, Admitting!Answer, Admitting!Undo, Admitting!policy, Admitting!table,
    Admitting!history, AdmitInv, AdmitPrunedInv, Admitting!TypeOK, Admitting!Steps,
    Admitting!CallStates, Admitting!Lifecycles, Admitting!Assertions
<1>18. ASSUME Admitting!ForgetCredential PROVE Admitting!TypeOK'
  BY <1>18 DEF Admitting!ForgetCredential, Admitting!At, Admitting!Go, Admitting!Answer,
    Admitting!Undo, Admitting!policy, Admitting!table, Admitting!history, AdmitInv, AdmitPrunedInv,
    Admitting!TypeOK, Admitting!Steps, Admitting!CallStates, Admitting!Lifecycles,
    Admitting!Assertions
<1>19. ASSUME Admitting!Tick PROVE Admitting!TypeOK'
  BY AdmitConstants, <1>19 DEF Admitting!AdmissionAssumption, Admitting!Tick, Admitting!At,
    Admitting!Go, Admitting!Answer, Admitting!Undo, Admitting!policy, Admitting!table,
    Admitting!history, AdmitInv, AdmitPrunedInv, Admitting!TypeOK, Admitting!Steps,
    Admitting!CallStates, Admitting!Lifecycles, Admitting!Assertions
<1>20. ASSUME UNCHANGED Admitting!vars PROVE Admitting!TypeOK'
  BY <1>20 DEF Admitting!vars, AdmitInv, AdmitPrunedInv, Admitting!TypeOK, Admitting!Steps,
    Admitting!CallStates, Admitting!Lifecycles, Admitting!Assertions
<1> QED BY <1>1, <1>2, <1>3, <1>4, <1>5, <1>6, <1>7, <1>8, <1>9, <1>10, <1>11, <1>12, <1>13, <1>14,
    <1>15, <1>16, <1>17, <1>18, <1>19, <1>20 DEF Admitting!Next, Admitting!Step, Admitting!Finished

(* What a transaction pruned had expired. *)
LEMMA AdmitPrunedNext == ASSUME AdmitInv, [Admitting!Next]_(Admitting!vars) PROVE AdmitPrunedInv'
<1>1. ASSUME NEW r \in Requests, Admitting!Begin(r) PROVE AdmitPrunedInv'
  BY <1>1 DEF Admitting!Begin, Admitting!At, Admitting!Go, Admitting!Answer, Admitting!Undo,
    Admitting!policy, Admitting!table, Admitting!history, AdmitInv, AdmitPrunedInv, Admitting!TypeOK
<1>2. ASSUME NEW r \in Requests, Admitting!Prune(r) PROVE AdmitPrunedInv'
  BY SMTT(60), <1>2 DEF Admitting!Prune, Admitting!At, Admitting!Go, Admitting!Answer,
    Admitting!Undo, Admitting!policy, Admitting!table, Admitting!history, Admitting!Prunable,
    AdmitInv, AdmitPrunedInv, Admitting!TypeOK
<1>3. ASSUME NEW r \in Requests, Admitting!Eligible(r) PROVE AdmitPrunedInv'
  BY <1>3 DEF Admitting!Eligible, Admitting!At, Admitting!Go, Admitting!Answer, Admitting!Undo,
    Admitting!policy, Admitting!table, Admitting!history, AdmitInv, AdmitPrunedInv, Admitting!TypeOK
<1>4. ASSUME NEW r \in Requests, Admitting!Insert(r) PROVE AdmitPrunedInv'
  BY SMTT(60), <1>4 DEF Admitting!Insert, Admitting!At, Admitting!Go, Admitting!Answer,
    Admitting!Undo, Admitting!policy, Admitting!table, Admitting!history, AdmitInv, AdmitPrunedInv,
    Admitting!TypeOK
<1>5. ASSUME NEW r \in Requests, Admitting!CommitNonce(r) PROVE AdmitPrunedInv'
  BY SMTT(60), <1>5 DEF Admitting!CommitNonce, Admitting!At, Admitting!Go, Admitting!Answer,
    Admitting!Undo, Admitting!policy, Admitting!table, Admitting!history, AdmitInv, AdmitPrunedInv,
    Admitting!TypeOK
<1>6. ASSUME NEW r \in Requests, Admitting!Enter(r) PROVE AdmitPrunedInv'
  BY SMTT(60), <1>6 DEF Admitting!Enter, Admitting!At, Admitting!Go, Admitting!Answer,
    Admitting!Undo, Admitting!policy, Admitting!table, Admitting!history, AdmitInv, AdmitPrunedInv,
    Admitting!TypeOK
<1>7. ASSUME NEW r \in Requests, Admitting!Issue(r) PROVE AdmitPrunedInv'
  BY <1>7 DEF Admitting!Issue, Admitting!At, Admitting!Go, Admitting!Answer, Admitting!Undo,
    Admitting!policy, Admitting!table, Admitting!history, Admitting!Unissued, AdmitInv,
    AdmitPrunedInv, Admitting!TypeOK
<1>8. ASSUME NEW r \in Requests, Admitting!IssueNested(r) PROVE AdmitPrunedInv'
  BY <1>8 DEF Admitting!IssueNested, Admitting!At, Admitting!Go, Admitting!Answer, Admitting!Undo,
    Admitting!policy, Admitting!table, Admitting!history, Admitting!Unissued, Admitting!Nestable,
    AdmitInv, AdmitPrunedInv, Admitting!TypeOK
<1>9. ASSUME NEW r \in Requests, Admitting!StartCall(r) PROVE AdmitPrunedInv'
  BY <1>9 DEF Admitting!StartCall, Admitting!At, Admitting!Go, Admitting!Answer, Admitting!Undo,
    Admitting!policy, Admitting!table, Admitting!history, AdmitInv, AdmitPrunedInv, Admitting!TypeOK
<1>10. ASSUME NEW r \in Requests, Admitting!EndCall(r) PROVE AdmitPrunedInv'
  BY <1>10 DEF Admitting!EndCall, Admitting!At, Admitting!Go, Admitting!Answer, Admitting!Undo,
    Admitting!policy, Admitting!table, Admitting!history, AdmitInv, AdmitPrunedInv, Admitting!TypeOK
<1>11. ASSUME NEW r \in Requests, Admitting!Return(r) PROVE AdmitPrunedInv'
  BY <1>11 DEF Admitting!Return, Admitting!At, Admitting!Go, Admitting!Answer, Admitting!Undo,
    Admitting!policy, Admitting!table, Admitting!history, AdmitInv, AdmitPrunedInv, Admitting!TypeOK
<1>12. ASSUME NEW r \in Requests, Admitting!Settle(r) PROVE AdmitPrunedInv'
  BY SMTT(60), <1>12 DEF Admitting!Settle, Admitting!At, Admitting!Go, Admitting!Answer,
    Admitting!Undo, Admitting!policy, Admitting!table, Admitting!history, AdmitInv, AdmitPrunedInv,
    Admitting!TypeOK
<1>13. ASSUME NEW r \in Requests, Admitting!Fence(r) PROVE AdmitPrunedInv'
  BY SMTT(60), <1>13 DEF Admitting!Fence, Admitting!At, Admitting!Go, Admitting!Answer,
    Admitting!Undo, Admitting!policy, Admitting!table, Admitting!history, AdmitInv, AdmitPrunedInv,
    Admitting!TypeOK
<1>14. ASSUME NEW r \in Requests, Admitting!Commit(r) PROVE AdmitPrunedInv'
  BY SMTT(60), <1>14 DEF Admitting!Commit, Admitting!At, Admitting!Go, Admitting!Answer,
    Admitting!Undo, Admitting!policy, Admitting!table, Admitting!history, AdmitInv, AdmitPrunedInv,
    Admitting!TypeOK
<1>15. ASSUME NEW r \in Requests, Admitting!Refuse(r) PROVE AdmitPrunedInv'
  BY <1>15 DEF Admitting!Refuse, Admitting!At, Admitting!Go, Admitting!Answer, Admitting!Undo,
    Admitting!policy, Admitting!table, Admitting!history, AdmitInv, AdmitPrunedInv, Admitting!TypeOK
<1>16. ASSUME Admitting!Cleanup PROVE AdmitPrunedInv'
  BY SMTT(60), <1>16 DEF Admitting!Cleanup, Admitting!At, Admitting!Go, Admitting!Answer,
    Admitting!Undo, Admitting!policy, Admitting!table, Admitting!history, Admitting!Prunable,
    AdmitInv, AdmitPrunedInv, Admitting!TypeOK
<1>17. ASSUME Admitting!ChangePolicy PROVE AdmitPrunedInv'
  BY <1>17 DEF Admitting!ChangePolicy, Admitting!At, Admitting!Go, Admitting!Answer, Admitting!Undo,
    Admitting!policy, Admitting!table, Admitting!history, AdmitInv, AdmitPrunedInv, Admitting!TypeOK
<1>18. ASSUME Admitting!ForgetCredential PROVE AdmitPrunedInv'
  BY <1>18 DEF Admitting!ForgetCredential, Admitting!At, Admitting!Go, Admitting!Answer,
    Admitting!Undo, Admitting!policy, Admitting!table, Admitting!history, AdmitInv, AdmitPrunedInv,
    Admitting!TypeOK
<1>19. ASSUME Admitting!Tick PROVE AdmitPrunedInv'
  <2>1. s1' = s1 + 1 /\ UNCHANGED <<s6, s7, s8>> /\ s1 \in Nat
    BY <1>19, AdmitConstants DEF Admitting!AdmissionAssumption, Admitting!Tick, Admitting!table,
      AdmitInv, Admitting!TypeOK
  <2>2. \A q \in Requests : \A n \in s6[q] : AssertEnds[n] \in Nat
    BY AdmitConstants DEF Admitting!AdmissionAssumption, AdmitInv, Admitting!TypeOK,
      Admitting!Assertions
  <2> QED BY <2>1, <2>2 DEF AdmitInv, AdmitPrunedInv
<1>20. ASSUME UNCHANGED Admitting!vars PROVE AdmitPrunedInv'
  BY <1>20 DEF Admitting!vars, AdmitInv, AdmitPrunedInv, Admitting!TypeOK
<1> QED BY <1>1, <1>2, <1>3, <1>4, <1>5, <1>6, <1>7, <1>8, <1>9, <1>10, <1>11, <1>12, <1>13, <1>14,
    <1>15, <1>16, <1>17, <1>18, <1>19, <1>20 DEF Admitting!Next, Admitting!Step, Admitting!Finished

(* A step of a request that neither inserts nor commits a nonce, nor enters. *)
AdmitAside(r) ==
  \/ Admitting!Begin(r) \/ Admitting!Prune(r) \/ Admitting!Eligible(r) \/ Admitting!Issue(r) \/ Admitting!IssueNested(r) \/ Admitting!StartCall(r) \/ Admitting!EndCall(r)
  \/ Admitting!Return(r) \/ Admitting!Settle(r) \/ Admitting!Fence(r) \/ Admitting!Commit(r) \/ Admitting!Refuse(r)

(* Such a step uses no assertion, and leaves the other requests alone. *)
LEMMA AdmitAsideUsesNone ==
  ASSUME AdmitInv, NEW r \in Requests, AdmitAside(r)
  PROVE  /\ s1' = s1 /\ s5' = s5 /\ s7' \subseteq s7 /\ s10' = s10
         /\ s8'[r].pc = "begin" => s8[r].pc = "begin"
         /\ \A q \in Requests : q # r => s8'[q] = s8[q]
<1> USE AdmitTyping DEF AdmitInv
<1>1. ASSUME NEW s \in {"prune", "insert", "nonce", "eligible", "settling", "fence"}, Admitting!Go(r, s)
      PROVE  /\ s8'[r].pc = "begin" => s8[r].pc = "begin"
             /\ \A q \in Requests : q # r => s8'[q] = s8[q]
  BY <1>1, AdmitGoMoves DEF Admitting!Steps
<1>2. ASSUME NEW a \in {"ok", "refused", "unknown"}, Admitting!Answer(r, a)
      PROVE  /\ s8'[r].pc = "begin" => s8[r].pc = "begin"
             /\ \A q \in Requests : q # r => s8'[q] = s8[q]
  BY <1>2, AdmitAnswerMoves
<1>3. CASE Admitting!Begin(r) \/ Admitting!Prune(r) \/ Admitting!Eligible(r) \/ Admitting!Return(r) \/ Admitting!Settle(r)
  BY <1>1, <1>2, <1>3 DEF Admitting!Begin, Admitting!Prune, Admitting!Eligible, Admitting!Return,
    Admitting!Settle, Admitting!policy, Admitting!table, Admitting!history
<1>4. CASE Admitting!Issue(r) \/ Admitting!IssueNested(r) \/ Admitting!StartCall(r) \/ Admitting!EndCall(r)
  BY <1>4 DEF Admitting!Issue, Admitting!IssueNested, Admitting!StartCall, Admitting!EndCall,
    Admitting!policy, Admitting!table, Admitting!history
<1>5. CASE Admitting!Fence(r)
  BY <1>5 DEF Admitting!Fence, Admitting!policy, Admitting!table, Admitting!history,
    Admitting!TypeOK
<1>6. CASE Admitting!Commit(r) \/ Admitting!Refuse(r)
  BY <1>2, <1>6 DEF Admitting!Commit, Admitting!Refuse, Admitting!Undo, Admitting!policy,
    Admitting!table, Admitting!history
<1> QED BY <1>3, <1>4, <1>5, <1>6 DEF AdmitAside

(* A nonce's insertion, its commit and the entry leave the other requests alone. *)
LEMMA AdmitInsertMoves ==
  ASSUME AdmitInv, NEW r \in Requests, Admitting!Insert(r)
  PROVE  /\ UNCHANGED <<s1, s5, s6, s10>> /\ s8[r].pc = "insert" /\ s8'[r].pc = "nonce"
         /\ \A q \in Requests : q # r => s8'[q] = s8[q]
         /\ s7' = IF AdmitShown(r) \in s5 THEN s7 ELSE s7 \cup {r}
         /\ \A q \in Requests : q # r /\ AdmitShown(q) = AdmitShown(r) => q \notin s7
<1>1. s8' \in [Requests -> AdmitRequestType] /\ s8'[r].pc = "nonce" /\ \A q \in Requests : q # r => s8'[q] = s8[q]
  BY AdmitTyping, AdmitGoMoves DEF AdmitInv, Admitting!Insert, Admitting!Steps
<1> QED BY <1>1 DEF Admitting!Insert, Admitting!At, Admitting!policy, Admitting!history, AdmitShown

(* What the commit of a nonce moves. *)
LEMMA AdmitCommitMoves ==
  ASSUME AdmitInv, NEW r \in Requests, Admitting!CommitNonce(r)
  PROVE  /\ \A q \in Requests : q # r => s8'[q] = s8[q]
         /\ \/ r \in s7 /\ AdmitShown(r) \in s5' /\ s8'[r].pc = "begin" /\ s8'[r].answer = s8[r].answer
            \/ s8'[r].pc = "done" /\ s8'[r].answer \in {"refused", "unknown"}
         /\ s5 \ s6[r] \subseteq s5'
<1>1. s8 \in [Requests -> AdmitRequestType]
  BY AdmitTyping DEF AdmitInv
<1>2. CASE s8' = [s8 EXCEPT ![r].pc = "begin"]
  <2>1. s8'[r].pc = "begin" /\ s8'[r].answer = s8[r].answer /\ \A q \in Requests : q # r => s8'[q] = s8[q]
    BY <1>1, <1>2 DEF AdmitRequestType
  <2>2. ~\E a \in {"refused", "unknown"} : s8' = [s8 EXCEPT ![r].pc = "done", ![r].answer = a]
    BY <1>1, <2>1 DEF AdmitRequestType
  <2> QED BY <2>1, <2>2, AdmitNonceEnds
<1>3. CASE \E a \in {"refused", "unknown"} : s8' = [s8 EXCEPT ![r].pc = "done", ![r].answer = a]
  <2>1. s8'[r].pc = "done" /\ s8'[r].answer \in {"refused", "unknown"} /\ \A q \in Requests : q # r => s8'[q] = s8[q]
    BY <1>1, <1>3 DEF AdmitRequestType
  <2> QED BY <2>1, AdmitNonceEnds
<1> QED BY <1>2, <1>3, AdmitNonceEnds

(* What an entry moves. *)
LEMMA AdmitEnterMoves ==
  ASSUME AdmitInv, NEW r \in Requests, Admitting!Enter(r)
  PROVE  /\ UNCHANGED <<s1, s5, s6, s7>> /\ s10' = s10 \cup {r}
         /\ s8[r].pc = "begin" /\ s8'[r].pc = "inside" /\ s1 < AdmitEnds(r)
         /\ \A q \in Requests : q # r => s8'[q] = s8[q]
<1>1. s8'[r].pc = "inside" /\ \A q \in Requests : q # r => s8'[q] = s8[q]
  BY AdmitTyping, AdmitGoMoves DEF AdmitInv, Admitting!Enter, Admitting!Steps
<1> QED BY <1>1 DEF Admitting!Enter, Admitting!At, Admitting!policy, Admitting!table,
    Admitting!InForce, Admitting!Timely, AdmitEnds

(* The rows a step may take away are those of assertions that have ended. *)
LEMMA AdmitNonceTimes ==
  ASSUME AdmitInv
  PROVE  /\ s1 \in Nat /\ \A r \in Requests : AdmitShown(r) \in Admitting!Assertions /\ AdmitEnds(r) \in Nat
         /\ \A n \in s5 : AssertEnds[n] \in Nat
BY AdmitConstants DEF Admitting!AdmissionAssumption, AdmitInv, Admitting!TypeOK,
  Admitting!Assertions, AdmitShown, AdmitEnds

(* Without a new use of an assertion, and while its row stays, it stays spent. *)
LEMMA AdmitSpentKept ==
  ASSUME AdmitInv, s1' >= s1, s1' \in Nat,
         \A q \in Requests : AdmitConsumed(q)' => AdmitConsumed(q),
         \A n \in s5 : s1 < AssertEnds[n] => n \in s5'
  PROVE  AdmitSpent'
<1> SUFFICES ASSUME NEW q \in Requests, AdmitConsumed(q)', s1' < AdmitEnds(q) PROVE AdmitShown(q) \in s5'
  BY DEF AdmitSpent, AdmitShown, AdmitEnds
<1>1. s1 < AdmitEnds(q)
  BY AdmitNonceTimes
<1> QED BY <1>1 DEF AdmitInv, AdmitSpent, AdmitShown, AdmitEnds

(* Without a new use, an insertion under way stays alone. *)
LEMMA AdmitFreshKept ==
  ASSUME AdmitInv, s1' >= s1, s1' \in Nat, s7' \subseteq s7, s10' = s10,
         \A q \in Requests : AdmitConsumed(q)' => AdmitConsumed(q)
  PROVE  AdmitFresh' /\ Admitting!EnteredOnce'
<1>1. \A q \in Requests : s1' < AdmitEnds(q) => s1 < AdmitEnds(q)
  BY AdmitNonceTimes
<1>2. AdmitFresh'
  <2> SUFFICES ASSUME NEW q \in Requests, NEW r \in Requests, q # r, AdmitShown(q) = AdmitShown(r)
               PROVE  /\ r \in s7' => q \notin s7' /\ (s1' < AdmitEnds(r) => ~AdmitConsumed(q)')
                      /\ s1' < AdmitEnds(r) => ~(AdmitConsumed(q)' /\ AdmitConsumed(r)')
    BY DEF AdmitFresh, AdmitShown, AdmitEnds
  <2> QED BY <1>1 DEF AdmitInv, AdmitFresh
<1> QED BY <1>2 DEF AdmitInv, Admitting!EnteredOnce

(* Every step keeps a used assertion spent. *)
LEMMA AdmitSpentNext == ASSUME AdmitInv, [Admitting!Next]_(Admitting!vars) PROVE AdmitSpent'
<1>1. ASSUME NEW r \in Requests, AdmitAside(r) PROVE AdmitSpent'
  <2>1. \A q \in Requests : AdmitConsumed(q)' => AdmitConsumed(q)
    BY <1>1, AdmitAsideUsesNone DEF AdmitConsumed
  <2> QED BY <1>1, <2>1, AdmitAsideUsesNone, AdmitSpentKept, AdmitNonceTimes
<1>2. ASSUME NEW r \in Requests, Admitting!Insert(r) PROVE AdmitSpent'
  <2>1. \A q \in Requests : AdmitConsumed(q)' => AdmitConsumed(q)
    BY <1>2, AdmitInsertMoves DEF AdmitConsumed
  <2> QED BY <1>2, <2>1, AdmitInsertMoves, AdmitSpentKept, AdmitNonceTimes
<1>3. ASSUME NEW r \in Requests, Admitting!CommitNonce(r) PROVE AdmitSpent'
  <2> SUFFICES ASSUME NEW q \in Requests, AdmitConsumed(q)', s1 < AdmitEnds(q) PROVE AdmitShown(q) \in s5'
    BY <1>3, AdmitNonceEnds DEF AdmitSpent, AdmitShown, AdmitEnds
  <2>1. \A n \in s6[r] : ~(s1 < AssertEnds[n])
    <3>1. \A n \in s6[r] : AssertEnds[n] \in Nat /\ AssertEnds[n] <= s1
      BY AdmitNonceTimes DEF AdmitInv, Admitting!TypeOK, AdmitPrunedInv
    <3> QED BY <3>1, AdmitNonceTimes
  <2>2. CASE AdmitConsumed(q)
    BY <1>3, <2>1, <2>2, AdmitCommitMoves DEF AdmitInv, AdmitSpent, AdmitShown, AdmitEnds
  <2>3. CASE ~AdmitConsumed(q)
    <3>1. s10' = s10
      BY <1>3, AdmitNonceEnds
    <3> QED BY <1>3, <2>3, <3>1, AdmitCommitMoves DEF AdmitConsumed
  <2> QED BY <2>2, <2>3
<1>4. ASSUME NEW r \in Requests, Admitting!Enter(r) PROVE AdmitSpent'
  <2>1. \A q \in Requests : AdmitConsumed(q)' => AdmitConsumed(q)
    BY <1>4, AdmitEnterMoves DEF AdmitConsumed
  <2> QED BY <1>4, <2>1, AdmitEnterMoves, AdmitSpentKept, AdmitNonceTimes
<1>5. ASSUME Admitting!Cleanup PROVE AdmitSpent'
  <2>1. s1' = s1 /\ UNCHANGED <<s8, s10>>
    BY <1>5 DEF Admitting!Cleanup, Admitting!policy, Admitting!history
  <2>2. \A n \in s5 : s1 < AssertEnds[n] => n \in s5'
    BY <1>5, AdmitNonceTimes DEF Admitting!Cleanup, Admitting!Prunable
  <2> QED BY <2>1, <2>2, AdmitSpentKept, AdmitNonceTimes DEF AdmitConsumed
<1>6. ASSUME Admitting!Tick PROVE AdmitSpent'
  <2>1. s1' = s1 + 1 /\ UNCHANGED <<s8, s10, s5>>
    BY <1>6 DEF Admitting!Tick, Admitting!table, Admitting!history
  <2> QED BY <2>1, AdmitSpentKept, AdmitNonceTimes DEF AdmitConsumed
<1>7. ASSUME Admitting!ChangePolicy \/ Admitting!ForgetCredential \/ UNCHANGED Admitting!vars PROVE AdmitSpent'
  <2>1. UNCHANGED <<s1, s8, s10, s5>>
    BY <1>7 DEF Admitting!ChangePolicy, Admitting!ForgetCredential, Admitting!vars, Admitting!table,
      Admitting!history
  <2> QED BY <2>1, AdmitSpentKept, AdmitNonceTimes DEF AdmitConsumed
<1> QED BY <1>1, <1>2, <1>3, <1>4, <1>5, <1>6, <1>7 DEF Admitting!Next, Admitting!Step, AdmitAside,
    Admitting!Finished

(* Every step keeps an insertion alone. *)
LEMMA AdmitFreshNext == ASSUME AdmitInv, [Admitting!Next]_(Admitting!vars) PROVE AdmitFresh' /\ Admitting!EnteredOnce'
<1>1. ASSUME NEW r \in Requests, AdmitAside(r) PROVE AdmitFresh' /\ Admitting!EnteredOnce'
  <2>1. \A q \in Requests : AdmitConsumed(q)' => AdmitConsumed(q)
    BY <1>1, AdmitAsideUsesNone DEF AdmitConsumed
  <2> QED BY <1>1, <2>1, AdmitAsideUsesNone, AdmitFreshKept, AdmitNonceTimes
<1>2. ASSUME NEW r \in Requests, Admitting!Insert(r) PROVE AdmitFresh' /\ Admitting!EnteredOnce'
  <2>1. \A q \in Requests : AdmitConsumed(q)' => AdmitConsumed(q)
    BY <1>2, AdmitInsertMoves DEF AdmitConsumed
  <2>2. CASE AdmitShown(r) \in s5
    BY <1>2, <2>1, <2>2, AdmitInsertMoves, AdmitFreshKept, AdmitNonceTimes
  <2>3. CASE AdmitShown(r) \notin s5
    <3>1. \A q \in Requests : AdmitShown(q) = AdmitShown(r) /\ s1 < AdmitEnds(q) => ~AdmitConsumed(q)
      BY <2>3 DEF AdmitInv, AdmitSpent
    <3>2. \A q \in Requests : AdmitShown(q) = AdmitShown(r) => AdmitEnds(q) = AdmitEnds(r)
      BY DEF AdmitShown, AdmitEnds
    <3>3. AdmitFresh'
      <4> SUFFICES ASSUME NEW p \in Requests, NEW q \in Requests, p # q, AdmitShown(p) = AdmitShown(q)
                   PROVE  /\ q \in s7' => p \notin s7' /\ (s1 < AdmitEnds(q) => ~AdmitConsumed(p)')
                          /\ s1 < AdmitEnds(q) => ~(AdmitConsumed(p)' /\ AdmitConsumed(q)')
        BY <1>2, AdmitInsertMoves DEF AdmitFresh, AdmitShown, AdmitEnds
      <4>1. s7' = s7 \cup {r} /\ \A k \in Requests : k # r /\ AdmitShown(k) = AdmitShown(r) => k \notin s7
        BY <1>2, <2>3, AdmitInsertMoves
      <4> QED BY <2>1, <3>1, <3>2, <4>1 DEF AdmitInv, AdmitFresh
    <3> QED BY <1>2, <3>3, AdmitInsertMoves DEF AdmitInv, Admitting!EnteredOnce
  <2> QED BY <2>2, <2>3
<1>3. ASSUME NEW r \in Requests, Admitting!CommitNonce(r) PROVE AdmitFresh' /\ Admitting!EnteredOnce'
  <2>1. UNCHANGED <<s1, s10>> /\ s7' = s7 \ {r}
    BY <1>3, AdmitNonceEnds
  <2>2. \A q \in Requests : AdmitConsumed(q)' => AdmitConsumed(q) \/ (q = r /\ r \in s7)
    BY <1>3, <2>1, AdmitCommitMoves DEF AdmitConsumed
  <2>3. AdmitFresh'
    <3> SUFFICES ASSUME NEW p \in Requests, NEW q \in Requests, p # q, AdmitShown(p) = AdmitShown(q)
                 PROVE  /\ q \in s7' => p \notin s7' /\ (s1 < AdmitEnds(q) => ~AdmitConsumed(p)')
                        /\ s1 < AdmitEnds(q) => ~(AdmitConsumed(p)' /\ AdmitConsumed(q)')
      BY <2>1 DEF AdmitFresh, AdmitShown, AdmitEnds
    <3>1. AdmitEnds(p) = AdmitEnds(q)
      BY DEF AdmitShown, AdmitEnds
    <3> QED BY <2>1, <2>2, <3>1 DEF AdmitInv, AdmitFresh
  <2> QED BY <2>1, <2>3 DEF AdmitInv, Admitting!EnteredOnce
<1>4. ASSUME NEW r \in Requests, Admitting!Enter(r) PROVE AdmitFresh' /\ Admitting!EnteredOnce'
  <2>1. \A q \in Requests : AdmitConsumed(q)' => AdmitConsumed(q)
    BY <1>4, AdmitEnterMoves DEF AdmitConsumed
  <2>2. AdmitFresh'
    <3> SUFFICES ASSUME NEW p \in Requests, NEW q \in Requests, p # q, AdmitShown(p) = AdmitShown(q)
                 PROVE  /\ q \in s7 => p \notin s7 /\ (s1 < AdmitEnds(q) => ~AdmitConsumed(p)')
                        /\ s1 < AdmitEnds(q) => ~(AdmitConsumed(p)' /\ AdmitConsumed(q)')
      BY <1>4, AdmitEnterMoves DEF AdmitFresh, AdmitShown, AdmitEnds
    <3> QED BY <2>1 DEF AdmitInv, AdmitFresh
  <2>3. \A q \in s10 : AdmitShown(q) = AdmitShown(r) => q = r
    <3> SUFFICES ASSUME NEW q \in s10, AdmitShown(q) = AdmitShown(r), q # r PROVE FALSE
      OBVIOUS
    <3>1. q \in Requests /\ AdmitConsumed(q) /\ AdmitConsumed(r) /\ s1 < AdmitEnds(r)
      BY <1>4, AdmitEnterMoves DEF AdmitInv, Admitting!TypeOK, AdmitConsumed
    <3> QED BY <3>1 DEF AdmitInv, AdmitFresh
  <2> QED BY <1>4, <2>2, <2>3, AdmitEnterMoves DEF AdmitInv, Admitting!EnteredOnce, AdmitShown
<1>5. ASSUME Admitting!Cleanup PROVE AdmitFresh' /\ Admitting!EnteredOnce'
  <2>1. UNCHANGED <<s1, s8, s10, s7>>
    BY <1>5 DEF Admitting!Cleanup, Admitting!policy, Admitting!history
  <2> QED BY <2>1, AdmitFreshKept, AdmitNonceTimes DEF AdmitConsumed
<1>6. ASSUME Admitting!Tick PROVE AdmitFresh' /\ Admitting!EnteredOnce'
  <2>1. s1' = s1 + 1 /\ UNCHANGED <<s8, s10, s7>>
    BY <1>6 DEF Admitting!Tick, Admitting!table, Admitting!history
  <2> QED BY <2>1, AdmitFreshKept, AdmitNonceTimes DEF AdmitConsumed
<1>7. ASSUME Admitting!ChangePolicy \/ Admitting!ForgetCredential \/ UNCHANGED Admitting!vars PROVE AdmitFresh' /\ Admitting!EnteredOnce'
  <2>1. UNCHANGED <<s1, s8, s10, s7>>
    BY <1>7 DEF Admitting!ChangePolicy, Admitting!ForgetCredential, Admitting!vars, Admitting!table,
      Admitting!history
  <2> QED BY <2>1, AdmitFreshKept, AdmitNonceTimes DEF AdmitConsumed
<1> QED BY <1>1, <1>2, <1>3, <1>4, <1>5, <1>6, <1>7 DEF Admitting!Next, Admitting!Step, AdmitAside,
    Admitting!Finished

(* Every step keeps what an effect has behind it. *)
LEMMA AdmitEffectNext == ASSUME AdmitInv, [Admitting!Next]_(Admitting!vars) PROVE AdmitEffectInv'
<1>1. ASSUME NEW r \in Requests, Admitting!Begin(r) PROVE AdmitEffectInv'
  BY <1>1 DEF Admitting!Begin, Admitting!At, Admitting!Go, Admitting!Answer, Admitting!Undo,
    Admitting!policy, Admitting!table, Admitting!history, AdmitInv, AdmitEffectInv, AdmitInEffect,
    Admitting!TypeOK, AdmitEnds, Admitting!InForce, Admitting!Timely, Admitting!Whole,
    Admitting!Steps
<1>2. ASSUME NEW r \in Requests, Admitting!Prune(r) PROVE AdmitEffectInv'
  BY SMTT(60), <1>2 DEF Admitting!Prune, Admitting!At, Admitting!Go, Admitting!Answer,
    Admitting!Undo, Admitting!policy, Admitting!table, Admitting!history, Admitting!Prunable,
    AdmitInv, AdmitEffectInv, AdmitInEffect, Admitting!TypeOK, AdmitEnds, Admitting!InForce,
    Admitting!Timely, Admitting!Whole, Admitting!Steps
<1>3. ASSUME NEW r \in Requests, Admitting!Eligible(r) PROVE AdmitEffectInv'
  BY <1>3 DEF Admitting!Eligible, Admitting!At, Admitting!Go, Admitting!Answer, Admitting!Undo,
    Admitting!policy, Admitting!table, Admitting!history, AdmitInv, AdmitEffectInv, AdmitInEffect,
    Admitting!TypeOK, AdmitEnds, Admitting!InForce, Admitting!Timely, Admitting!Whole,
    Admitting!Steps
<1>4. ASSUME NEW r \in Requests, Admitting!Insert(r) PROVE AdmitEffectInv'
  BY SMTT(60), <1>4 DEF Admitting!Insert, Admitting!At, Admitting!Go, Admitting!Answer,
    Admitting!Undo, Admitting!policy, Admitting!table, Admitting!history, AdmitInv, AdmitEffectInv,
    AdmitInEffect, Admitting!TypeOK, AdmitEnds, Admitting!InForce, Admitting!Timely,
    Admitting!Whole, Admitting!Steps
<1>5. ASSUME NEW r \in Requests, Admitting!CommitNonce(r) PROVE AdmitEffectInv'
  <2>1. UNCHANGED <<s9, s10, s11>> /\ s8[r].pc = "nonce"
    BY <1>5, AdmitNonceEnds
  <2>2. r \notin s10 /\ r \notin s11 /\ s8[r].answer = "none"
    BY <2>1 DEF AdmitInv, AdmitEffectInv, AdmitInEffect
  <2>3. /\ \A q \in Requests : q # r => s8'[q] = s8[q]
        /\ s8'[r].pc \in {"begin", "done"}
    BY <1>5, AdmitCommitMoves
  <2>4. s8'[r].pc = "begin" => s8'[r].answer = "none"
    BY <1>5, <2>2, AdmitCommitMoves
  <2> QED BY <2>1, <2>2, <2>3, <2>4 DEF AdmitInv, AdmitEffectInv, AdmitInEffect, Admitting!Whole
<1>6. ASSUME NEW r \in Requests, Admitting!Enter(r) PROVE AdmitEffectInv'
  BY SMTT(60), <1>6 DEF Admitting!Enter, Admitting!At, Admitting!Go, Admitting!Answer,
    Admitting!Undo, Admitting!policy, Admitting!table, Admitting!history, AdmitInv, AdmitEffectInv,
    AdmitInEffect, Admitting!TypeOK, AdmitEnds, Admitting!InForce, Admitting!Timely,
    Admitting!Whole, Admitting!Steps
<1>7. ASSUME NEW r \in Requests, Admitting!Issue(r) PROVE AdmitEffectInv'
  BY <1>7 DEF Admitting!Issue, Admitting!At, Admitting!Go, Admitting!Answer, Admitting!Undo,
    Admitting!policy, Admitting!table, Admitting!history, Admitting!Unissued, AdmitInv,
    AdmitEffectInv, AdmitInEffect, Admitting!TypeOK, AdmitEnds, Admitting!InForce, Admitting!Timely,
    Admitting!Whole, Admitting!Steps
<1>8. ASSUME NEW r \in Requests, Admitting!IssueNested(r) PROVE AdmitEffectInv'
  BY <1>8 DEF Admitting!IssueNested, Admitting!At, Admitting!Go, Admitting!Answer, Admitting!Undo,
    Admitting!policy, Admitting!table, Admitting!history, Admitting!Unissued, Admitting!Nestable,
    AdmitInv, AdmitEffectInv, AdmitInEffect, Admitting!TypeOK, AdmitEnds, Admitting!InForce,
    Admitting!Timely, Admitting!Whole, Admitting!Steps
<1>9. ASSUME NEW r \in Requests, Admitting!StartCall(r) PROVE AdmitEffectInv'
  BY <1>9 DEF Admitting!StartCall, Admitting!At, Admitting!Go, Admitting!Answer, Admitting!Undo,
    Admitting!policy, Admitting!table, Admitting!history, AdmitInv, AdmitEffectInv, AdmitInEffect,
    Admitting!TypeOK, AdmitEnds, Admitting!InForce, Admitting!Timely, Admitting!Whole,
    Admitting!Steps
<1>10. ASSUME NEW r \in Requests, Admitting!EndCall(r) PROVE AdmitEffectInv'
  BY <1>10 DEF Admitting!EndCall, Admitting!At, Admitting!Go, Admitting!Answer, Admitting!Undo,
    Admitting!policy, Admitting!table, Admitting!history, AdmitInv, AdmitEffectInv, AdmitInEffect,
    Admitting!TypeOK, AdmitEnds, Admitting!InForce, Admitting!Timely, Admitting!Whole,
    Admitting!Steps
<1>11. ASSUME NEW r \in Requests, Admitting!Return(r) PROVE AdmitEffectInv'
  BY <1>11 DEF Admitting!Return, Admitting!At, Admitting!Go, Admitting!Answer, Admitting!Undo,
    Admitting!policy, Admitting!table, Admitting!history, AdmitInv, AdmitEffectInv, AdmitInEffect,
    Admitting!TypeOK, AdmitEnds, Admitting!InForce, Admitting!Timely, Admitting!Whole,
    Admitting!Steps
<1>12. ASSUME NEW r \in Requests, Admitting!Settle(r) PROVE AdmitEffectInv'
  BY SMTT(60), <1>12 DEF Admitting!Settle, Admitting!At, Admitting!Go, Admitting!Answer,
    Admitting!Undo, Admitting!policy, Admitting!table, Admitting!history, AdmitInv, AdmitEffectInv,
    AdmitInEffect, Admitting!TypeOK, AdmitEnds, Admitting!InForce, Admitting!Timely,
    Admitting!Whole, Admitting!Steps
<1>13. ASSUME NEW r \in Requests, Admitting!Fence(r) PROVE AdmitEffectInv'
  BY SMTT(60), <1>13 DEF Admitting!Fence, Admitting!At, Admitting!Go, Admitting!Answer,
    Admitting!Undo, Admitting!policy, Admitting!table, Admitting!history, AdmitInv, AdmitEffectInv,
    AdmitInEffect, Admitting!TypeOK, AdmitEnds, Admitting!InForce, Admitting!Timely,
    Admitting!Whole, Admitting!Steps
<1>14. ASSUME NEW r \in Requests, Admitting!Commit(r) PROVE AdmitEffectInv'
  BY SMTT(60), <1>14 DEF Admitting!Commit, Admitting!At, Admitting!Go, Admitting!Answer,
    Admitting!Undo, Admitting!policy, Admitting!table, Admitting!history, AdmitInv, AdmitEffectInv,
    AdmitInEffect, Admitting!TypeOK, AdmitEnds, Admitting!InForce, Admitting!Timely,
    Admitting!Whole, Admitting!Steps
<1>15. ASSUME NEW r \in Requests, Admitting!Refuse(r) PROVE AdmitEffectInv'
  BY <1>15 DEF Admitting!Refuse, Admitting!At, Admitting!Go, Admitting!Answer, Admitting!Undo,
    Admitting!policy, Admitting!table, Admitting!history, AdmitInv, AdmitEffectInv, AdmitInEffect,
    Admitting!TypeOK, AdmitEnds, Admitting!InForce, Admitting!Timely, Admitting!Whole,
    Admitting!Steps
<1>16. ASSUME Admitting!Cleanup PROVE AdmitEffectInv'
  BY SMTT(60), <1>16 DEF Admitting!Cleanup, Admitting!At, Admitting!Go, Admitting!Answer,
    Admitting!Undo, Admitting!policy, Admitting!table, Admitting!history, Admitting!Prunable,
    AdmitInv, AdmitEffectInv, AdmitInEffect, Admitting!TypeOK, AdmitEnds, Admitting!InForce,
    Admitting!Timely, Admitting!Whole, Admitting!Steps
<1>17. ASSUME Admitting!ChangePolicy PROVE AdmitEffectInv'
  BY <1>17 DEF Admitting!ChangePolicy, Admitting!At, Admitting!Go, Admitting!Answer, Admitting!Undo,
    Admitting!policy, Admitting!table, Admitting!history, AdmitInv, AdmitEffectInv, AdmitInEffect,
    Admitting!TypeOK, AdmitEnds, Admitting!InForce, Admitting!Timely, Admitting!Whole,
    Admitting!Steps
<1>18. ASSUME Admitting!ForgetCredential PROVE AdmitEffectInv'
  BY <1>18 DEF Admitting!ForgetCredential, Admitting!At, Admitting!Go, Admitting!Answer,
    Admitting!Undo, Admitting!policy, Admitting!table, Admitting!history, AdmitInv, AdmitEffectInv,
    AdmitInEffect, Admitting!TypeOK, AdmitEnds, Admitting!InForce, Admitting!Timely,
    Admitting!Whole, Admitting!Steps
<1>19. ASSUME Admitting!Tick PROVE AdmitEffectInv'
  BY SMTT(60), <1>19 DEF Admitting!Tick, Admitting!At, Admitting!Go, Admitting!Answer,
    Admitting!Undo, Admitting!policy, Admitting!table, Admitting!history, AdmitInv, AdmitEffectInv,
    AdmitInEffect, Admitting!TypeOK, AdmitEnds, Admitting!InForce, Admitting!Timely,
    Admitting!Whole, Admitting!Steps
<1>20. ASSUME UNCHANGED Admitting!vars PROVE AdmitEffectInv'
  BY <1>20 DEF Admitting!vars, AdmitInv, AdmitEffectInv, AdmitInEffect, Admitting!TypeOK, AdmitEnds,
    Admitting!InForce, Admitting!Timely, Admitting!Whole, Admitting!Steps
<1> QED BY <1>1, <1>2, <1>3, <1>4, <1>5, <1>6, <1>7, <1>8, <1>9, <1>10, <1>11, <1>12, <1>13, <1>14,
    <1>15, <1>16, <1>17, <1>18, <1>19, <1>20 DEF Admitting!Next, Admitting!Step, Admitting!Finished

(* Nobody is inside whom the policy refuses. *)
LEMMA AdmitAllowedNext == ASSUME AdmitInv, [Admitting!Next]_(Admitting!vars) PROVE Admitting!InsideMeansAllowed'
<1>1. ASSUME NEW r \in Requests, Admitting!Begin(r) PROVE Admitting!InsideMeansAllowed'
  BY <1>1 DEF Admitting!Begin, Admitting!At, Admitting!Go, Admitting!Answer, Admitting!Undo,
    Admitting!policy, Admitting!table, Admitting!history, AdmitInv, Admitting!InsideMeansAllowed,
    Admitting!TypeOK, Admitting!InForce, Admitting!Routable, Admitting!Held, Admitting!HoldsPolicy
<1>2. ASSUME NEW r \in Requests, Admitting!Prune(r) PROVE Admitting!InsideMeansAllowed'
  BY <1>2 DEF Admitting!Prune, Admitting!At, Admitting!Go, Admitting!Answer, Admitting!Undo,
    Admitting!policy, Admitting!table, Admitting!history, Admitting!Prunable, AdmitInv,
    Admitting!InsideMeansAllowed, Admitting!TypeOK, Admitting!InForce, Admitting!Routable,
    Admitting!Held, Admitting!HoldsPolicy
<1>3. ASSUME NEW r \in Requests, Admitting!Eligible(r) PROVE Admitting!InsideMeansAllowed'
  BY <1>3 DEF Admitting!Eligible, Admitting!At, Admitting!Go, Admitting!Answer, Admitting!Undo,
    Admitting!policy, Admitting!table, Admitting!history, AdmitInv, Admitting!InsideMeansAllowed,
    Admitting!TypeOK, Admitting!InForce, Admitting!Routable, Admitting!Held, Admitting!HoldsPolicy
<1>4. ASSUME NEW r \in Requests, Admitting!Insert(r) PROVE Admitting!InsideMeansAllowed'
  BY <1>4 DEF Admitting!Insert, Admitting!At, Admitting!Go, Admitting!Answer, Admitting!Undo,
    Admitting!policy, Admitting!table, Admitting!history, AdmitInv, Admitting!InsideMeansAllowed,
    Admitting!TypeOK, Admitting!InForce, Admitting!Routable, Admitting!Held, Admitting!HoldsPolicy
<1>5. ASSUME NEW r \in Requests, Admitting!CommitNonce(r) PROVE Admitting!InsideMeansAllowed'
  BY <1>5 DEF Admitting!CommitNonce, Admitting!At, Admitting!Go, Admitting!Answer, Admitting!Undo,
    Admitting!policy, Admitting!table, Admitting!history, AdmitInv, Admitting!InsideMeansAllowed,
    Admitting!TypeOK, Admitting!InForce, Admitting!Routable, Admitting!Held, Admitting!HoldsPolicy
<1>6. ASSUME NEW r \in Requests, Admitting!Enter(r) PROVE Admitting!InsideMeansAllowed'
  BY <1>6 DEF Admitting!Enter, Admitting!At, Admitting!Go, Admitting!Answer, Admitting!Undo,
    Admitting!policy, Admitting!table, Admitting!history, AdmitInv, Admitting!InsideMeansAllowed,
    Admitting!TypeOK, Admitting!InForce, Admitting!Routable, Admitting!Held, Admitting!HoldsPolicy
<1>7. ASSUME NEW r \in Requests, Admitting!Issue(r) PROVE Admitting!InsideMeansAllowed'
  BY <1>7 DEF Admitting!Issue, Admitting!At, Admitting!Go, Admitting!Answer, Admitting!Undo,
    Admitting!policy, Admitting!table, Admitting!history, Admitting!Unissued, AdmitInv,
    Admitting!InsideMeansAllowed, Admitting!TypeOK, Admitting!InForce, Admitting!Routable,
    Admitting!Held, Admitting!HoldsPolicy
<1>8. ASSUME NEW r \in Requests, Admitting!IssueNested(r) PROVE Admitting!InsideMeansAllowed'
  BY <1>8 DEF Admitting!IssueNested, Admitting!At, Admitting!Go, Admitting!Answer, Admitting!Undo,
    Admitting!policy, Admitting!table, Admitting!history, Admitting!Unissued, Admitting!Nestable,
    AdmitInv, Admitting!InsideMeansAllowed, Admitting!TypeOK, Admitting!InForce, Admitting!Routable,
    Admitting!Held, Admitting!HoldsPolicy
<1>9. ASSUME NEW r \in Requests, Admitting!StartCall(r) PROVE Admitting!InsideMeansAllowed'
  BY <1>9 DEF Admitting!StartCall, Admitting!At, Admitting!Go, Admitting!Answer, Admitting!Undo,
    Admitting!policy, Admitting!table, Admitting!history, AdmitInv, Admitting!InsideMeansAllowed,
    Admitting!TypeOK, Admitting!InForce, Admitting!Routable, Admitting!Held, Admitting!HoldsPolicy
<1>10. ASSUME NEW r \in Requests, Admitting!EndCall(r) PROVE Admitting!InsideMeansAllowed'
  BY <1>10 DEF Admitting!EndCall, Admitting!At, Admitting!Go, Admitting!Answer, Admitting!Undo,
    Admitting!policy, Admitting!table, Admitting!history, AdmitInv, Admitting!InsideMeansAllowed,
    Admitting!TypeOK, Admitting!InForce, Admitting!Routable, Admitting!Held, Admitting!HoldsPolicy
<1>11. ASSUME NEW r \in Requests, Admitting!Return(r) PROVE Admitting!InsideMeansAllowed'
  BY <1>11 DEF Admitting!Return, Admitting!At, Admitting!Go, Admitting!Answer, Admitting!Undo,
    Admitting!policy, Admitting!table, Admitting!history, AdmitInv, Admitting!InsideMeansAllowed,
    Admitting!TypeOK, Admitting!InForce, Admitting!Routable, Admitting!Held, Admitting!HoldsPolicy
<1>12. ASSUME NEW r \in Requests, Admitting!Settle(r) PROVE Admitting!InsideMeansAllowed'
  BY <1>12 DEF Admitting!Settle, Admitting!At, Admitting!Go, Admitting!Answer, Admitting!Undo,
    Admitting!policy, Admitting!table, Admitting!history, AdmitInv, Admitting!InsideMeansAllowed,
    Admitting!TypeOK, Admitting!InForce, Admitting!Routable, Admitting!Held, Admitting!HoldsPolicy
<1>13. ASSUME NEW r \in Requests, Admitting!Fence(r) PROVE Admitting!InsideMeansAllowed'
  BY <1>13 DEF Admitting!Fence, Admitting!At, Admitting!Go, Admitting!Answer, Admitting!Undo,
    Admitting!policy, Admitting!table, Admitting!history, AdmitInv, Admitting!InsideMeansAllowed,
    Admitting!TypeOK, Admitting!InForce, Admitting!Routable, Admitting!Held, Admitting!HoldsPolicy
<1>14. ASSUME NEW r \in Requests, Admitting!Commit(r) PROVE Admitting!InsideMeansAllowed'
  BY <1>14 DEF Admitting!Commit, Admitting!At, Admitting!Go, Admitting!Answer, Admitting!Undo,
    Admitting!policy, Admitting!table, Admitting!history, AdmitInv, Admitting!InsideMeansAllowed,
    Admitting!TypeOK, Admitting!InForce, Admitting!Routable, Admitting!Held, Admitting!HoldsPolicy
<1>15. ASSUME NEW r \in Requests, Admitting!Refuse(r) PROVE Admitting!InsideMeansAllowed'
  BY <1>15 DEF Admitting!Refuse, Admitting!At, Admitting!Go, Admitting!Answer, Admitting!Undo,
    Admitting!policy, Admitting!table, Admitting!history, AdmitInv, Admitting!InsideMeansAllowed,
    Admitting!TypeOK, Admitting!InForce, Admitting!Routable, Admitting!Held, Admitting!HoldsPolicy
<1>16. ASSUME Admitting!Cleanup PROVE Admitting!InsideMeansAllowed'
  BY <1>16 DEF Admitting!Cleanup, Admitting!At, Admitting!Go, Admitting!Answer, Admitting!Undo,
    Admitting!policy, Admitting!table, Admitting!history, Admitting!Prunable, AdmitInv,
    Admitting!InsideMeansAllowed, Admitting!TypeOK, Admitting!InForce, Admitting!Routable,
    Admitting!Held, Admitting!HoldsPolicy
<1>17. ASSUME Admitting!ChangePolicy PROVE Admitting!InsideMeansAllowed'
  BY <1>17 DEF Admitting!ChangePolicy, Admitting!At, Admitting!Go, Admitting!Answer, Admitting!Undo,
    Admitting!policy, Admitting!table, Admitting!history, AdmitInv, Admitting!InsideMeansAllowed,
    Admitting!TypeOK, Admitting!InForce, Admitting!Routable, Admitting!Held, Admitting!HoldsPolicy
<1>18. ASSUME Admitting!ForgetCredential PROVE Admitting!InsideMeansAllowed'
  BY <1>18 DEF Admitting!ForgetCredential, Admitting!At, Admitting!Go, Admitting!Answer,
    Admitting!Undo, Admitting!policy, Admitting!table, Admitting!history, AdmitInv,
    Admitting!InsideMeansAllowed, Admitting!TypeOK, Admitting!InForce, Admitting!Routable,
    Admitting!Held, Admitting!HoldsPolicy
<1>19. ASSUME Admitting!Tick PROVE Admitting!InsideMeansAllowed'
  BY <1>19 DEF Admitting!Tick, Admitting!At, Admitting!Go, Admitting!Answer, Admitting!Undo,
    Admitting!policy, Admitting!table, Admitting!history, AdmitInv, Admitting!InsideMeansAllowed,
    Admitting!TypeOK, Admitting!InForce, Admitting!Routable, Admitting!Held, Admitting!HoldsPolicy
<1>20. ASSUME UNCHANGED Admitting!vars PROVE Admitting!InsideMeansAllowed'
  BY <1>20 DEF Admitting!vars, AdmitInv, Admitting!InsideMeansAllowed, Admitting!TypeOK,
    Admitting!InForce, Admitting!Routable, Admitting!Held, Admitting!HoldsPolicy
<1> QED BY <1>1, <1>2, <1>3, <1>4, <1>5, <1>6, <1>7, <1>8, <1>9, <1>10, <1>11, <1>12, <1>13, <1>14,
    <1>15, <1>16, <1>17, <1>18, <1>19, <1>20 DEF Admitting!Next, Admitting!Step, Admitting!Finished

(* What commits is whole, and told. *)
LEMMA AdmitCommitsNext == ASSUME AdmitInv, [Admitting!Next]_(Admitting!vars) PROVE Admitting!CommitsWhole' /\ Admitting!AnswersTell'
<1>1. ASSUME NEW r \in Requests, Admitting!Begin(r) PROVE Admitting!CommitsWhole' /\ Admitting!AnswersTell'
  BY <1>1 DEF Admitting!Begin, Admitting!At, Admitting!Go, Admitting!Answer, Admitting!Undo,
    Admitting!policy, Admitting!table, Admitting!history, AdmitInv, AdmitEffectInv, AdmitInEffect,
    Admitting!TypeOK, Admitting!CommitsWhole, Admitting!AnswersTell, AdmitEnds, Admitting!Whole
<1>2. ASSUME NEW r \in Requests, Admitting!Prune(r) PROVE Admitting!CommitsWhole' /\ Admitting!AnswersTell'
  BY <1>2 DEF Admitting!Prune, Admitting!At, Admitting!Go, Admitting!Answer, Admitting!Undo,
    Admitting!policy, Admitting!table, Admitting!history, Admitting!Prunable, AdmitInv,
    AdmitEffectInv, AdmitInEffect, Admitting!TypeOK, Admitting!CommitsWhole, Admitting!AnswersTell,
    AdmitEnds, Admitting!Whole
<1>3. ASSUME NEW r \in Requests, Admitting!Eligible(r) PROVE Admitting!CommitsWhole' /\ Admitting!AnswersTell'
  BY <1>3 DEF Admitting!Eligible, Admitting!At, Admitting!Go, Admitting!Answer, Admitting!Undo,
    Admitting!policy, Admitting!table, Admitting!history, AdmitInv, AdmitEffectInv, AdmitInEffect,
    Admitting!TypeOK, Admitting!CommitsWhole, Admitting!AnswersTell, AdmitEnds, Admitting!Whole
<1>4. ASSUME NEW r \in Requests, Admitting!Insert(r) PROVE Admitting!CommitsWhole' /\ Admitting!AnswersTell'
  BY <1>4 DEF Admitting!Insert, Admitting!At, Admitting!Go, Admitting!Answer, Admitting!Undo,
    Admitting!policy, Admitting!table, Admitting!history, AdmitInv, AdmitEffectInv, AdmitInEffect,
    Admitting!TypeOK, Admitting!CommitsWhole, Admitting!AnswersTell, AdmitEnds, Admitting!Whole
<1>5. ASSUME NEW r \in Requests, Admitting!CommitNonce(r) PROVE Admitting!CommitsWhole' /\ Admitting!AnswersTell'
  <2>1. /\ UNCHANGED <<s10, s11, s9>> /\ r \notin s11
        /\ \A q \in Requests \ {r} : s8'[q] = s8[q]
        /\ s8'[r].answer \in {"none", "refused", "unknown"}
    <3>1. UNCHANGED <<s10, s11, s9>> /\ s8[r].pc = "nonce"
      BY <1>5, AdmitNonceEnds
    <3>2. r \notin s11 /\ s8[r].answer = "none"
      BY <3>1 DEF AdmitInv, AdmitEffectInv
    <3>3. CASE s8' = [s8 EXCEPT ![r].pc = "begin"]
      BY <3>1, <3>2, <3>3, AdmitTyping DEF AdmitInv, AdmitRequestType
    <3>4. CASE \E a \in {"refused", "unknown"} : s8' = [s8 EXCEPT ![r].pc = "done", ![r].answer = a]
      BY <3>1, <3>2, <3>4, AdmitTyping DEF AdmitInv, AdmitRequestType
    <3> QED BY <1>5, <3>3, <3>4, AdmitNonceEnds
  <2> QED BY <2>1 DEF AdmitInv, Admitting!TypeOK, Admitting!CommitsWhole, Admitting!AnswersTell
<1>6. ASSUME NEW r \in Requests, Admitting!Enter(r) PROVE Admitting!CommitsWhole' /\ Admitting!AnswersTell'
  BY <1>6 DEF Admitting!Enter, Admitting!At, Admitting!Go, Admitting!Answer, Admitting!Undo,
    Admitting!policy, Admitting!table, Admitting!history, AdmitInv, AdmitEffectInv, AdmitInEffect,
    Admitting!TypeOK, Admitting!CommitsWhole, Admitting!AnswersTell, AdmitEnds, Admitting!Whole
<1>7. ASSUME NEW r \in Requests, Admitting!Issue(r) PROVE Admitting!CommitsWhole' /\ Admitting!AnswersTell'
  BY <1>7 DEF Admitting!Issue, Admitting!At, Admitting!Go, Admitting!Answer, Admitting!Undo,
    Admitting!policy, Admitting!table, Admitting!history, Admitting!Unissued, AdmitInv,
    AdmitEffectInv, AdmitInEffect, Admitting!TypeOK, Admitting!CommitsWhole, Admitting!AnswersTell,
    AdmitEnds, Admitting!Whole
<1>8. ASSUME NEW r \in Requests, Admitting!IssueNested(r) PROVE Admitting!CommitsWhole' /\ Admitting!AnswersTell'
  BY <1>8 DEF Admitting!IssueNested, Admitting!At, Admitting!Go, Admitting!Answer, Admitting!Undo,
    Admitting!policy, Admitting!table, Admitting!history, Admitting!Unissued, Admitting!Nestable,
    AdmitInv, AdmitEffectInv, AdmitInEffect, Admitting!TypeOK, Admitting!CommitsWhole,
    Admitting!AnswersTell, AdmitEnds, Admitting!Whole
<1>9. ASSUME NEW r \in Requests, Admitting!StartCall(r) PROVE Admitting!CommitsWhole' /\ Admitting!AnswersTell'
  BY <1>9 DEF Admitting!StartCall, Admitting!At, Admitting!Go, Admitting!Answer, Admitting!Undo,
    Admitting!policy, Admitting!table, Admitting!history, AdmitInv, AdmitEffectInv, AdmitInEffect,
    Admitting!TypeOK, Admitting!CommitsWhole, Admitting!AnswersTell, AdmitEnds, Admitting!Whole
<1>10. ASSUME NEW r \in Requests, Admitting!EndCall(r) PROVE Admitting!CommitsWhole' /\ Admitting!AnswersTell'
  BY <1>10 DEF Admitting!EndCall, Admitting!At, Admitting!Go, Admitting!Answer, Admitting!Undo,
    Admitting!policy, Admitting!table, Admitting!history, AdmitInv, AdmitEffectInv, AdmitInEffect,
    Admitting!TypeOK, Admitting!CommitsWhole, Admitting!AnswersTell, AdmitEnds, Admitting!Whole
<1>11. ASSUME NEW r \in Requests, Admitting!Return(r) PROVE Admitting!CommitsWhole' /\ Admitting!AnswersTell'
  BY <1>11 DEF Admitting!Return, Admitting!At, Admitting!Go, Admitting!Answer, Admitting!Undo,
    Admitting!policy, Admitting!table, Admitting!history, AdmitInv, AdmitEffectInv, AdmitInEffect,
    Admitting!TypeOK, Admitting!CommitsWhole, Admitting!AnswersTell, AdmitEnds, Admitting!Whole
<1>12. ASSUME NEW r \in Requests, Admitting!Settle(r) PROVE Admitting!CommitsWhole' /\ Admitting!AnswersTell'
  <2>1. /\ UNCHANGED <<s10, s11, s9>> /\ r \notin s11
        /\ \A q \in Requests \ {r} : s8'[q] = s8[q]
        /\ s8'[r].answer \in {"none", "refused"}
    BY <1>12 DEF Admitting!Settle, Admitting!At, Admitting!Go, Admitting!Answer, Admitting!history,
      AdmitInv, Admitting!TypeOK, AdmitEffectInv
  <2> QED BY <2>1 DEF AdmitInv, Admitting!TypeOK, Admitting!CommitsWhole, Admitting!AnswersTell
<1>13. ASSUME NEW r \in Requests, Admitting!Fence(r) PROVE Admitting!CommitsWhole' /\ Admitting!AnswersTell'
  BY <1>13 DEF Admitting!Fence, Admitting!At, Admitting!Go, Admitting!Answer, Admitting!Undo,
    Admitting!policy, Admitting!table, Admitting!history, AdmitInv, AdmitEffectInv, AdmitInEffect,
    Admitting!TypeOK, Admitting!CommitsWhole, Admitting!AnswersTell, AdmitEnds, Admitting!Whole
<1>14. ASSUME NEW r \in Requests, Admitting!Commit(r) PROVE Admitting!CommitsWhole' /\ Admitting!AnswersTell'
  BY <1>14 DEF Admitting!Commit, Admitting!At, Admitting!Go, Admitting!Answer, Admitting!Undo,
    Admitting!policy, Admitting!table, Admitting!history, AdmitInv, AdmitEffectInv, AdmitInEffect,
    Admitting!TypeOK, Admitting!CommitsWhole, Admitting!AnswersTell, AdmitEnds, Admitting!Whole
<1>15. ASSUME NEW r \in Requests, Admitting!Refuse(r) PROVE Admitting!CommitsWhole' /\ Admitting!AnswersTell'
  BY <1>15 DEF Admitting!Refuse, Admitting!At, Admitting!Go, Admitting!Answer, Admitting!Undo,
    Admitting!policy, Admitting!table, Admitting!history, AdmitInv, AdmitEffectInv, AdmitInEffect,
    Admitting!TypeOK, Admitting!CommitsWhole, Admitting!AnswersTell, AdmitEnds, Admitting!Whole
<1>16. ASSUME Admitting!Cleanup PROVE Admitting!CommitsWhole' /\ Admitting!AnswersTell'
  BY <1>16 DEF Admitting!Cleanup, Admitting!At, Admitting!Go, Admitting!Answer, Admitting!Undo,
    Admitting!policy, Admitting!table, Admitting!history, Admitting!Prunable, AdmitInv,
    AdmitEffectInv, AdmitInEffect, Admitting!TypeOK, Admitting!CommitsWhole, Admitting!AnswersTell,
    AdmitEnds, Admitting!Whole
<1>17. ASSUME Admitting!ChangePolicy PROVE Admitting!CommitsWhole' /\ Admitting!AnswersTell'
  BY <1>17 DEF Admitting!ChangePolicy, Admitting!At, Admitting!Go, Admitting!Answer, Admitting!Undo,
    Admitting!policy, Admitting!table, Admitting!history, AdmitInv, AdmitEffectInv, AdmitInEffect,
    Admitting!TypeOK, Admitting!CommitsWhole, Admitting!AnswersTell, AdmitEnds, Admitting!Whole
<1>18. ASSUME Admitting!ForgetCredential PROVE Admitting!CommitsWhole' /\ Admitting!AnswersTell'
  BY <1>18 DEF Admitting!ForgetCredential, Admitting!At, Admitting!Go, Admitting!Answer,
    Admitting!Undo, Admitting!policy, Admitting!table, Admitting!history, AdmitInv, AdmitEffectInv,
    AdmitInEffect, Admitting!TypeOK, Admitting!CommitsWhole, Admitting!AnswersTell, AdmitEnds,
    Admitting!Whole
<1>19. ASSUME Admitting!Tick PROVE Admitting!CommitsWhole' /\ Admitting!AnswersTell'
  BY <1>19 DEF Admitting!Tick, Admitting!At, Admitting!Go, Admitting!Answer, Admitting!Undo,
    Admitting!policy, Admitting!table, Admitting!history, AdmitInv, AdmitEffectInv, AdmitInEffect,
    Admitting!TypeOK, Admitting!CommitsWhole, Admitting!AnswersTell, AdmitEnds, Admitting!Whole
<1>20. ASSUME UNCHANGED Admitting!vars PROVE Admitting!CommitsWhole' /\ Admitting!AnswersTell'
  BY <1>20 DEF Admitting!vars, AdmitInv, AdmitEffectInv, AdmitInEffect, Admitting!TypeOK,
    Admitting!CommitsWhole, Admitting!AnswersTell, AdmitEnds, Admitting!Whole
<1> QED BY <1>1, <1>2, <1>3, <1>4, <1>5, <1>6, <1>7, <1>8, <1>9, <1>10, <1>11, <1>12, <1>13, <1>14,
    <1>15, <1>16, <1>17, <1>18, <1>19, <1>20 DEF Admitting!Next, Admitting!Step, Admitting!Finished

(* Every step keeps the invariant. *)
LEMMA AdmitNextInv == AdmitInv /\ [Admitting!Next]_(Admitting!vars) => AdmitInv'
BY AdmitTypeNext, AdmitPrunedNext, AdmitSpentNext, AdmitFreshNext, AdmitEffectNext,
  AdmitAllowedNext, AdmitCommitsNext DEF AdmitInv

(* A used assertion's nonce stays until it ends. *)
LEMMA AdmitStaysSpent == AdmitInv => Admitting!SpentStays
<1> SUFFICES ASSUME AdmitInv, NEW r \in s10, s1 < AssertEnds[AssertionOf[r]]
             PROVE  AssertionOf[r] \in s5
  BY DEF Admitting!SpentStays
<1> QED BY DEF AdmitInv, Admitting!TypeOK, AdmitSpent, AdmitConsumed, AdmitEnds, AdmitShown

(* What the invariant promises. *)
LEMMA AdmitPromises == AdmitInv => Admitting!AssertionsSpentOnce /\ Admitting!AdmissionsHold
BY AdmitStaysSpent DEF AdmitInv, Admitting!AssertionsSpentOnce, Admitting!AdmissionsHold

----------------------------------------------------------------------------
(* Keys: the part "keys". *)

(* The constants are as AgentKeys assumes. *)
LEMMA KeyConstants == Issuing!KeysAssumption
  BY SuiteAssumption


(* What the types say of one call. *)
LEMMA KeyCallTyped ==
  ASSUME Issuing!TypeOK, NEW a \in Issuing!Actors
  PROVE  /\ s6[a] \in Issuing!Call /\ s6[a].pc \in Issuing!Pcs /\ s6[a].space \in Nat /\ s6[a].version \in Nat
         /\ s6[a].checked \in BOOLEAN /\ s6[a].failed \in BOOLEAN /\ s6[a].blind \in BOOLEAN
         /\ s6[a].force \in BOOLEAN /\ s6[a].at \in KeyIssuers \union {None}
         /\ s6[a].todo \subseteq KeyIssuers /\ s6[a].known \subseteq KeyIssuers /\ s6[a].noKey \subseteq KeyIssuers
BY DEF Issuing!TypeOK, Issuing!Call

(* Issuers and cleaners are different calls. *)
LEMMA KeyApart == KeyIssuers \subseteq Issuing!Actors /\ KeyCleaners \subseteq Issuing!Actors /\ \A i \in KeyIssuers : i \notin KeyCleaners /\ i # None
BY KeyConstants DEF Issuing!KeysAssumption, Issuing!Actors

(* What a step of one call may do to what the others rely on. *)
KeyDrift ==
    /\ \A i \in KeyIssuers :
         /\ s3[i] \subseteq s3'[i]
         /\ s5[i] # "none" => s5'[i] # "none"
         /\ s5[i] = "revoked" => s5'[i] = "revoked"
         /\ s1.lifecycle # "active" /\ Issuing!Gone(i) => Issuing!Gone(i)'
         /\ "staged" \in s4[i] => "staged" \in s4'[i] \/ s2'.lifecycle # "active"
         /\ "revoked" \in s4[i] => "revoked" \in s4'[i] \/ s2'.lifecycle # "active"
         /\ "revoked" \in s4'[i] /\ "revoked" \notin s4[i] => s2'.version > s2.version
    /\ s2.version <= s2'.version
    /\ s2'.version = s2.version => s2'.lifecycle = s2.lifecycle
    /\ s2.lifecycle # "active" => s2'.lifecycle # "active"
    /\ s2.lifecycle = "deleted" => s2'.lifecycle = "deleted"
    /\ s1.version <= s1'.version
    /\ s1'.version = s1.version => s1'.lifecycle = s1.lifecycle
    /\ s1.lifecycle # "active" => s1'.lifecycle # "active"

(* What others do to an issuer's credential: nothing, or they take it away. *)
KeySettles(i) ==
    /\ s4'[i] \subseteq s4[i] \union {"revoked", "providerRevoked"}
    /\ s4[i] = {} => s4'[i] = {}

(* A step of one call, or of none: the others' calls stay, and so does what they rely on. *)
KeyStep(S) ==
       /\ Issuing!TypeOK' /\ Issuing!Shown' /\ KeyDrift
       /\ \A i \in KeyIssuers : Issuing!RowOK(i)'
       /\ \A i \in KeyIssuers \ S :
            s6'[i] = s6[i] /\ Issuing!Untouched(i)' /\ KeySettles(i)
       /\ \A i \in KeyIssuers \intersect S : Issuing!IssuerOK(i)' /\ Issuing!Untouched(i)'
       /\ \A c \in KeyCleaners \ S : s6'[c] = s6[c]
       /\ \A c \in KeyCleaners \intersect S : Issuing!CleanerOK(c)'

(* Another issuer's place fits after the step. *)
LEMMA KeyOtherIssuer ==
  ASSUME Issuing!Inv, Issuing!TypeOK', KeyDrift, NEW i \in KeyIssuers, s6'[i] = s6[i], KeySettles(i)
  PROVE  Issuing!IssuerOK(i)'
<1>1. Issuing!IssuerOK(i)
  BY DEF Issuing!Inv
<1>2. /\ s6[i].space \in Nat /\ s6[i].version \in Nat /\ s1.version \in Nat /\ s2.version \in Nat
      /\ s1'.version \in Nat /\ s2'.version \in Nat
  BY KeyCallTyped, KeyApart DEF Issuing!Inv, Issuing!TypeOK
<1>3. Issuing!ReadBefore(i) => Issuing!ReadBefore(i)'
  BY <1>2 DEF Issuing!ReadBefore, KeyDrift
<1>4. s6[i].pc = "grant" =>
       /\ "activated" \notin s4'[i]
       /\ "staged" \in s4'[i] \/ s2'.lifecycle # "active"
       /\ "revoked" \in s4'[i] => s2'.version > s6[i].space
  <2>1. s6[i].pc = "grant" => s6[i].space <= s2.version
    BY <1>1, <1>2 DEF Issuing!IssuerOK, Issuing!ReadBefore, Issuing!Inv, Issuing!Shown
  <2> QED
    BY <1>1, <1>2, <2>1 DEF Issuing!IssuerOK, KeyDrift, KeySettles
<1>5. s6[i].pc = "publish" =>
       /\ s6[i].space < s6[i].version /\ s6[i].version <= s2'.version
       /\ s6[i].version = s2'.version => s2'.lifecycle = "active"
  BY <1>1, <1>2 DEF Issuing!IssuerOK, KeyDrift
<1>6. s6[i].pc \in Issuing!Activating => s1'.version >= s6[i].version
  BY <1>1, <1>2 DEF Issuing!IssuerOK, KeyDrift
<1> QED
  BY <1>1, <1>3, <1>4, <1>5, <1>6 DEF Issuing!IssuerOK, KeyDrift, KeySettles

(* And another cleaner's. *)
LEMMA KeyOtherCleaner ==
  ASSUME Issuing!Inv, Issuing!TypeOK', KeyDrift, NEW c \in KeyCleaners, s6'[c] = s6[c]
  PROVE  Issuing!CleanerOK(c)'
<1>1. Issuing!CleanerOK(c)
  BY DEF Issuing!Inv
<1>2. /\ s6[c].space \in Nat /\ s6[c].version \in Nat /\ s1.version \in Nat /\ s2.version \in Nat
      /\ s1'.version \in Nat /\ s2'.version \in Nat
      /\ s6[c].known \subseteq KeyIssuers /\ s6[c].noKey \subseteq KeyIssuers
  BY KeyCallTyped, KeyApart DEF Issuing!Inv, Issuing!TypeOK
<1>3. Issuing!ReadBefore(c) => Issuing!ReadBefore(c)'
  BY <1>2 DEF Issuing!ReadBefore, KeyDrift
<1>4. s6[c].pc = "publishClosed" =>
       /\ Issuing!ReadBefore(c)' /\ s6[c].space < s6[c].version /\ s6[c].version <= s2'.version
       /\ s2'.lifecycle # "active" /\ (s6[c].version = s2'.version => s2'.lifecycle = "closed")
  BY <1>1, <1>2, <1>3 DEF Issuing!CleanerOK, KeyDrift
<1>5. /\ \A i \in s6[c].known : "credential" \in s3'[i]
      /\ \A i \in s6[c].noKey : "createFailed" \in s3'[i]
  BY <1>1, <1>2 DEF Issuing!CleanerOK, KeyDrift
<1>6. s6[c].force /\ s6[c].pc \in Issuing!AtRow \union {"rows", "publishDeleted"} =>
       \A i \in KeyIssuers : Issuing!Gone(i)' \/ i \in s6[c].todo \/ (s6[c].pc \in Issuing!AtRow /\ i = s6[c].at)
  BY <1>1 DEF Issuing!CleanerOK, KeyDrift
<1>7. /\ s6[c].pc \in Issuing!AtRow => "cancelled" \in s3'[s6[c].at]
      /\ s6[c].pc \in {"learnRow", "failRow", "revokeRow", "revoke"} => s5'[s6[c].at] # "none"
      /\ s6[c].pc \in {"journalRow", "cellRow", "markCell", "markJournal"} => s5'[s6[c].at] = "revoked"
      /\ s6[c].pc = "revoke" => "revoked" \in s4'[s6[c].at] \/ s2'.lifecycle # "active"
  BY <1>1 DEF Issuing!CleanerOK, KeyDrift, Issuing!AtRow
<1> QED
  BY <1>1, <1>4, <1>5, <1>6, <1>7 DEF Issuing!CleanerOK, KeyDrift

(* A step keeps the invariant. *)
LEMMA KeyStepKeeps == ASSUME Issuing!Inv, NEW S, KeyStep(S) PROVE Issuing!Inv'
<1>0. Issuing!TypeOK' /\ Issuing!Shown' /\ KeyDrift
  BY DEF KeyStep
<1>1. ASSUME NEW i \in KeyIssuers PROVE Issuing!RowOK(i)' /\ Issuing!IssuerOK(i)' /\ Issuing!Untouched(i)'
  <2>1. CASE i \in S
    BY <2>1 DEF KeyStep
  <2>2. CASE i \notin S
    <3>1. s6'[i] = s6[i] /\ Issuing!Untouched(i)' /\ Issuing!RowOK(i)' /\ KeySettles(i)
      BY <2>2 DEF KeyStep
    <3> QED
      BY <1>0, <3>1, KeyOtherIssuer
  <2> QED
    BY <2>1, <2>2
<1>2. ASSUME NEW c \in KeyCleaners PROVE Issuing!CleanerOK(c)'
  <2>1. CASE c \in S
    BY <2>1 DEF KeyStep
  <2>2. CASE c \notin S
    <3>1. s6'[c] = s6[c]
      BY <2>2 DEF KeyStep
    <3> QED
      BY <1>0, <3>1, KeyOtherCleaner
  <2> QED
    BY <2>1, <2>2
<1> QED
  BY <1>0, <1>1, <1>2 DEF Issuing!Inv

(* At first no row, key or credential is there. *)
LEMMA KeyInitInv == Issuing!Init => Issuing!Inv
<1> SUFFICES ASSUME Issuing!Init PROVE Issuing!Inv
  OBVIOUS
<1>1. \A a \in Issuing!Actors : s6[a] = Issuing!NoCall(a) /\ s6[a] \in Issuing!Call
  BY DEF Issuing!Init, Issuing!NoCall, Issuing!Call, Issuing!Pcs, Issuing!Over
<1>2. Issuing!TypeOK
  BY <1>1, KeyConstants DEF Issuing!TypeOK, Issuing!Init, Issuing!Lifecycles,
    Issuing!JournalColumns, Issuing!KeyColumns, Issuing!KeysAssumption
<1>3. \A i \in KeyIssuers : Issuing!RowOK(i) /\ Issuing!IssuerOK(i) /\ Issuing!Untouched(i) /\ Issuing!Gone(i)
  BY <1>1, KeyApart DEF Issuing!Init, Issuing!NoCall, Issuing!RowOK, Issuing!IssuerOK,
    Issuing!Untouched, Issuing!Gone, Issuing!Past, Issuing!Over, Issuing!Going, Issuing!Learned,
    Issuing!Steps, Issuing!Activating
<1>4. \A c \in KeyCleaners : Issuing!CleanerOK(c)
  BY <1>1, KeyApart DEF Issuing!Init, Issuing!NoCall, Issuing!CleanerOK, Issuing!AtRow
<1> QED
  BY <1>2, <1>3, <1>4 DEF Issuing!Inv, Issuing!Shown, Issuing!Init

----------------------------------------------------------------------------
(* Where a call is after a step: it fits. *)
KeyPlaced(a) ==
    /\ a \in KeyIssuers => Issuing!IssuerOK(a) /\ Issuing!Untouched(a)
    /\ a \in KeyCleaners => Issuing!CleanerOK(a)

(* The directory but for its lease. *)
KeySameDirectory ==
    /\ s1' \in [lifecycle: Issuing!Lifecycles, version: Nat, lease: Issuing!Actors \union {None}, live: BOOLEAN]
    /\ s1'.lifecycle = s1.lifecycle /\ s1'.version = s1.version

(* A journal's row gets columns that say no more than has happened. *)
KeySound(i, X) ==
    /\ X \subseteq Issuing!JournalColumns
    /\ ~Issuing!Past(i)' => X \subseteq {"reserved", "cancelled"}
    /\ "reserved" \in X => s1.lifecycle = "active"
    /\ "credential" \in X => s5[i] # "none"
    /\ "providerRevoked" \in X => s5[i] = "revoked"
    /\ "settled" \in X => s5[i] = "none"
    /\ "completed" \in X => "credential" \in s3[i] \union X

(* An issuer goes on: its create stays behind it, it creates what it reserved,
   and it forgets no version it granted. *)
KeyGoesOn(a, m) ==
    a \in KeyIssuers =>
      /\ m.pc \in {"idle", "own", "reserve", "create"} => ~Issuing!Past(a)
      /\ m.pc = "create" => "reserved" \in s3'[a]
      /\ m.version = s6[a].version

KeyWrote(i, X) ==
    /\ s3' \in [KeyIssuers -> SUBSET Issuing!JournalColumns]
    /\ \A j \in KeyIssuers : s3'[j] = IF j = i THEN s3[j] \union X ELSE s3[j]

(* A step within a call that writes at most its journal rows. *)
LEMMA KeyBooks ==
  ASSUME Issuing!Inv, NEW a \in Issuing!Actors, NEW m \in Issuing!Call, s6' = [s6 EXCEPT ![a] = m], s7' \in 0 .. KeyFaults,
         UNCHANGED <<s2, s4, s5>>, KeySameDirectory, KeyGoesOn(a, m),
         NEW i, NEW X, KeyWrote(i, X),
         i \in KeyIssuers => KeySound(i, X) /\ (i # a => Issuing!Untouched(i)'), KeyPlaced(a)'
  PROVE  KeyStep({a})
<1> USE KeyApart
<1>0. s3' \in [KeyIssuers -> SUBSET Issuing!JournalColumns]
  BY DEF KeyWrote
<1>1. /\ \A b \in Issuing!Actors : s6'[b] = IF b = a THEN m ELSE s6[b]
      /\ \A j \in KeyIssuers : s3'[j] = IF j = i THEN s3[j] \union X ELSE s3[j]
  BY DEF Issuing!Inv, Issuing!TypeOK, KeyWrote
<1>2. \A j \in KeyIssuers : Issuing!RowOK(j)
  BY DEF Issuing!Inv
<1>3. \A j \in KeyIssuers : Issuing!Past(j) => Issuing!Past(j)'
  BY <1>1 DEF Issuing!Past, KeyGoesOn
<1>4. ASSUME NEW j \in KeyIssuers PROVE Issuing!RowOK(j)'
  <2>1. ~Issuing!Past(j)' => ~Issuing!Past(j)
    BY <1>3
  <2>2. /\ s6'[j].pc = "create" => "reserved" \in s3'[j]
        /\ s6'[j].version = s6[j].version
    BY <1>1, <1>2 DEF KeyGoesOn, Issuing!RowOK
  <2> QED
    BY <1>0, <1>1, <1>2, <2>1, <2>2 DEF Issuing!RowOK, KeySound, KeySameDirectory
<1>5. Issuing!TypeOK'
  <2>1. \A j \in KeyIssuers : /\ "settled" \in s3'[j] => s3'[j] \intersect {"credential", "providerRevoked"} = {}
                              /\ "completed" \in s3'[j] => "credential" \in s3'[j]
    BY <1>4 DEF Issuing!RowOK
  <2>2. s3' \in [KeyIssuers -> SUBSET Issuing!JournalColumns] /\ s6' \in [Issuing!Actors -> Issuing!Call]
    BY DEF Issuing!Inv, Issuing!TypeOK, KeyWrote
  <2> QED
    BY <2>1, <2>2 DEF Issuing!Inv, Issuing!TypeOK, KeySameDirectory
<1>6. KeyDrift
  <2>1. \A j \in KeyIssuers : s1.lifecycle # "active" /\ Issuing!Gone(j) => Issuing!Gone(j)'
    BY <1>1, <1>3 DEF Issuing!Gone, KeySound
  <2>2. s2.version \in Nat /\ s1.version \in Nat
    BY DEF Issuing!Inv, Issuing!TypeOK
  <2> QED
    BY <1>0, <1>1, <2>1, <2>2 DEF KeyDrift, KeySameDirectory
<1>7. Issuing!Shown'
  BY <1>6 DEF Issuing!Inv, Issuing!Shown, KeySameDirectory, KeyDrift
<1>8. ASSUME NEW j \in KeyIssuers, j # a
      PROVE  s6'[j] = s6[j] /\ Issuing!Untouched(j)' /\ KeySettles(j)
  <2>1. s6'[j] = s6[j]
    BY <1>1, <1>8
  <2>2. j # i => s3'[j] = s3[j]
    BY <1>1
  <2>3. Issuing!Untouched(j)'
    BY <1>8, <2>1, <2>2 DEF Issuing!Untouched, Issuing!Inv
  <2> QED
    BY <2>1, <2>3 DEF KeySettles
<1> QED
  BY <1>1, <1>4, <1>5, <1>6, <1>7, <1>8 DEF KeyStep, KeyPlaced

(* A step that writes nothing but its own place. *)
LEMMA KeyQuiet ==
  ASSUME Issuing!Inv, NEW a \in Issuing!Actors, NEW m \in Issuing!Call, s6' = [s6 EXCEPT ![a] = m], s7' \in 0 .. KeyFaults,
         UNCHANGED <<s2, s3, s4, s5>>, KeySameDirectory, KeyGoesOn(a, m), KeyPlaced(a)'
  PROVE  KeyStep({a})
<1>1. None \notin KeyIssuers
  BY KeyApart
<1>2. KeyWrote(None, {})
  BY <1>1 DEF Issuing!Inv, Issuing!TypeOK, KeyWrote
<1> QED
  BY <1>1, <1>2, KeyBooks

(* One row's columns are set. *)
LEMMA KeySetsOne ==
  ASSUME Issuing!Inv, NEW i \in KeyIssuers, NEW X \in SUBSET Issuing!JournalColumns, Issuing!Set(X, i)
  PROVE  KeyWrote(i, X) /\ s3'[i] = s3[i] \union X
BY DEF Issuing!Inv, Issuing!TypeOK, Issuing!Set, KeyWrote

(* A call goes on with its copies, or starts afresh. *)
KeySame(a, m) ==
       /\ m.space = s6[a].space /\ m.failed = s6[a].failed /\ m.force = s6[a].force /\ m.at = s6[a].at
       /\ m.todo = s6[a].todo /\ m.known = s6[a].known /\ m.noKey = s6[a].noKey

KeyAfresh(a, m) ==
    /\ m.at = IF a \in KeyIssuers THEN a ELSE None
    /\ ~m.force /\ m.todo = {} /\ m.known = {} /\ m.noKey = {}

KeyMoves(a, m, pcs) ==
    /\ m \in Issuing!Call /\ s6' = [s6 EXCEPT ![a] = m]
    /\ m.pc \in pcs /\ m.version = s6[a].version
    /\ m.pc \in Issuing!Over => KeyAfresh(a, m)
    /\ m.pc \notin Issuing!Over => KeySame(a, m)

(* Going on, *)
LEMMA KeyGotoMoves ==
  ASSUME Issuing!TypeOK, NEW a \in Issuing!Actors, NEW pc \in Issuing!Pcs \ Issuing!Over, Issuing!Goto(a, pc)
  PROVE  \E m : KeyMoves(a, m, {pc})
<1> DEFINE m == [s6[a] EXCEPT !.pc = pc, !.checked = FALSE]
<1>1. s6[a] \in Issuing!Call
  BY KeyCallTyped
<1>2. m \in Issuing!Call /\ m.pc = pc /\ m.version = s6[a].version /\ KeySame(a, m)
  BY <1>1 DEF Issuing!Call, KeySame
<1>3. s6' = [s6 EXCEPT ![a] = m]
  BY <1>1 DEF Issuing!Goto, Issuing!TypeOK, Issuing!Call
<1> QED
  BY <1>2, <1>3 DEF KeyMoves

(* ending, *)
LEMMA KeyEndMoves ==
  ASSUME Issuing!TypeOK, NEW a \in Issuing!Actors, NEW pc \in Issuing!Over, Issuing!End(a, pc)
  PROVE  KeySameDirectory /\ \E m : KeyMoves(a, m, {pc})
<1> DEFINE m == [Issuing!NoCall(a) EXCEPT !.pc = pc, !.version = s6[a].version]
<1>1. s6[a].version \in Nat
  BY KeyCallTyped
<1>2. m \in Issuing!Call /\ m.pc = pc /\ m.version = s6[a].version /\ KeyAfresh(a, m)
  BY <1>1 DEF Issuing!Call, Issuing!NoCall, KeyAfresh, Issuing!Pcs
<1>3. s6' = [s6 EXCEPT ![a] = m]
  BY DEF Issuing!End
<1>4. KeySameDirectory
  BY DEF Issuing!End, Issuing!TypeOK, KeySameDirectory
<1> QED
  BY <1>2, <1>3, <1>4 DEF KeyMoves

(* and either, as the caller chooses, move that call only. *)
LEMMA KeyProceedMoves ==
  ASSUME Issuing!TypeOK, NEW a \in Issuing!Actors, NEW pc \in Issuing!Pcs, Issuing!Proceed(a, pc)
  PROVE  KeySameDirectory /\ \E m : KeyMoves(a, m, {pc})
<1>1. CASE pc \in Issuing!Over
  BY <1>1, KeyEndMoves DEF Issuing!Proceed
<1>2. CASE pc \notin Issuing!Over
  BY <1>2, KeyGotoMoves DEF Issuing!Proceed, KeySameDirectory, Issuing!TypeOK
<1> QED
  BY <1>1, <1>2

(* The faults stay within their bound. *)
LEMMA KeyFaultTyped == ASSUME Issuing!TypeOK, Issuing!Fault \/ UNCHANGED s7 PROVE s7' \in 0 .. KeyFaults
BY KeyConstants DEF Issuing!TypeOK, Issuing!Fault, Issuing!KeysAssumption

(* So does an answer, lost or not. *)
LEMMA KeyAnsweredMoves ==
  ASSUME Issuing!TypeOK, NEW a \in Issuing!Actors, NEW pc \in Issuing!Pcs, Issuing!OnError(a, s6[a].pc) \in Issuing!Pcs, Issuing!Answered(a, pc)
  PROVE  /\ KeySameDirectory /\ s7' \in 0 .. KeyFaults
         /\ \E m : KeyMoves(a, m, {pc, Issuing!OnError(a, s6[a].pc)})
<1>1. CASE Issuing!Proceed(a, pc) /\ UNCHANGED s7
  BY <1>1, KeyProceedMoves, KeyFaultTyped DEF KeyMoves
<1>2. CASE Issuing!Fault /\ Issuing!Proceed(a, Issuing!OnError(a, s6[a].pc))
  BY <1>2, KeyProceedMoves, KeyFaultTyped DEF KeyMoves
<1> QED
  BY <1>1, <1>2 DEF Issuing!Answered


(* A call writes one credential, and perhaps a new policy version. *)
LEMMA KeyWrites ==
  ASSUME Issuing!Inv, NEW a \in Issuing!Actors, NEW m \in Issuing!Call, s6' = [s6 EXCEPT ![a] = m], s7' \in 0 .. KeyFaults,
         UNCHANGED <<s3, s5>>, KeySameDirectory,
         s2' = s2 \/ s2' = [s2 EXCEPT !.version = @ + 1],
         NEW i \in KeyIssuers, NEW K \in SUBSET Issuing!KeyColumns, s4' = [s4 EXCEPT ![i] = K],
         Issuing!RowOK(i)', "staged" \in s4[i] => "staged" \in K, "revoked" \in s4[i] => "revoked" \in K,
         "revoked" \in K /\ "revoked" \notin s4[i] => s2' # s2,
         a \in KeyIssuers => a = i /\ m.pc \notin {"idle", "own", "reserve", "create"},
         i # a => Issuing!Untouched(i)' /\ KeySettles(i), KeyPlaced(a)'
  PROVE  KeyStep({a})
<1> USE KeyApart
<1>1. /\ \A b \in Issuing!Actors : s6'[b] = IF b = a THEN m ELSE s6[b]
      /\ \A j \in KeyIssuers : s4'[j] = IF j = i THEN K ELSE s4[j]
  BY DEF Issuing!Inv, Issuing!TypeOK
<1>2. \A j \in KeyIssuers : Issuing!RowOK(j)
  BY DEF Issuing!Inv
<1>3. \A j \in KeyIssuers : Issuing!Past(j) => Issuing!Past(j)'
  BY <1>1 DEF Issuing!Past
<1>4. ASSUME NEW j \in KeyIssuers PROVE Issuing!RowOK(j)'
  <2>1. CASE j = i
    BY <2>1
  <2>2. CASE j # i
    <3>1. s6'[j] = s6[j]
      BY <1>1, <2>2
    <3> QED
      BY <1>1, <1>2, <2>2, <3>1 DEF Issuing!RowOK, Issuing!Past, KeySameDirectory
  <2> QED
    BY <2>1, <2>2
<1>5. /\ s2'.lifecycle = s2.lifecycle /\ s2.version \in Nat /\ s2'.version \in Nat
      /\ s2'.version = s2.version \/ s2'.version = s2.version + 1
      /\ s2' # s2 => s2'.version = s2.version + 1
      /\ s2' \in [lifecycle: Issuing!Lifecycles, version: Nat]
  BY DEF Issuing!Inv, Issuing!TypeOK
<1>6. Issuing!TypeOK'
  <2>1. s4' \in [KeyIssuers -> SUBSET Issuing!KeyColumns] /\ s6' \in [Issuing!Actors -> Issuing!Call]
    BY DEF Issuing!Inv, Issuing!TypeOK
  <2> QED
    BY <2>1, <1>5 DEF Issuing!Inv, Issuing!TypeOK, KeySameDirectory
<1>7. KeyDrift
  <2>1. \A j \in KeyIssuers : Issuing!Gone(j) => Issuing!Gone(j)'
    BY <1>1, <1>3 DEF Issuing!Gone
  <2>2. s1.version \in Nat
    BY DEF Issuing!Inv, Issuing!TypeOK
  <2> QED
    BY <1>1, <1>5, <2>1, <2>2 DEF KeyDrift, KeySameDirectory
<1>8. Issuing!Shown'
  <2>1. s1.version \in Nat /\ Issuing!Shown
    BY DEF Issuing!Inv, Issuing!TypeOK
  <2>2. \A j \in KeyIssuers : s1.lifecycle = "deleted" => Issuing!Gone(j)'
    BY <2>1, <1>1, <1>3 DEF Issuing!Gone, Issuing!Shown
  <2> QED
    BY <1>5, <2>1, <2>2 DEF Issuing!Shown, KeySameDirectory
<1>9. ASSUME NEW j \in KeyIssuers, j # a
      PROVE  s6'[j] = s6[j] /\ Issuing!Untouched(j)' /\ KeySettles(j)
  <2>1. s6'[j] = s6[j]
    BY <1>1, <1>9
  <2>2. j # i => Issuing!Untouched(j)' /\ KeySettles(j)
    BY <1>1, <1>5, <2>1 DEF Issuing!Untouched, Issuing!Inv, KeySettles
  <2> QED
    BY <1>9, <2>1, <2>2
<1> QED
  BY <1>1, <1>4, <1>6, <1>7, <1>8, <1>9 DEF KeyStep, KeyPlaced

(* A call changes the cell's row or publishes it. *)
LEMMA KeyShows ==
  ASSUME Issuing!Inv, NEW a \in Issuing!Actors, NEW m \in Issuing!Call, s6' = [s6 EXCEPT ![a] = m], s7' \in 0 .. KeyFaults,
         UNCHANGED <<s3, s4, s5>>, KeyGoesOn(a, m),
         s1' \in [lifecycle: Issuing!Lifecycles, version: Nat, lease: Issuing!Actors \union {None}, live: BOOLEAN],
         s2' \in [lifecycle: Issuing!Lifecycles, version: Nat],
         s2.version <= s2'.version,
         s2'.version = s2.version => s2'.lifecycle = s2.lifecycle,
         s2.lifecycle # "active" => s2'.lifecycle # "active",
         s2.lifecycle = "deleted" => s2'.lifecycle = "deleted",
         s1.version <= s1'.version,
         s1'.version = s1.version => s1'.lifecycle = s1.lifecycle,
         s1.lifecycle # "active" => s1'.lifecycle # "active",
         s1'.version <= s2'.version,
         s1'.version = s2'.version => s1'.lifecycle = s2'.lifecycle,
         s1'.lifecycle # "active" => s2'.lifecycle # "active",
         s1'.lifecycle = "deleted" => s2'.lifecycle = "deleted" /\ \A i \in KeyIssuers : Issuing!Gone(i),
         KeyPlaced(a)'
  PROVE  KeyStep({a})
<1> USE KeyApart
<1>1. \A b \in Issuing!Actors : s6'[b] = IF b = a THEN m ELSE s6[b]
  BY DEF Issuing!Inv, Issuing!TypeOK
<1>2. \A j \in KeyIssuers : Issuing!RowOK(j)
  BY DEF Issuing!Inv
<1>3. \A j \in KeyIssuers : Issuing!Past(j) => Issuing!Past(j)'
  BY <1>1 DEF Issuing!Past, KeyGoesOn
<1>4. s1.version \in Nat /\ s1'.version \in Nat /\ s2.version \in Nat /\ s2'.version \in Nat
  BY DEF Issuing!Inv, Issuing!TypeOK
<1>5. ASSUME NEW j \in KeyIssuers PROVE Issuing!RowOK(j)'
  <2>1. /\ ~Issuing!Past(j)' => ~Issuing!Past(j)
        /\ s6'[j].pc = "create" => "reserved" \in s3[j]
        /\ s6'[j].version = s6[j].version /\ s6[j].version \in Nat
    BY <1>1, <1>2, <1>3, KeyCallTyped DEF KeyGoesOn, Issuing!RowOK, Issuing!Inv
  <2> QED
    BY <1>2, <1>4, <2>1 DEF Issuing!RowOK
<1>6. Issuing!TypeOK'
  <2>1. s6' \in [Issuing!Actors -> Issuing!Call]
    BY DEF Issuing!Inv, Issuing!TypeOK
  <2> QED
    BY <2>1 DEF Issuing!Inv, Issuing!TypeOK
<1>7. \A j \in KeyIssuers : Issuing!Gone(j) => Issuing!Gone(j)'
  BY <1>3 DEF Issuing!Gone
<1>8. KeyDrift
  BY <1>7 DEF KeyDrift
<1>9. Issuing!Shown'
  BY <1>7 DEF Issuing!Shown
<1>10. ASSUME NEW j \in KeyIssuers, j # a
       PROVE  s6'[j] = s6[j] /\ Issuing!Untouched(j)' /\ KeySettles(j)
  <2>1. s6'[j] = s6[j]
    BY <1>1, <1>10
  <2> QED
    BY <2>1 DEF Issuing!Untouched, Issuing!Inv, KeySettles
<1> QED
  BY <1>1, <1>5, <1>6, <1>8, <1>9, <1>10 DEF KeyStep, KeyPlaced

(* An issuer whose code is over, unless with an answer, has nothing left to keep. *)
LEMMA KeyEndedIssuer ==
  ASSUME NEW i \in KeyIssuers, s6'[i].pc \in Issuing!Over \ {"answered"}, s6'[i].at = i
  PROVE  KeyPlaced(i)'
<1>1. i \notin KeyCleaners
  BY KeyApart
<1>2. Issuing!IssuerOK(i)'
  BY DEF Issuing!IssuerOK, Issuing!Over, Issuing!Going, Issuing!Learned, Issuing!Steps,
    Issuing!Activating
<1>3. Issuing!Untouched(i)'
  BY DEF Issuing!Untouched, Issuing!Over, Issuing!Going, Issuing!Learned, Issuing!Steps
<1> QED
  BY <1>1, <1>2, <1>3 DEF KeyPlaced

(* Nor one that compensates, but that what it revokes was made. *)
KeyCompensating == {"cancel", "markFailed", "find", "revokeFound", "journalFound", "failKey", "revoke",
                    "markCell", "markJournal", "fallback", "fallbackJournal"}

(* What holds of an issuer that takes its key back. *)
LEMMA KeyCompensatingIssuer ==
  ASSUME NEW i \in KeyIssuers, s6'[i].pc \in KeyCompensating, s6'[i].at = i,
         s6'[i].pc \in {"failKey", "revoke", "revokeFound", "fallback"} => s5'[i] # "none",
         s6'[i].pc = "cancel" /\ ~s6'[i].failed => s5'[i] # "none",
         s6'[i].pc \in {"journalFound", "markCell", "markJournal", "fallbackJournal"} => s5'[i] = "revoked"
  PROVE  KeyPlaced(i)'
<1>1. i \notin KeyCleaners
  BY KeyApart
<1>2. Issuing!IssuerOK(i)'
  BY DEF Issuing!IssuerOK, Issuing!Over, Issuing!Going, Issuing!Learned, Issuing!Steps,
    Issuing!Activating, KeyCompensating
<1>3. Issuing!Untouched(i)'
  BY DEF Issuing!Untouched, Issuing!Over, Issuing!Going, Issuing!Learned, Issuing!Steps,
    KeyCompensating
<1> QED
  BY <1>1, <1>2, <1>3 DEF KeyPlaced

(* A cleaner that is done starts afresh. *)
LEMMA KeyEndedCleaner ==
  ASSUME NEW c \in KeyCleaners, NEW m, s6'[c] = m, m.pc = "idle", KeyAfresh(c, m)
  PROVE  KeyPlaced(c)'
BY KeyApart DEF KeyPlaced, Issuing!CleanerOK, KeyAfresh, Issuing!AtRow

(* What the moves say of the call itself. *)
LEMMA KeyMoved ==
  ASSUME Issuing!TypeOK, NEW a \in Issuing!Actors, NEW m, NEW pcs, KeyMoves(a, m, pcs)
  PROVE  m \in Issuing!Call /\ s6' = [s6 EXCEPT ![a] = m] /\ s6'[a] = m /\ m.pc \in pcs /\ m.version = s6[a].version
BY DEF Issuing!TypeOK, KeyMoves

(* An issuer goes on from one place in its code to others. *)
LEMMA KeyIssuerGoes ==
  ASSUME Issuing!Inv, NEW i \in KeyIssuers, NEW m, NEW pcs, KeyMoves(i, m, pcs),
         pcs \intersect {"idle", "own", "reserve", "create"} = {}
  PROVE  m \in Issuing!Call /\ s6' = [s6 EXCEPT ![i] = m] /\ s6'[i] = m /\ m.pc \in pcs /\ KeyGoesOn(i, m) /\ m.at = i
<1>1. /\ m \in Issuing!Call /\ s6' = [s6 EXCEPT ![i] = m] /\ s6'[i] = m /\ m.pc \in pcs /\ m.version = s6[i].version
  BY KeyMoved, KeyApart DEF Issuing!Inv
<1>2. m.at = i
  BY DEF KeyMoves, KeySame, KeyAfresh, Issuing!Inv, Issuing!IssuerOK
<1> QED
  BY <1>1, <1>2 DEF KeyGoesOn
----------------------------------------------------------------------------
(* A call takes the lease. *)
LEMMA KeyClaimStep == ASSUME Issuing!Inv, NEW a \in Issuing!Actors, Issuing!Claim(a, "own") PROVE KeyStep({a})
<1> USE KeyApart
<1>1. PICK m : KeyMoves(a, m, {"own"})
  BY KeyGotoMoves DEF Issuing!Claim, Issuing!Inv, Issuing!Pcs, Issuing!Over
<1>2. m \in Issuing!Call /\ s6' = [s6 EXCEPT ![a] = m] /\ s6'[a] = m /\ m.pc = "own" /\ m.version = s6[a].version
  BY <1>1, KeyMoved DEF Issuing!Inv
<1>3. KeySame(a, m) /\ s6[a].pc = "idle"
  BY <1>1, <1>2 DEF KeyMoves, Issuing!Over, Issuing!Claim, Issuing!At
<1>4. KeySameDirectory /\ s7' \in 0 .. KeyFaults
  BY DEF KeySameDirectory, Issuing!Claim, Issuing!Inv, Issuing!TypeOK
<1>5. KeyGoesOn(a, m)
  BY <1>2, <1>3 DEF KeyGoesOn, Issuing!Past
<1>6. KeyPlaced(a)'
  <2>1. CASE a \in KeyIssuers
    <3>1. s6'[a].at = a
      BY <1>2, <1>3, <2>1 DEF Issuing!Inv, Issuing!IssuerOK, KeySame
    <3> QED
      BY <1>2, <2>1, <3>1 DEF KeyPlaced, Issuing!IssuerOK, Issuing!Untouched, Issuing!Over,
        Issuing!Going, Issuing!Learned, Issuing!Steps, Issuing!Activating
  <2>2. CASE a \in KeyCleaners
    <3>1. Issuing!CleanerOK(a)
      BY <2>2 DEF Issuing!Inv
    <3> QED
      BY <1>2, <1>3, <2>2, <3>1 DEF KeyPlaced, Issuing!CleanerOK, KeySame, Issuing!AtRow,
        Issuing!Claim
  <2> QED
    BY <2>1, <2>2 DEF Issuing!Actors
<1> QED
  BY <1>2, <1>4, <1>5, <1>6, KeyQuiet DEF Issuing!Claim

(* An issuer reads the space. *)
LEMMA KeyReadSpaceStep == ASSUME Issuing!Inv, NEW i \in KeyIssuers, Issuing!ReadSpace(i) PROVE KeyStep({i})
<1> USE KeyApart
<1>1. s6[i] \in Issuing!Call /\ s6[i].at = i /\ s6[i].pc = "own" /\ s1.version \in Nat /\ s7' \in 0 .. KeyFaults
  BY KeyCallTyped DEF Issuing!Inv, Issuing!IssuerOK, Issuing!ReadSpace, Issuing!At, Issuing!TypeOK
<1>2. CASE s1.lifecycle = "active"
  <2> DEFINE m == [s6[i] EXCEPT !.pc = "reserve", !.space = s1.version]
  <2>1. m \in Issuing!Call /\ m.pc = "reserve" /\ m.at = i /\ m.version = s6[i].version /\ m.space = s1.version
    BY <1>1 DEF Issuing!Call, Issuing!Pcs
  <2>2. s6' = [s6 EXCEPT ![i] = m] /\ s6'[i] = m
    BY <1>1, <1>2 DEF Issuing!ReadSpace, Issuing!Inv, Issuing!TypeOK
  <2> HIDE DEF m
  <2>3. KeyGoesOn(i, m)
    BY <1>1, <2>1 DEF KeyGoesOn, Issuing!Past
  <2>4. KeySameDirectory /\ s1' = s1
    BY <1>2 DEF KeySameDirectory, Issuing!ReadSpace, Issuing!Inv, Issuing!TypeOK
  <2>5. KeyPlaced(i)'
    BY <1>1, <1>2, <2>1, <2>2, <2>4 DEF KeyPlaced, Issuing!IssuerOK, Issuing!Untouched,
      Issuing!ReadBefore, Issuing!Over, Issuing!Going, Issuing!Learned, Issuing!Steps,
      Issuing!Activating
  <2> QED
    BY <1>1, <2>1, <2>2, <2>3, <2>4, <2>5, KeyQuiet DEF Issuing!ReadSpace
<1>3. CASE s1.lifecycle # "active"
  <2>1. KeySameDirectory /\ \E m : KeyMoves(i, m, {"failed"})
    BY <1>3, KeyEndMoves DEF Issuing!ReadSpace, Issuing!Inv, Issuing!Over
  <2>2. PICK m : KeyMoves(i, m, {"failed"})
    BY <2>1
  <2>3. m \in Issuing!Call /\ s6' = [s6 EXCEPT ![i] = m] /\ s6'[i] = m /\ m.pc = "failed" /\ KeyGoesOn(i, m) /\ m.at = i
    BY <2>2, KeyIssuerGoes
  <2>4. KeyPlaced(i)'
    BY <2>3, KeyEndedIssuer DEF Issuing!Over
  <2> QED
    BY <1>1, <2>1, <2>3, <2>4, KeyQuiet DEF Issuing!ReadSpace
<1> QED
  BY <1>2, <1>3

(* It reserves its row. *)
LEMMA KeyReserveStep == ASSUME Issuing!Inv, NEW i \in KeyIssuers, Issuing!Reserve(i) PROVE KeyStep({i})
<1> USE KeyApart
<1>1. s6[i] \in Issuing!Call /\ s6[i].at = i /\ s6[i].pc = "reserve" /\ Issuing!ReadBefore(i)
  BY KeyCallTyped DEF Issuing!Inv, Issuing!IssuerOK, Issuing!Reserve, Issuing!At
<1>2. CASE s1.lifecycle = "active" /\ s1.version = s6[i].space
  <2>1. Issuing!OnError(i, s6[i].pc) = "failed"
    BY <1>1 DEF Issuing!OnError
  <2>2. /\ KeySameDirectory /\ s7' \in 0 .. KeyFaults
        /\ \E m : KeyMoves(i, m, {"create", "failed"})
    BY <1>2, <2>1, KeyAnsweredMoves DEF Issuing!Reserve, Issuing!Inv, Issuing!Pcs, Issuing!Over
  <2>3. PICK m : KeyMoves(i, m, {"create", "failed"})
    BY <2>2
  <2>4. m \in Issuing!Call /\ s6' = [s6 EXCEPT ![i] = m] /\ s6'[i] = m /\ m.pc \in {"create", "failed"} /\ m.version = s6[i].version
    BY <2>3, KeyMoved DEF Issuing!Inv
  <2>5. m.at = i /\ (m.pc = "create" => m.space = s6[i].space)
    BY <1>1, <2>3, <2>4 DEF KeyMoves, KeySame, KeyAfresh, Issuing!Over
  <2>6. KeyWrote(i, {"reserved"}) /\ s3'[i] = s3[i] \union {"reserved"}
    BY <1>2, KeySetsOne DEF Issuing!Reserve, Issuing!JournalColumns
  <2>7. KeyGoesOn(i, m)
    BY <1>1, <2>4, <2>6 DEF KeyGoesOn, Issuing!Past
  <2>8. KeySound(i, {"reserved"})
    BY <1>2 DEF KeySound, Issuing!JournalColumns
  <2>9. KeyPlaced(i)'
    <3>1. CASE m.pc = "create"
      BY <1>1, <2>2, <2>4, <2>5, <3>1 DEF KeyPlaced, Issuing!IssuerOK, Issuing!Untouched,
        Issuing!ReadBefore, KeySameDirectory, Issuing!Over, Issuing!Going, Issuing!Learned,
        Issuing!Steps, Issuing!Activating
    <3>2. CASE m.pc = "failed"
      BY <2>4, <2>5, <3>2, KeyEndedIssuer DEF Issuing!Over
    <3> QED
      BY <2>4, <3>1, <3>2
  <2> QED
    BY <2>2, <2>4, <2>6, <2>7, <2>8, <2>9, KeyBooks DEF Issuing!Reserve
<1>3. CASE ~(s1.lifecycle = "active" /\ s1.version = s6[i].space)
  <2>1. KeySameDirectory /\ \E m : KeyMoves(i, m, {"failed"})
    BY <1>3, KeyEndMoves DEF Issuing!Reserve, Issuing!Inv, Issuing!Over
  <2>2. PICK m : KeyMoves(i, m, {"failed"})
    BY <2>1
  <2>3. m \in Issuing!Call /\ s6' = [s6 EXCEPT ![i] = m] /\ s6'[i] = m /\ m.pc = "failed" /\ KeyGoesOn(i, m) /\ m.at = i
    BY <2>2, KeyIssuerGoes
  <2>4. KeyPlaced(i)'
    BY <2>3, KeyEndedIssuer DEF Issuing!Over
  <2>5. s7' \in 0 .. KeyFaults /\ UNCHANGED <<s2, s3, s4, s5>>
    BY <1>3 DEF Issuing!Reserve, Issuing!Inv, Issuing!TypeOK
  <2> QED
    BY <2>1, <2>3, <2>4, <2>5, KeyQuiet
<1> QED
  BY <1>2, <1>3


KeyBefore == {"idle", "own", "reserve", "create"}

(* An issuer goes on, and writes its journal row. *)
LEMMA KeyIssuerBooks ==
  ASSUME Issuing!Inv, NEW i \in KeyIssuers, NEW m, NEW pcs, KeyMoves(i, m, pcs), pcs \intersect KeyBefore = {},
         s7' \in 0 .. KeyFaults, UNCHANGED <<s2, s4, s5>>, KeySameDirectory,
         NEW X \in SUBSET Issuing!JournalColumns, Issuing!Set(X, i), KeySound(i, X), KeyPlaced(i)'
  PROVE  KeyStep({i})
<1>1. m \in Issuing!Call /\ s6' = [s6 EXCEPT ![i] = m] /\ KeyGoesOn(i, m)
  BY KeyIssuerGoes DEF KeyBefore
<1>2. KeyWrote(i, X)
  BY KeySetsOne
<1>3. i \in Issuing!Actors /\ (i \in KeyIssuers => KeySound(i, X) /\ (i # i => Issuing!Untouched(i)'))
  BY KeyApart
<1> QED
  BY <1>1, <1>2, <1>3, KeyBooks

(* Or nothing but its place changes. *)
LEMMA KeyIssuerQuiet ==
  ASSUME Issuing!Inv, NEW i \in KeyIssuers, NEW m, NEW pcs, KeyMoves(i, m, pcs), pcs \intersect KeyBefore = {},
         s7' \in 0 .. KeyFaults, UNCHANGED <<s2, s3, s4, s5>>, KeySameDirectory, KeyPlaced(i)'
  PROVE  KeyStep({i})
<1>1. m \in Issuing!Call /\ s6' = [s6 EXCEPT ![i] = m] /\ KeyGoesOn(i, m)
  BY KeyIssuerGoes DEF KeyBefore
<1> QED
  BY <1>1, KeyQuiet, KeyApart

(* Or it writes its credential, under the policy version it found. *)
LEMMA KeyIssuerWrites ==
  ASSUME Issuing!Inv, NEW i \in KeyIssuers, NEW m, NEW pcs, KeyMoves(i, m, pcs), pcs \intersect KeyBefore = {},
         s7' \in 0 .. KeyFaults, UNCHANGED <<s2, s3, s5>>, KeySameDirectory,
         NEW X \in SUBSET Issuing!KeyColumns, Issuing!Mark(X, i), "revoked" \notin X, Issuing!RowOK(i)', KeyPlaced(i)'
  PROVE  KeyStep({i})
<1>1. m \in Issuing!Call /\ s6' = [s6 EXCEPT ![i] = m] /\ s6'[i] = m /\ m.pc \in pcs
  BY KeyIssuerGoes DEF KeyBefore
<1>2. s4' = [s4 EXCEPT ![i] = s4[i] \union X] /\ s4[i] \union X \in SUBSET Issuing!KeyColumns
  BY DEF Issuing!Mark, Issuing!Inv, Issuing!TypeOK
<1> QED
  BY <1>1, <1>2, KeyWrites, KeyApart DEF KeyBefore

(* A step refused because the space has moved takes the key back. *)
LEMMA KeyRefusedStep ==
  ASSUME Issuing!Inv, NEW i \in KeyIssuers, s6[i].pc \in Issuing!Steps, s5[i] # "none", Issuing!Refused(i), UNCHANGED s5
  PROVE  KeyStep({i})
<1>1. PICK m : KeyMoves(i, m, {"cancel"})
  BY KeyGotoMoves, KeyApart DEF Issuing!Refused, Issuing!Inv, Issuing!Pcs, Issuing!Over
<1>2. s6'[i] = m /\ m.pc = "cancel" /\ m.at = i
  BY <1>1, KeyIssuerGoes
<1>3. KeyPlaced(i)'
  BY <1>2, KeyCompensatingIssuer DEF KeyCompensating, Issuing!Refused
<1>4. KeySameDirectory /\ s7' \in 0 .. KeyFaults /\ UNCHANGED <<s2, s3, s4, s5>>
  BY DEF Issuing!Refused, KeySameDirectory, Issuing!Inv, Issuing!TypeOK
<1> QED
  BY <1>1, <1>3, <1>4, KeyIssuerQuiet DEF KeyBefore

(* The key of an issuer in the middle of its code was made. *)
LEMMA KeyMade ==
  ASSUME Issuing!Inv, NEW i \in KeyIssuers, s6[i].pc \in Issuing!Steps \union Issuing!Learned
  PROVE  /\ s5[i] # "none" /\ s6[i].at = i /\ s6[i] \in Issuing!Call
         /\ Issuing!RowOK(i) /\ Issuing!IssuerOK(i) /\ Issuing!Untouched(i)
BY KeyCallTyped, KeyApart DEF Issuing!Inv, Issuing!IssuerOK, Issuing!RowOK, Issuing!Steps,
  Issuing!Learned

(* It reads the space again before each step. *)
LEMMA KeyCheckStep == ASSUME Issuing!Inv, NEW i \in KeyIssuers, Issuing!Check(i) PROVE KeyStep({i})
<1> USE KeyApart
<1>1. s5[i] # "none" /\ s6[i].at = i /\ s6[i] \in Issuing!Call /\ Issuing!IssuerOK(i) /\ Issuing!Untouched(i) /\ s6[i].pc \in Issuing!Steps
  BY KeyMade DEF Issuing!Check
<1>2. KeySameDirectory /\ s7' \in 0 .. KeyFaults /\ UNCHANGED <<s1, s2, s3, s4, s5>>
  BY DEF Issuing!Check, KeySameDirectory, Issuing!Inv, Issuing!TypeOK
<1>3. CASE Issuing!Live(i)
  <2> DEFINE m == [s6[i] EXCEPT !.checked = TRUE]
  <2>1. m \in Issuing!Call /\ m.pc = s6[i].pc /\ KeySame(i, m) /\ m.version = s6[i].version
    BY <1>1 DEF Issuing!Call, KeySame
  <2>2. s6' = [s6 EXCEPT ![i] = m]
    BY <1>1, <1>3 DEF Issuing!Check, Issuing!Inv, Issuing!TypeOK, Issuing!Call
  <2> HIDE DEF m
  <2>3. KeyMoves(i, m, Issuing!Steps)
    BY <1>1, <2>1, <2>2 DEF KeyMoves, Issuing!Steps, Issuing!Over
  <2>4. s6'[i] = m
    BY <2>2 DEF Issuing!Inv, Issuing!TypeOK
  <2>5. Issuing!IssuerOK(i)'
    BY <1>1, <1>2, <2>1, <2>4 DEF Issuing!IssuerOK, Issuing!ReadBefore, KeySame, Issuing!Steps
  <2>6. Issuing!Untouched(i)'
    BY <1>1, <1>2, <2>1, <2>4 DEF Issuing!Untouched
  <2> QED
    BY <1>2, <2>3, <2>5, <2>6, KeyIssuerQuiet DEF KeyPlaced, Issuing!Steps, KeyBefore
<1>4. CASE ~Issuing!Live(i)
  <2>1. Issuing!Refused(i)
    BY <1>4 DEF Issuing!Check, Issuing!Refused
  <2> QED
    BY <1>1, <1>2, <2>1, KeyRefusedStep
<1> QED
  BY <1>3, <1>4

(* An error on the way to the answer leads on, or to the compensation. *)
LEMMA KeyErrors ==
  ASSUME NEW i \in KeyIssuers
  PROVE  /\ \A pc \in {"learn", "stage", "grant", "publish", "readActivation", "readConfirmation"} : Issuing!OnError(i, pc) = "cancel"
         /\ Issuing!OnError(i, "activate") = "readActivation" /\ Issuing!OnError(i, "confirm") = "readConfirmation"
         /\ Issuing!OnError(i, "complete") = "recover" /\ Issuing!OnError(i, "verify") = "recover"
         /\ Issuing!OnError(i, "withdraw") = "unknown" /\ Issuing!OnError(i, "verifyRetry") = "unknown"
         /\ Issuing!OnError(i, "markFailed") = "find" /\ Issuing!OnError(i, "failKey") = "revoke"
         /\ \A pc \in {"revoke", "markCell", "markJournal"} : Issuing!OnError(i, pc) = "fallback"
         /\ \A pc \in {"own", "reserve", "find", "revokeFound", "journalFound", "fallback", "fallbackJournal"} : Issuing!OnError(i, pc) = "failed"
<1> USE KeyApart DEF Issuing!OnError
<1>1. \A pc \in {"learn", "stage", "grant", "publish", "readActivation", "readConfirmation"} : Issuing!OnError(i, pc) = "cancel"
  OBVIOUS
<1>2. Issuing!OnError(i, "activate") = "readActivation" /\ Issuing!OnError(i, "confirm") = "readConfirmation"
  OBVIOUS
<1>3. /\ Issuing!OnError(i, "complete") = "recover" /\ Issuing!OnError(i, "verify") = "recover"
      /\ Issuing!OnError(i, "withdraw") = "unknown" /\ Issuing!OnError(i, "verifyRetry") = "unknown"
  OBVIOUS
<1>4. Issuing!OnError(i, "markFailed") = "find" /\ Issuing!OnError(i, "failKey") = "revoke"
  OBVIOUS
<1>5. \A pc \in {"revoke", "markCell", "markJournal"} : Issuing!OnError(i, pc) = "fallback"
  OBVIOUS
<1>6. \A pc \in {"own", "reserve", "find", "revokeFound", "journalFound", "fallback", "fallbackJournal"} : Issuing!OnError(i, pc) = "failed"
  OBVIOUS
<1> QED
  BY <1>1, <1>2, <1>3, <1>4, <1>5, <1>6

(* A statement is answered, or its answer lost: where its issuer goes. *)
LEMMA KeyAnsweredIssuer ==
  ASSUME Issuing!Inv, NEW i \in KeyIssuers, NEW pc \in Issuing!Pcs \ KeyBefore, NEW error \in Issuing!Pcs \ KeyBefore,
         Issuing!OnError(i, s6[i].pc) = error, Issuing!Answered(i, pc)
  PROVE  /\ KeySameDirectory /\ s7' \in 0 .. KeyFaults
         /\ \E m : /\ KeyMoves(i, m, {pc, error}) /\ s6'[i] = m /\ m.pc \in {pc, error} /\ m.at = i
                   /\ m.pc \notin Issuing!Over => KeySame(i, m)
                   /\ m.version = s6[i].version
<1>1. /\ KeySameDirectory /\ s7' \in 0 .. KeyFaults
      /\ \E m : KeyMoves(i, m, {pc, error})
  BY KeyAnsweredMoves, KeyApart DEF Issuing!Inv
<1>2. PICK m : KeyMoves(i, m, {pc, error})
  BY <1>1
<1>3. s6'[i] = m /\ m.pc \in {pc, error} /\ m.at = i
  BY <1>2, KeyIssuerGoes DEF KeyBefore
<1> QED
  BY <1>1, <1>2, <1>3 DEF KeyMoves

(* It journals the credential. *)
LEMMA KeyLearnStep == ASSUME Issuing!Inv, NEW i \in KeyIssuers, Issuing!Learn(i) PROVE KeyStep({i})
<1> USE KeyApart
<1>1. /\ s5[i] # "none" /\ Issuing!IssuerOK(i) /\ Issuing!Untouched(i) /\ s6[i].pc = "learn"
      /\ Issuing!Set({"credential"}, i) /\ Issuing!Answered(i, "stage") /\ UNCHANGED <<s2, s4, s5>>
  BY KeyMade DEF Issuing!Learn, Issuing!At, Issuing!Steps
<1>2. Issuing!OnError(i, s6[i].pc) = "cancel"
  BY <1>1, KeyErrors
<1>3. /\ KeySameDirectory /\ s7' \in 0 .. KeyFaults
      /\ \E m : /\ KeyMoves(i, m, {"stage", "cancel"}) /\ s6'[i] = m /\ m.pc \in {"stage", "cancel"} /\ m.at = i
                /\ m.pc \notin Issuing!Over => KeySame(i, m)
                /\ m.version = s6[i].version
  BY <1>1, <1>2, KeyAnsweredIssuer DEF Issuing!Pcs, Issuing!Over, Issuing!Steps, KeyBefore
<1>4. PICK m : /\ KeyMoves(i, m, {"stage", "cancel"}) /\ s6'[i] = m /\ m.pc \in {"stage", "cancel"} /\ m.at = i
               /\ m.pc \notin Issuing!Over => KeySame(i, m)
  BY <1>3
<1>5. KeySound(i, {"credential"})
  <2>1. Issuing!Past(i)'
    BY <1>4 DEF Issuing!Past
  <2> QED
    BY <1>1, <2>1 DEF KeySound, Issuing!JournalColumns
<1>6. s3'[i] = s3[i] \union {"credential"}
  BY <1>1, KeySetsOne DEF Issuing!JournalColumns
<1>7. KeyPlaced(i)'
  <2>1. CASE m.pc = "cancel"
    BY <1>1, <1>4, <2>1, KeyCompensatingIssuer DEF KeyCompensating
  <2>2. CASE m.pc = "stage"
    <3>1. Issuing!IssuerOK(i)'
      BY <1>1, <1>3, <1>4, <1>6, <2>2 DEF Issuing!IssuerOK, Issuing!ReadBefore, KeySame,
        KeySameDirectory, Issuing!Over, Issuing!Going, Issuing!Learned, Issuing!Steps,
        Issuing!Activating
    <3>2. Issuing!Untouched(i)'
      BY <1>1, <1>4, <1>6, <2>2 DEF Issuing!Untouched, Issuing!Going, Issuing!Learned,
        Issuing!Steps, Issuing!Grown
    <3> QED
      BY <3>1, <3>2 DEF KeyPlaced
  <2> QED
    BY <1>4, <2>1, <2>2
<1> QED
  BY <1>1, <1>3, <1>4, <1>5, <1>7, KeyIssuerBooks DEF Issuing!JournalColumns, KeyBefore

(* It stages the key in the cell. *)
LEMMA KeyStageStep == ASSUME Issuing!Inv, NEW i \in KeyIssuers, Issuing!Stage(i) PROVE KeyStep({i})
<1> USE KeyApart
<1>1. /\ s5[i] # "none" /\ Issuing!IssuerOK(i) /\ Issuing!Untouched(i) /\ Issuing!RowOK(i) /\ s6[i].pc = "stage" /\ UNCHANGED s5
  BY KeyMade DEF Issuing!Stage, Issuing!At, Issuing!Steps
<1>2. CASE ~Issuing!CellAt(s6[i].space)
  BY <1>1, <1>2, KeyRefusedStep DEF Issuing!Stage, Issuing!Steps
<1>3. CASE Issuing!CellAt(s6[i].space)
  <2>1. Issuing!Mark({"staged"}, i) /\ Issuing!Answered(i, "grant") /\ UNCHANGED <<s2, s3, s5>>
    BY <1>3 DEF Issuing!Stage
  <2>2. Issuing!OnError(i, s6[i].pc) = "cancel"
    BY <1>1, KeyErrors
  <2>3. /\ KeySameDirectory /\ s7' \in 0 .. KeyFaults
        /\ \E m : /\ KeyMoves(i, m, {"grant", "cancel"}) /\ s6'[i] = m /\ m.pc \in {"grant", "cancel"} /\ m.at = i
                  /\ m.pc \notin Issuing!Over => KeySame(i, m)
                  /\ m.version = s6[i].version
    BY <2>1, <2>2, KeyAnsweredIssuer DEF Issuing!Pcs, Issuing!Over, Issuing!Steps, KeyBefore
  <2>4. PICK m : /\ KeyMoves(i, m, {"grant", "cancel"}) /\ s6'[i] = m /\ m.pc \in {"grant", "cancel"} /\ m.at = i
                 /\ m.pc \notin Issuing!Over => KeySame(i, m)
                 /\ m.version = s6[i].version
    BY <2>3
  <2>5. s4[i] = {} /\ s4'[i] = {"staged"}
    BY <1>1, <2>1 DEF Issuing!IssuerOK, Issuing!Mark, Issuing!Inv, Issuing!TypeOK
  <2>6. Issuing!RowOK(i)'
    BY <1>1, <2>1, <2>4, <2>5 DEF Issuing!RowOK, Issuing!Past
  <2>7. KeyPlaced(i)'
    <3>1. CASE m.pc = "cancel"
      BY <1>1, <2>1, <2>4, <3>1, KeyCompensatingIssuer DEF KeyCompensating
    <3>2. CASE m.pc = "grant"
      <4>1. Issuing!IssuerOK(i)'
        BY <1>1, <2>1, <2>3, <2>4, <2>5, <3>2 DEF Issuing!IssuerOK, Issuing!ReadBefore, KeySame,
          KeySameDirectory, Issuing!Over, Issuing!Going, Issuing!Learned, Issuing!Steps,
          Issuing!Activating
      <4>2. Issuing!Untouched(i)'
        BY <1>1, <2>1, <2>4, <2>5, <3>2 DEF Issuing!Untouched, Issuing!Going, Issuing!Learned,
          Issuing!Steps, Issuing!Grown
      <4> QED
        BY <4>1, <4>2 DEF KeyPlaced
    <3> QED
      BY <2>4, <3>1, <3>2
  <2> QED
    BY <2>1, <2>3, <2>4, <2>6, <2>7, KeyIssuerWrites DEF Issuing!KeyColumns, KeyBefore
<1> QED
  BY <1>2, <1>3


(* A key is made, or revoked, at the provider. *)
LEMMA KeyProvides ==
  ASSUME Issuing!Inv, NEW a \in Issuing!Actors, NEW m \in Issuing!Call, s6' = [s6 EXCEPT ![a] = m], s7' \in 0 .. KeyFaults,
         UNCHANGED <<s2, s3, s4>>, KeySameDirectory,
         NEW i \in KeyIssuers, NEW v \in {"none", "live", "revoked"}, s5' = [s5 EXCEPT ![i] = v],
         s5[i] # "none" => v = "revoked",
         s5[i] = "none" => a = i /\ s6[i].pc = "create",
         a \in KeyIssuers => a = i /\ m.pc \notin KeyBefore /\ m.version = s6[a].version,
         a # i => Issuing!Untouched(i)', KeyPlaced(a)'
  PROVE  KeyStep({a})
<1> USE KeyApart DEF KeyBefore
<1>1. /\ \A b \in Issuing!Actors : s6'[b] = IF b = a THEN m ELSE s6[b]
      /\ \A j \in KeyIssuers : s5'[j] = IF j = i THEN v ELSE s5[j]
  BY DEF Issuing!Inv, Issuing!TypeOK
<1>2. \A j \in KeyIssuers : Issuing!RowOK(j)
  BY DEF Issuing!Inv
<1>3. \A j \in KeyIssuers : Issuing!Past(j) => Issuing!Past(j)'
  BY <1>1 DEF Issuing!Past
<1>4. ASSUME NEW j \in KeyIssuers PROVE Issuing!RowOK(j)'
  <2>1. CASE j # i
    <3>1. s6'[j] = s6[j] /\ s5'[j] = s5[j]
      BY <1>1, <2>1
    <3> QED
      BY <1>2, <3>1 DEF Issuing!RowOK, Issuing!Past, KeySameDirectory
  <2>2. CASE j = i /\ s5[i] # "none"
    <3>1. v = "revoked" /\ Issuing!Past(i) /\ s6'[i].version = s6[i].version
      BY <1>1, <1>2, <2>2 DEF Issuing!RowOK
    <3>2. s6'[i].pc = "create" => "reserved" \in s3[i]
      BY <1>1, <1>2 DEF Issuing!RowOK
    <3> QED
      BY <1>1, <1>2, <1>3, <2>2, <3>1, <3>2 DEF Issuing!RowOK, KeySameDirectory
  <2>3. CASE j = i /\ s5[i] = "none"
    <3>1. /\ a = i /\ s6[i].pc = "create" /\ ~Issuing!Past(i) /\ Issuing!Past(i)' /\ s6'[i] = m
          /\ m.pc \notin KeyBefore
      BY <1>1, <2>3 DEF Issuing!Past
    <3>2. "reserved" \in s3[i] /\ s3[i] \subseteq {"reserved", "cancelled"} /\ s4[i] = {}
      BY <1>2, <3>1 DEF Issuing!RowOK
    <3> QED
      BY <1>1, <2>3, <3>1, <3>2 DEF Issuing!RowOK
  <2> QED
    BY <2>1, <2>2, <2>3
<1>5. Issuing!TypeOK'
  <2>1. s5' \in [KeyIssuers -> {"none", "live", "revoked"}] /\ s6' \in [Issuing!Actors -> Issuing!Call]
    BY DEF Issuing!Inv, Issuing!TypeOK
  <2> QED
    BY <2>1 DEF Issuing!Inv, Issuing!TypeOK, KeySameDirectory
<1>6. \A j \in KeyIssuers : Issuing!Gone(j) => Issuing!Gone(j)'
  BY <1>1, <1>2, <1>3 DEF Issuing!Gone, Issuing!RowOK, Issuing!Past
<1>7. KeyDrift
  <2>1. s1.version \in Nat /\ s2.version \in Nat
    BY DEF Issuing!Inv, Issuing!TypeOK
  <2> QED
    BY <1>1, <1>6, <2>1 DEF KeyDrift, KeySameDirectory
<1>8. Issuing!Shown'
  BY <1>6 DEF Issuing!Inv, Issuing!Shown, KeySameDirectory
<1>9. ASSUME NEW j \in KeyIssuers, j # a
      PROVE  s6'[j] = s6[j] /\ Issuing!Untouched(j)' /\ KeySettles(j)
  <2>1. s6'[j] = s6[j]
    BY <1>1, <1>9
  <2>2. j # i => Issuing!Untouched(j)'
    BY <1>1, <2>1 DEF Issuing!Untouched, Issuing!Inv
  <2> QED
    BY <1>9, <2>1, <2>2 DEF KeySettles
<1> QED
  BY <1>1, <1>4, <1>5, <1>7, <1>8, <1>9 DEF KeyStep, KeyPlaced

(* It asks the provider for a key. *)
LEMMA KeyCreateStep == ASSUME Issuing!Inv, NEW i \in KeyIssuers, Issuing!Create(i) PROVE KeyStep({i})
<1> USE KeyApart
<1>1. /\ Issuing!IssuerOK(i) /\ Issuing!RowOK(i) /\ s6[i] \in Issuing!Call /\ s6[i].pc = "create"
      /\ KeySameDirectory /\ s7' \in 0 .. KeyFaults /\ UNCHANGED <<s1, s2, s3, s4>>
  <2>1. s7' \in 0 .. KeyFaults
    BY KeyFaultTyped DEF Issuing!Create, Issuing!Inv
  <2> QED
    BY <2>1, KeyCallTyped DEF Issuing!Create, Issuing!At, Issuing!Inv, Issuing!TypeOK,
      KeySameDirectory
<1>2. /\ s5[i] = "none" /\ s4[i] = {} /\ "providerRevoked" \notin s3[i]
      /\ s6[i].at = i /\ Issuing!ReadBefore(i) /\ s6[i].failed \in BOOLEAN
  BY <1>1, KeyCallTyped DEF Issuing!RowOK, Issuing!IssuerOK, Issuing!Past, Issuing!Inv
<1>3. CASE s5' = [s5 EXCEPT ![i] = "live"] /\ Issuing!Goto(i, "learn")
  <2>1. PICK m : KeyMoves(i, m, {"learn"})
    BY <1>3, KeyGotoMoves DEF Issuing!Inv, Issuing!Pcs, Issuing!Over, Issuing!Steps
  <2>2. m \in Issuing!Call /\ s6' = [s6 EXCEPT ![i] = m] /\ s6'[i] = m /\ m.pc = "learn" /\ m.at = i /\ m.version = s6[i].version
    BY <2>1, KeyIssuerGoes DEF KeyGoesOn
  <2>3. m.space = s6[i].space
    BY <2>1, <2>2 DEF KeyMoves, KeySame, Issuing!Over
  <2>4. s5'[i] = "live"
    BY <1>3 DEF Issuing!Inv, Issuing!TypeOK
  <2>5. Issuing!IssuerOK(i)'
    BY <1>1, <1>2, <2>2, <2>3, <2>4 DEF Issuing!IssuerOK, Issuing!ReadBefore, Issuing!Over,
      Issuing!Going, Issuing!Learned, Issuing!Steps, Issuing!Activating
  <2>6. Issuing!Untouched(i)'
    BY <1>1, <1>2, <2>2, <2>4 DEF Issuing!Untouched, Issuing!Going, Issuing!Learned, Issuing!Steps,
      Issuing!Grown
  <2> QED
    BY <1>1, <1>2, <1>3, <2>2, <2>5, <2>6, KeyProvides DEF KeyPlaced, KeyBefore
<1>4. ASSUME NEW made \in {"none", "live"}, s5' = [s5 EXCEPT ![i] = made],
             s6' = [s6 EXCEPT ![i].pc = "cancel", ![i].failed = TRUE]
      PROVE  KeyStep({i})
  <2> DEFINE m == [s6[i] EXCEPT !.pc = "cancel", !.failed = TRUE]
  <2>1. m \in Issuing!Call /\ m.pc = "cancel" /\ m.at = i /\ m.version = s6[i].version /\ m.failed
    BY <1>1, <1>2 DEF Issuing!Call, Issuing!Pcs
  <2>2. s6' = [s6 EXCEPT ![i] = m]
    BY <1>1, <1>4 DEF Issuing!Inv, Issuing!TypeOK, Issuing!Call
  <2> HIDE DEF m
  <2>3. s6'[i] = m
    BY <2>2 DEF Issuing!Inv, Issuing!TypeOK
  <2>4. KeyPlaced(i)'
    BY <2>1, <2>3, KeyCompensatingIssuer DEF KeyCompensating
  <2> QED
    BY <1>1, <1>2, <1>4, <2>1, <2>2, <2>4, KeyProvides DEF KeyBefore
<1> QED
  BY <1>3, <1>4 DEF Issuing!Create

(* It grants, at a new version of the policy. *)
LEMMA KeyGrantStep == ASSUME Issuing!Inv, NEW i \in KeyIssuers, Issuing!Grant(i) PROVE KeyStep({i})
<1> USE KeyApart
<1>1. /\ s5[i] # "none" /\ Issuing!IssuerOK(i) /\ Issuing!Untouched(i) /\ Issuing!RowOK(i) /\ s6[i].pc = "grant" /\ UNCHANGED s5
      /\ s6[i] \in Issuing!Call /\ s6[i].at = i
  BY KeyMade DEF Issuing!Grant, Issuing!At, Issuing!Steps
<1>2. CASE ~Issuing!CellAt(s6[i].space)
  BY <1>1, <1>2, KeyRefusedStep DEF Issuing!Grant, Issuing!Steps
<1>3. CASE Issuing!CellAt(s6[i].space)
  <2>1. /\ Issuing!Mark({"granted"}, i) /\ s2' = [s2 EXCEPT !.version = @ + 1] /\ UNCHANGED <<s1, s3, s5>>
        /\ KeySameDirectory /\ s7' \in 0 .. KeyFaults
    <3>1. s7' \in 0 .. KeyFaults
      BY <1>3, KeyFaultTyped DEF Issuing!Grant, Issuing!Inv
    <3> QED
      BY <1>1, <1>3, <3>1 DEF Issuing!Grant, KeySameDirectory, Issuing!Inv, Issuing!TypeOK
  <2>2. /\ s2.version = s6[i].space /\ s2.lifecycle = "active" /\ s2.version \in Nat
        /\ s2'.version = s2.version + 1 /\ s2'.lifecycle = "active" /\ s2' # s2
    BY <1>3, <2>1 DEF Issuing!CellAt, Issuing!Inv, Issuing!TypeOK
  <2>3. "revoked" \notin s4[i] /\ "activated" \notin s4[i]
    BY <1>1, <2>2, KeyCallTyped DEF Issuing!IssuerOK, Issuing!Inv
  <2>4. s4' = [s4 EXCEPT ![i] = s4[i] \union {"granted"}] /\ s4[i] \union {"granted"} \in SUBSET Issuing!KeyColumns
    BY <2>1 DEF Issuing!Mark, Issuing!Inv, Issuing!TypeOK, Issuing!KeyColumns
  <2>5. s4'[i] = s4[i] \union {"granted"}
    BY <2>4 DEF Issuing!Inv, Issuing!TypeOK
  <2>6. "staged" \in s4[i]
    BY <1>1, <2>2 DEF Issuing!IssuerOK
  <2>7. CASE s6' = [s6 EXCEPT ![i].pc = "publish", ![i].checked = FALSE, ![i].version = s2.version + 1]
    <3> DEFINE m == [s6[i] EXCEPT !.pc = "publish", !.checked = FALSE, !.version = s2.version + 1]
    <3>1. m \in Issuing!Call /\ m.pc = "publish" /\ m.at = i /\ m.version = s2.version + 1 /\ m.space = s6[i].space
      <4>1. s2.version + 1 \in Nat /\ "publish" \in Issuing!Pcs
        BY <2>2 DEF Issuing!Pcs, Issuing!Steps
      <4> QED
        BY <1>1, <4>1 DEF Issuing!Call
    <3>2. s6' = [s6 EXCEPT ![i] = m]
      BY <1>1, <2>7 DEF Issuing!Inv, Issuing!TypeOK, Issuing!Call
    <3> HIDE DEF m
    <3>3. s6'[i] = m
      BY <3>2 DEF Issuing!Inv, Issuing!TypeOK
    <3>4. Issuing!RowOK(i)'
      BY <1>1, <2>1, <2>3, <2>5, <2>6, <3>1, <3>3 DEF Issuing!RowOK, Issuing!Past
    <3>5. Issuing!IssuerOK(i)'
      <4>1. s6[i].space \in Nat /\ Issuing!ReadBefore(i) /\ s1.version \in Nat
        BY <1>1, KeyCallTyped DEF Issuing!IssuerOK, Issuing!Inv, Issuing!TypeOK
      <4> QED
        BY <1>1, <2>1, <2>2, <3>1, <3>3, <4>1 DEF Issuing!IssuerOK, Issuing!ReadBefore,
          Issuing!Over, Issuing!Going, Issuing!Learned, Issuing!Steps, Issuing!Activating
    <3>6. Issuing!Untouched(i)'
      BY <1>1, <2>1, <2>2, <2>5, <3>1, <3>3 DEF Issuing!Untouched, Issuing!Going, Issuing!Learned,
        Issuing!Steps, Issuing!Grown
    <3> QED
      BY <2>1, <2>2, <2>3, <2>4, <3>1, <3>2, <3>4, <3>5, <3>6, KeyWrites DEF KeyPlaced
  <2>8. CASE Issuing!Goto(i, "cancel")
    <3>1. PICK m : KeyMoves(i, m, {"cancel"})
      BY <2>8, KeyGotoMoves DEF Issuing!Inv, Issuing!Pcs, Issuing!Over
    <3>2. m \in Issuing!Call /\ s6' = [s6 EXCEPT ![i] = m] /\ s6'[i] = m /\ m.pc = "cancel" /\ m.at = i /\ m.version = s6[i].version
      BY <3>1, KeyIssuerGoes DEF KeyGoesOn
    <3>3. Issuing!RowOK(i)'
      BY <1>1, <2>1, <2>3, <2>5, <2>6, <3>2 DEF Issuing!RowOK, Issuing!Past
    <3>4. KeyPlaced(i)'
      BY <1>1, <3>2, KeyCompensatingIssuer DEF KeyCompensating
    <3> QED
      BY <2>1, <2>2, <2>3, <2>4, <3>2, <3>3, <3>4, KeyWrites
  <2> QED
    BY <1>3, <2>7, <2>8 DEF Issuing!Grant
<1> QED
  BY <1>2, <1>3


(* It publishes that version. *)
LEMMA KeyPublishStep == ASSUME Issuing!Inv, NEW i \in KeyIssuers, Issuing!Publish(i) PROVE KeyStep({i})
<1> USE KeyApart
<1>1. /\ s5[i] # "none" /\ Issuing!IssuerOK(i) /\ Issuing!Untouched(i) /\ Issuing!RowOK(i) /\ s6[i].pc = "publish"
      /\ s6[i] \in Issuing!Call /\ s6[i].at = i /\ UNCHANGED <<s2, s3, s4, s5>>
  BY KeyMade DEF Issuing!Publish, Issuing!At, Issuing!Steps
<1>2. /\ Issuing!ReadBefore(i) /\ s6[i].space < s6[i].version /\ s6[i].version <= s2.version
      /\ s6[i].version = s2.version => s2.lifecycle = "active"
  BY <1>1 DEF Issuing!IssuerOK
<1>3. /\ s6[i].space \in Nat /\ s6[i].version \in Nat /\ s1.version \in Nat /\ s2.version \in Nat
      /\ s7' \in 0 .. KeyFaults
  <2>1. s7' \in 0 .. KeyFaults
    BY KeyFaultTyped DEF Issuing!Publish, Issuing!Inv
  <2> QED
    BY <2>1, KeyCallTyped DEF Issuing!Inv, Issuing!TypeOK
<1>4. ASSUME Issuing!Goto(i, "cancel") PROVE KeyPlaced(i)' /\ \E m : KeyMoves(i, m, {"cancel"})
  <2>1. PICK m : KeyMoves(i, m, {"cancel"})
    BY <1>4, KeyGotoMoves DEF Issuing!Inv, Issuing!Pcs, Issuing!Over
  <2>2. s6'[i] = m /\ m.pc = "cancel" /\ m.at = i
    BY <2>1, KeyIssuerGoes
  <2> QED
    BY <1>1, <2>1, <2>2, KeyCompensatingIssuer DEF KeyCompensating
<1>5. ASSUME Issuing!Goto(i, "activate"), s1'.version >= s6[i].version PROVE KeyPlaced(i)' /\ \E m : KeyMoves(i, m, {"activate"})
  <2>1. PICK m : KeyMoves(i, m, {"activate"})
    BY <1>5, KeyGotoMoves DEF Issuing!Inv, Issuing!Pcs, Issuing!Over, Issuing!Steps
  <2>2. s6'[i] = m /\ m.pc = "activate" /\ m.at = i /\ m.version = s6[i].version
    BY <2>1, KeyIssuerGoes DEF KeyGoesOn
  <2>3. Issuing!IssuerOK(i)'
    BY <1>1, <1>5, <2>2 DEF Issuing!IssuerOK, Issuing!Over, Issuing!Going, Issuing!Learned,
      Issuing!Steps, Issuing!Activating
  <2>4. Issuing!Untouched(i)'
    BY <1>1, <2>2 DEF Issuing!Untouched, Issuing!Going, Issuing!Learned, Issuing!Steps,
      Issuing!Grown
  <2> QED
    BY <2>1, <2>3, <2>4 DEF KeyPlaced
<1>6. CASE /\ s1.version = s6[i].space
           /\ s1' = [s1 EXCEPT !.version = s6[i].version, !.lifecycle = "active"]
           /\ Issuing!Goto(i, "activate") \/ Issuing!Goto(i, "cancel")
  <2>1. /\ s1' \in [lifecycle: Issuing!Lifecycles, version: Nat, lease: Issuing!Actors \union {None}, live: BOOLEAN]
        /\ s1'.version = s6[i].version /\ s1'.lifecycle = "active"
    BY <1>3, <1>6 DEF Issuing!Inv, Issuing!TypeOK, Issuing!Lifecycles
  <2>2. s1.lifecycle = "active"
    BY <1>2, <1>6 DEF Issuing!ReadBefore
  <2>3. \E m : KeyMoves(i, m, {"activate", "cancel"}) /\ KeyPlaced(i)'
    BY <1>3, <1>4, <1>5, <1>6, <2>1 DEF KeyMoves
  <2>4. PICK m : KeyMoves(i, m, {"activate", "cancel"}) /\ KeyPlaced(i)'
    BY <2>3
  <2>5. m \in Issuing!Call /\ s6' = [s6 EXCEPT ![i] = m] /\ KeyGoesOn(i, m)
    BY <2>4, KeyIssuerGoes
  <2>6. s2' = s2 /\ s2 \in [lifecycle: Issuing!Lifecycles, version: Nat]
    BY <1>1 DEF Issuing!Inv, Issuing!TypeOK
  <2>7. /\ s1.version < s1'.version /\ s1'.version <= s2'.version
        /\ s1'.version = s2'.version => s1'.lifecycle = s2'.lifecycle
    BY <1>2, <1>3, <1>6, <2>1, <2>6
  <2>8. /\ s1.version <= s1'.version /\ s1'.version # s1.version
        /\ s2.version <= s2'.version /\ s2' \in [lifecycle: Issuing!Lifecycles, version: Nat]
        /\ s2'.version = s2.version /\ s2'.lifecycle = s2.lifecycle
        /\ s1'.lifecycle # "deleted" /\ i \in Issuing!Actors
    BY <1>3, <2>1, <2>6, <2>7
  <2> HIDE <1>6
  <2> QED
    BY <1>1, <1>3, <2>1, <2>2, <2>4, <2>5, <2>7, <2>8, KeyShows
<1>7. CASE /\ s1.version # s6[i].space
           /\ Issuing!Goto(i, IF s1.version = s6[i].version /\ s1.lifecycle = "active" THEN "activate" ELSE "cancel")
           /\ UNCHANGED <<s1, s7>>
  <2>1. (Issuing!Goto(i, "activate") /\ s1.version = s6[i].version) \/ Issuing!Goto(i, "cancel")
    BY <1>7
  <2>2. \E m : KeyMoves(i, m, {"activate", "cancel"}) /\ KeyPlaced(i)'
    BY <1>3, <1>4, <1>5, <1>7, <2>1 DEF KeyMoves
  <2>3. KeySameDirectory
    BY <1>7 DEF KeySameDirectory, Issuing!Inv, Issuing!TypeOK
  <2> QED
    BY <1>1, <1>3, <2>2, <2>3, KeyIssuerQuiet DEF KeyBefore
<1> QED
  BY <1>6, <1>7 DEF Issuing!Publish

(* It activates the key, *)
LEMMA KeyActivateStep == ASSUME Issuing!Inv, NEW i \in KeyIssuers, Issuing!Activate(i) PROVE KeyStep({i})
<1> USE KeyApart
<1>1. /\ s5[i] # "none" /\ Issuing!IssuerOK(i) /\ Issuing!Untouched(i) /\ Issuing!RowOK(i) /\ s6[i].pc = "activate" /\ UNCHANGED s5
      /\ s6[i].at = i
  BY KeyMade DEF Issuing!Activate, Issuing!At, Issuing!Steps
<1>2. CASE Issuing!Refused(i)
  BY <1>1, <1>2, KeyRefusedStep DEF Issuing!Steps
<1>3. CASE /\ s4[i] \intersect {"staged", "revoked", "activated"} = {"staged"}
           /\ Issuing!Mark({"activated"}, i) /\ Issuing!Answered(i, "confirm") /\ UNCHANGED <<s2, s3>>
  <2>1. Issuing!OnError(i, s6[i].pc) = "readActivation"
    BY <1>1, KeyErrors
  <2>2. /\ KeySameDirectory /\ s7' \in 0 .. KeyFaults
        /\ \E m : /\ KeyMoves(i, m, {"confirm", "readActivation"}) /\ s6'[i] = m /\ m.pc \in {"confirm", "readActivation"} /\ m.at = i
                  /\ m.pc \notin Issuing!Over => KeySame(i, m)
                  /\ m.version = s6[i].version
    BY <1>3, <2>1, KeyAnsweredIssuer DEF Issuing!Pcs, Issuing!Over, Issuing!Steps, KeyBefore
  <2>3. PICK m : /\ KeyMoves(i, m, {"confirm", "readActivation"}) /\ s6'[i] = m /\ m.pc \in {"confirm", "readActivation"} /\ m.at = i
                 /\ m.pc \notin Issuing!Over => KeySame(i, m)
                 /\ m.version = s6[i].version
    BY <2>2
  <2>4. s4'[i] = s4[i] \union {"activated"}
    BY <1>3 DEF Issuing!Mark, Issuing!Inv, Issuing!TypeOK
  <2>5. s1.version >= s6[i].version
    BY <1>1 DEF Issuing!IssuerOK, Issuing!Activating
  <2>6. Issuing!RowOK(i)'
    BY <1>1, <1>3, <2>2, <2>3, <2>4, <2>5 DEF Issuing!RowOK, Issuing!Past, KeySameDirectory
  <2>7. Issuing!IssuerOK(i)'
    BY <1>1, <1>3, <2>2, <2>3, <2>4, <2>5 DEF Issuing!IssuerOK, KeySameDirectory, Issuing!Over,
      Issuing!Going, Issuing!Learned, Issuing!Steps, Issuing!Activating
  <2>8. Issuing!Untouched(i)'
    BY <1>1, <1>3, <2>3, <2>4 DEF Issuing!Untouched, Issuing!Going, Issuing!Learned, Issuing!Steps,
      Issuing!Grown
  <2> QED
    BY <1>1, <1>3, <2>2, <2>3, <2>6, <2>7, <2>8, KeyIssuerWrites DEF Issuing!KeyColumns, KeyBefore,
      KeyPlaced
<1> QED
  BY <1>2, <1>3 DEF Issuing!Activate

(* confirms it, *)
LEMMA KeyConfirmStep == ASSUME Issuing!Inv, NEW i \in KeyIssuers, Issuing!Confirm(i) PROVE KeyStep({i})
<1> USE KeyApart
<1>1. /\ s5[i] # "none" /\ Issuing!IssuerOK(i) /\ Issuing!Untouched(i) /\ Issuing!RowOK(i) /\ s6[i].pc = "confirm" /\ UNCHANGED s5
      /\ s6[i].at = i
  BY KeyMade DEF Issuing!Confirm, Issuing!At, Issuing!Steps
<1>2. CASE Issuing!Refused(i)
  BY <1>1, <1>2, KeyRefusedStep DEF Issuing!Steps
<1>3. CASE /\ s4[i] \intersect {"activated", "confirmed", "revoked"} = {"activated"}
           /\ Issuing!Mark({"confirmed"}, i) /\ Issuing!Answered(i, "complete") /\ UNCHANGED <<s2, s3>>
  <2>1. Issuing!OnError(i, s6[i].pc) = "readConfirmation"
    BY <1>1, KeyErrors
  <2>2. /\ KeySameDirectory /\ s7' \in 0 .. KeyFaults
        /\ \E m : /\ KeyMoves(i, m, {"complete", "readConfirmation"}) /\ s6'[i] = m /\ m.pc \in {"complete", "readConfirmation"} /\ m.at = i
                  /\ m.pc \notin Issuing!Over => KeySame(i, m)
                  /\ m.version = s6[i].version
    BY <1>3, <2>1, KeyAnsweredIssuer DEF Issuing!Pcs, Issuing!Over, Issuing!Steps, KeyBefore
  <2>3. PICK m : /\ KeyMoves(i, m, {"complete", "readConfirmation"}) /\ s6'[i] = m /\ m.pc \in {"complete", "readConfirmation"} /\ m.at = i
                 /\ m.pc \notin Issuing!Over => KeySame(i, m)
                 /\ m.version = s6[i].version
    BY <2>2
  <2>4. s4'[i] = s4[i] \union {"confirmed"}
    BY <1>3 DEF Issuing!Mark, Issuing!Inv, Issuing!TypeOK
  <2>5. s1.version >= s6[i].version
    BY <1>1 DEF Issuing!IssuerOK, Issuing!Activating
  <2>6. Issuing!RowOK(i)'
    BY <1>1, <1>3, <2>2, <2>3, <2>4, <2>5 DEF Issuing!RowOK, Issuing!Past, KeySameDirectory
  <2>7. Issuing!IssuerOK(i)'
    BY <1>1, <1>3, <2>2, <2>3, <2>4, <2>5 DEF Issuing!IssuerOK, KeySameDirectory, Issuing!Over,
      Issuing!Going, Issuing!Learned, Issuing!Steps, Issuing!Activating
  <2>8. Issuing!Untouched(i)'
    BY <1>1, <1>3, <2>3, <2>4 DEF Issuing!Untouched, Issuing!Going, Issuing!Learned, Issuing!Steps,
      Issuing!Grown
  <2> QED
    BY <1>1, <1>3, <2>2, <2>3, <2>6, <2>7, <2>8, KeyIssuerWrites DEF Issuing!KeyColumns, KeyBefore,
      KeyPlaced
<1> QED
  BY <1>2, <1>3 DEF Issuing!Confirm

(* and reads back what a lost answer may have done. *)
LEMMA KeyReadBackStep == ASSUME Issuing!Inv, NEW i \in KeyIssuers, Issuing!ReadBack(i) PROVE KeyStep({i})
<1> USE KeyApart
<1>0. /\ UNCHANGED <<s1, s2, s3, s4, s5, s7>>
      /\ KeySameDirectory /\ s7' \in 0 .. KeyFaults
  BY DEF Issuing!ReadBack, KeySameDirectory, Issuing!Inv, Issuing!TypeOK
<1>1. ASSUME NEW from, NEW column, NEW to,
             <<from, column, to>> \in {<<"readActivation", "activated", "confirm">>, <<"readConfirmation", "confirmed", "complete">>},
             Issuing!At(i, from), Issuing!Goto(i, IF column \in s4[i] /\ "revoked" \notin s4[i] THEN to ELSE "cancel")
      PROVE  KeyStep({i})
  <2>1. \/ from = "readActivation" /\ column = "activated" /\ to = "confirm"
        \/ from = "readConfirmation" /\ column = "confirmed" /\ to = "complete"
    BY <1>1
  <2>2. /\ s5[i] # "none" /\ Issuing!IssuerOK(i) /\ Issuing!Untouched(i) /\ s6[i].at = i /\ s6[i].pc = from
    BY <1>1, <2>1, KeyMade DEF Issuing!At, Issuing!Learned
  <2>3. CASE Issuing!Goto(i, "cancel")
    <3>1. PICK m : KeyMoves(i, m, {"cancel"})
      BY <2>3, KeyGotoMoves DEF Issuing!Inv, Issuing!Pcs, Issuing!Over
    <3>2. s6'[i] = m /\ m.pc = "cancel" /\ m.at = i
      BY <3>1, KeyIssuerGoes
    <3>3. KeyPlaced(i)'
      BY <1>0, <2>2, <3>2, KeyCompensatingIssuer DEF KeyCompensating
    <3> QED
      BY <1>0, <3>1, <3>3, KeyIssuerQuiet DEF KeyBefore
  <2>4. CASE column \in s4[i] /\ Issuing!Goto(i, to)
    <3>1. PICK m : KeyMoves(i, m, {to})
      BY <2>1, <2>4, KeyGotoMoves DEF Issuing!Inv, Issuing!Pcs, Issuing!Over, Issuing!Steps
    <3>2. s6'[i] = m /\ m.pc = to /\ m.at = i /\ m.version = s6[i].version
      BY <2>1, <3>1, KeyIssuerGoes DEF KeyGoesOn
    <3>3. Issuing!IssuerOK(i)'
      BY <1>0, <2>1, <2>2, <3>2 DEF Issuing!IssuerOK, Issuing!Over, Issuing!Going, Issuing!Learned,
        Issuing!Steps, Issuing!Activating
    <3>4. Issuing!Untouched(i)'
      BY <1>0, <2>1, <2>2, <2>4, <3>2 DEF Issuing!Untouched, Issuing!Going, Issuing!Learned,
        Issuing!Steps, Issuing!Grown
    <3> QED
      BY <1>0, <2>1, <3>1, <3>3, <3>4, KeyIssuerQuiet DEF KeyBefore, KeyPlaced
  <2> QED
    BY <1>1, <2>3, <2>4
<1>2. ASSUME NEW r \in {<<"readActivation", "activated", "confirm">>, <<"readConfirmation", "confirmed", "complete">>},
             Issuing!At(i, r[1]), Issuing!Goto(i, IF r[2] \in s4[i] /\ "revoked" \notin s4[i] THEN r[3] ELSE "cancel")
      PROVE  KeyStep({i})
  BY <1>1, <1>2
<1> QED
  BY <1>2 DEF Issuing!ReadBack


(* The places between the confirmation and the answer, and the answer itself. *)
KeyCompleting == {"complete", "verify", "recover", "retry", "verifyRetry", "withdraw"}

(* An issuer goes from one of them to another, or gives up, or answers. *)
LEMMA KeyCompletingIssuer ==
  ASSUME Issuing!Inv, NEW i \in KeyIssuers, s6[i].pc \in KeyCompleting, s6'[i].at = i,
         s6'[i].pc \in KeyCompleting \union {"cancel", "unknown", "answered"},
         s6'[i].pc \in KeyCompleting => s6'[i].version = s6[i].version,
         s3[i] \subseteq s3'[i], UNCHANGED <<s2, s4, s5>>, KeySameDirectory,
         s6'[i].pc # "cancel" /\ s6'[i].pc # "unknown" => s3'[i] \subseteq s3[i] \union {"completed"},
         s6'[i].pc = "answered" => "cancelled" \notin s3'[i] /\ "completed" \in s3'[i]
  PROVE  KeyPlaced(i)'
<1> USE KeyApart
<1>1. s5[i] # "none" /\ Issuing!IssuerOK(i) /\ Issuing!Untouched(i)
  BY KeyMade DEF KeyCompleting, Issuing!Learned
<1>2. CASE s6'[i].pc = "cancel"
  BY <1>1, <1>2, KeyCompensatingIssuer DEF KeyCompensating
<1>3. CASE s6'[i].pc = "unknown"
  BY <1>3, KeyEndedIssuer DEF Issuing!Over
<1>4. CASE s6'[i].pc \in KeyCompleting \union {"answered"}
  <2>1. Issuing!IssuerOK(i)'
    BY <1>1, <1>4 DEF Issuing!IssuerOK, KeySameDirectory, KeyCompleting, Issuing!Over,
      Issuing!Going, Issuing!Learned, Issuing!Steps, Issuing!Activating
  <2>2. Issuing!Untouched(i)'
    BY <1>1, <1>4 DEF Issuing!Untouched, KeyCompleting, Issuing!Going, Issuing!Learned,
      Issuing!Steps, Issuing!Grown
  <2> QED
    BY <2>1, <2>2 DEF KeyPlaced
<1> QED
  BY <1>2, <1>3, <1>4

(* Such a step that leaves the journal alone. *)
LEMMA KeyCompletingQuiet ==
  ASSUME Issuing!Inv, NEW i \in KeyIssuers, s6[i].pc \in KeyCompleting, NEW m,
         NEW pcs, pcs \subseteq KeyCompleting \union {"cancel", "unknown", "answered"}, KeyMoves(i, m, pcs),
         s7' \in 0 .. KeyFaults, UNCHANGED <<s2, s3, s4, s5>>, KeySameDirectory,
         m.pc = "answered" => Issuing!Live(i) /\ "completed" \in s3[i]
  PROVE  KeyStep({i})
<1>1. s6'[i] = m /\ m.pc \in pcs /\ m.at = i /\ m.version = s6[i].version
  BY KeyIssuerGoes DEF KeyCompleting, KeyGoesOn
<1>2. KeyPlaced(i)'
  BY <1>1, KeyCompletingIssuer DEF Issuing!Live
<1> QED
  BY <1>2, KeyIssuerQuiet DEF KeyBefore, KeyCompleting

(* The steps that complete a row write no more than the row. *)
LEMMA KeyCompletingBooks ==
  ASSUME Issuing!Inv, NEW i \in KeyIssuers, s6[i].pc \in KeyCompleting, NEW m,
         NEW pcs, pcs \subseteq KeyCompleting \union {"cancel", "unknown"}, KeyMoves(i, m, pcs),
         s7' \in 0 .. KeyFaults, UNCHANGED <<s2, s4, s5>>, KeySameDirectory,
         Issuing!Set({"completed"}, i)
  PROVE  KeyStep({i})
<1>1. s6'[i] = m /\ m.pc \in pcs /\ m.at = i /\ m.version = s6[i].version
  BY KeyIssuerGoes DEF KeyCompleting, KeyGoesOn
<1>2. s3'[i] = s3[i] \union {"completed"}
  BY KeySetsOne DEF Issuing!JournalColumns
<1>3. KeyPlaced(i)'
  BY <1>1, <1>2, KeyCompletingIssuer DEF KeyCompleting
<1>4. KeySound(i, {"completed"})
  <2>1. Issuing!IssuerOK(i) /\ Issuing!Past(i)'
    BY <1>1 DEF Issuing!Inv, Issuing!Past, KeyCompleting
  <2> QED
    BY <2>1 DEF KeySound, Issuing!IssuerOK, Issuing!JournalColumns, KeyCompleting, Issuing!Learned
<1> QED
  BY <1>3, <1>4, KeyIssuerBooks DEF KeyBefore, KeyCompleting, Issuing!JournalColumns

(* It completes its row, *)
LEMMA KeyCompleteStep == ASSUME Issuing!Inv, NEW i \in KeyIssuers, Issuing!Complete(i) PROVE KeyStep({i})
<1> USE KeyApart
<1>1. s6[i].pc = "complete" /\ UNCHANGED <<s2, s4, s5>>
  BY DEF Issuing!Complete, Issuing!At
<1>2. CASE Issuing!Set({"completed"}, i) /\ Issuing!Answered(i, "verify")
  <2>1. Issuing!OnError(i, s6[i].pc) = "recover"
    BY <1>1, KeyErrors
  <2>2. /\ KeySameDirectory /\ s7' \in 0 .. KeyFaults
        /\ \E m : KeyMoves(i, m, {"verify", "recover"})
    BY <1>2, <2>1, KeyAnsweredMoves DEF Issuing!Pcs, Issuing!Inv
  <2> QED
    BY <1>1, <1>2, <2>2, KeyCompletingBooks DEF KeyCompleting
<1>3. CASE Issuing!Goto(i, "cancel") /\ UNCHANGED <<s1, s3, s7>>
  <2>1. KeySameDirectory /\ s7' \in 0 .. KeyFaults
    BY <1>3 DEF KeySameDirectory, Issuing!Inv, Issuing!TypeOK
  <2>2. \E m : KeyMoves(i, m, {"cancel"})
    BY <1>3, KeyGotoMoves DEF Issuing!Inv, Issuing!Pcs, Issuing!Over
  <2> QED
    BY <1>1, <1>3, <2>1, <2>2, KeyCompletingQuiet DEF KeyCompleting, KeyMoves
<1> QED
  BY <1>2, <1>3 DEF Issuing!Complete

(* verifies it, *)
LEMMA KeyVerifyStep == ASSUME Issuing!Inv, NEW i \in KeyIssuers, Issuing!Verify(i) PROVE KeyStep({i})
<1> USE KeyApart
<1>1. /\ s6[i].pc \in KeyCompleting /\ UNCHANGED <<s2, s3, s4, s5>> /\ s7' \in 0 .. KeyFaults
      /\ Issuing!Proceed(i, IF Issuing!Completed(i) THEN "answered" ELSE "cancel")
  BY DEF Issuing!Verify, Issuing!At, KeyCompleting, Issuing!Inv, Issuing!TypeOK
<1>2. CASE Issuing!Completed(i)
  <2>1. KeySameDirectory /\ \E m : KeyMoves(i, m, {"answered"})
    BY <1>1, <1>2, KeyProceedMoves DEF Issuing!Inv, Issuing!Pcs, Issuing!Over
  <2> QED
    BY <1>1, <1>2, <2>1, KeyCompletingQuiet DEF Issuing!Completed
<1>3. CASE ~Issuing!Completed(i)
  <2>1. KeySameDirectory /\ \E m : KeyMoves(i, m, {"cancel"})
    BY <1>1, <1>3, KeyProceedMoves DEF Issuing!Inv, Issuing!Pcs, Issuing!Over
  <2> QED
    BY <1>1, <2>1, KeyCompletingQuiet DEF KeyMoves
<1> QED
  BY <1>2, <1>3

(* looks whether it had, *)
LEMMA KeyRecoverStep == ASSUME Issuing!Inv, NEW i \in KeyIssuers, Issuing!Recover(i) PROVE KeyStep({i})
<1> USE KeyApart
<1>1. /\ s6[i].pc \in KeyCompleting /\ UNCHANGED <<s2, s3, s4, s5>> /\ s7' \in 0 .. KeyFaults
      /\ s6[i] \in Issuing!Call /\ s6[i].pc = "recover"
  <2>1. s7' \in 0 .. KeyFaults
    BY KeyFaultTyped DEF Issuing!Recover, Issuing!Inv
  <2> QED
    BY <2>1, KeyCallTyped DEF Issuing!Recover, Issuing!At, KeyCompleting, Issuing!Inv
<1>2. CASE Issuing!Proceed(i, IF Issuing!Completed(i) THEN "answered" ELSE IF "completed" \in s3[i] THEN "cancel" ELSE "retry")
  <2>1. CASE Issuing!Completed(i)
    <3>1. KeySameDirectory /\ \E m : KeyMoves(i, m, {"answered"})
      BY <1>2, <2>1, KeyProceedMoves DEF Issuing!Inv, Issuing!Pcs, Issuing!Over
    <3> QED
      BY <1>1, <2>1, <3>1, KeyCompletingQuiet DEF Issuing!Completed
  <2>2. CASE ~Issuing!Completed(i)
    <3>1. Issuing!Proceed(i, "cancel") \/ Issuing!Proceed(i, "retry")
      BY <1>2, <2>2
    <3>2. KeySameDirectory /\ \E m : KeyMoves(i, m, {"cancel", "retry"})
      BY <3>1, KeyProceedMoves DEF Issuing!Inv, Issuing!Pcs, Issuing!Over, KeyMoves
    <3> QED
      BY <1>1, <3>2, KeyCompletingQuiet DEF KeyMoves, KeyCompleting
  <2> QED
    BY <2>1, <2>2
<1>3. CASE s6' = [s6 EXCEPT ![i].pc = "retry", ![i].blind = TRUE] /\ UNCHANGED s1
  <2> DEFINE m == [s6[i] EXCEPT !.pc = "retry", !.blind = TRUE]
  <2>1. m \in Issuing!Call /\ m.pc = "retry" /\ KeySame(i, m) /\ m.version = s6[i].version
    BY <1>1 DEF Issuing!Call, Issuing!Pcs, KeySame
  <2>2. s6' = [s6 EXCEPT ![i] = m]
    BY <1>1, <1>3 DEF Issuing!Inv, Issuing!TypeOK, Issuing!Call
  <2> HIDE DEF m
  <2>3. KeyMoves(i, m, {"retry"})
    BY <2>1, <2>2 DEF KeyMoves, Issuing!Over
  <2>4. KeySameDirectory
    BY <1>3 DEF KeySameDirectory, Issuing!Inv, Issuing!TypeOK
  <2> QED
    BY <1>1, <2>1, <2>3, <2>4, KeyCompletingQuiet DEF KeyCompleting
<1> QED
  BY <1>2, <1>3 DEF Issuing!Recover

(* tries again, *)
LEMMA KeyRetryCompleteStep == ASSUME Issuing!Inv, NEW i \in KeyIssuers, Issuing!RetryComplete(i) PROVE KeyStep({i})
<1> USE KeyApart
<1> DEFINE lost == Issuing!Fault /\ Issuing!Proceed(i, IF s6[i].blind THEN "unknown" ELSE "withdraw")
<1>1. s6[i].pc \in KeyCompleting /\ UNCHANGED <<s2, s4, s5>> /\ s7' \in 0 .. KeyFaults
  <2>1. s7' \in 0 .. KeyFaults
    BY KeyFaultTyped DEF Issuing!RetryComplete, Issuing!Inv
  <2> QED
    BY <2>1 DEF Issuing!RetryComplete, Issuing!At, KeyCompleting
<1>2. ASSUME NEW pc \in {"verifyRetry", "withdraw"}, Issuing!Goto(i, pc), UNCHANGED s1
      PROVE  KeySameDirectory /\ \E m : KeyMoves(i, m, {"verifyRetry", "withdraw", "unknown"})
  <2>1. \E m : KeyMoves(i, m, {pc})
    BY <1>2, KeyGotoMoves DEF Issuing!Inv, Issuing!Pcs, Issuing!Over
  <2> QED
    BY <1>2, <2>1 DEF KeyMoves, KeySameDirectory, Issuing!Inv, Issuing!TypeOK
<1>3. ASSUME lost PROVE KeySameDirectory /\ \E m : KeyMoves(i, m, {"verifyRetry", "withdraw", "unknown"})
  <2>1. Issuing!Proceed(i, "unknown") \/ Issuing!Proceed(i, "withdraw")
    BY <1>3
  <2> QED
    BY <2>1, KeyProceedMoves DEF Issuing!Inv, Issuing!Pcs, Issuing!Over, KeyMoves
<1>4. CASE Issuing!Set({"completed"}, i) /\ (lost \/ (Issuing!Goto(i, "verifyRetry") /\ UNCHANGED <<s1, s7>>))
  <2>1. KeySameDirectory /\ \E m : KeyMoves(i, m, {"verifyRetry", "withdraw", "unknown"})
    BY <1>2, <1>3, <1>4
  <2> QED
    BY <1>1, <1>4, <2>1, KeyCompletingBooks DEF KeyCompleting
<1>5. CASE UNCHANGED s3 /\ (lost \/ (Issuing!Goto(i, "withdraw") /\ UNCHANGED <<s1, s7>>))
  <2>1. KeySameDirectory /\ \E m : KeyMoves(i, m, {"verifyRetry", "withdraw", "unknown"})
    BY <1>2, <1>3, <1>5
  <2> QED
    BY <1>1, <1>5, <2>1, KeyCompletingQuiet DEF KeyCompleting, KeyMoves
<1> QED
  BY <1>4, <1>5 DEF Issuing!RetryComplete

(* or withdraws. *)
LEMMA KeyWithdrawStep == ASSUME Issuing!Inv, NEW i \in KeyIssuers, Issuing!Withdraw(i) PROVE KeyStep({i})
<1> USE KeyApart
<1>1. /\ s6[i].pc = "withdraw" /\ UNCHANGED <<s2, s4, s5>> /\ Issuing!Answered(i, "cancel")
      /\ s6[i].pc \in KeyCompleting
  BY DEF Issuing!Withdraw, Issuing!At, KeyCompleting
<1>2. PICK X \in SUBSET {"cancelled"} : Issuing!Set(X, i)
  BY DEF Issuing!Withdraw
<1>3. Issuing!OnError(i, s6[i].pc) = "unknown"
  BY <1>1, KeyErrors
<1>4. /\ KeySameDirectory /\ s7' \in 0 .. KeyFaults
      /\ \E m : KeyMoves(i, m, {"cancel", "unknown"})
  BY <1>1, <1>3, KeyAnsweredMoves DEF Issuing!Pcs, Issuing!Over, Issuing!Inv
<1>5. PICK m : KeyMoves(i, m, {"cancel", "unknown"})
  BY <1>4
<1>6. s6'[i] = m /\ m.pc \in {"cancel", "unknown"} /\ m.at = i
  BY <1>5, KeyIssuerGoes
<1>7. s3'[i] = s3[i] \union X
  BY <1>2, KeySetsOne DEF Issuing!JournalColumns
<1>8. KeyPlaced(i)'
  BY <1>1, <1>4, <1>6, <1>7, KeyCompletingIssuer DEF KeyCompleting
<1>9. KeySound(i, X)
  BY <1>2 DEF KeySound, Issuing!JournalColumns
<1> QED
  BY <1>1, <1>2, <1>4, <1>5, <1>8, <1>9, KeyIssuerBooks DEF Issuing!JournalColumns, KeyBefore

(* It cancels its row, *)
LEMMA KeyCancelOwnStep == ASSUME Issuing!Inv, NEW i \in KeyIssuers, Issuing!CancelOwn(i) PROVE KeyStep({i})
<1> USE KeyApart
<1>1. /\ s6[i].pc = "cancel" /\ UNCHANGED <<s1, s2, s4, s5>> /\ Issuing!IssuerOK(i)
      /\ Issuing!Goto(i, Issuing!AfterCancel(i)) /\ KeySameDirectory /\ s7' \in 0 .. KeyFaults
  <2>1. s7' \in 0 .. KeyFaults
    BY KeyFaultTyped DEF Issuing!CancelOwn, Issuing!Inv
  <2> QED
    BY <2>1 DEF Issuing!CancelOwn, Issuing!At, Issuing!Inv, Issuing!TypeOK, KeySameDirectory
<1>2. PICK X \in SUBSET {"cancelled"} : Issuing!Set(X, i)
  <2>1. UNCHANGED s3 => Issuing!Set({}, i)
    BY DEF Issuing!Set, Issuing!Inv, Issuing!TypeOK
  <2> QED
    BY <2>1 DEF Issuing!CancelOwn
<1>3. Issuing!AfterCancel(i) \in {"markFailed", "failKey"} /\ (Issuing!AfterCancel(i) = "failKey" => ~s6[i].failed)
  BY DEF Issuing!AfterCancel
<1>4. PICK m : KeyMoves(i, m, {Issuing!AfterCancel(i)})
  BY <1>1, <1>3, KeyGotoMoves DEF Issuing!Inv, Issuing!Pcs, Issuing!Over
<1>5. s6'[i] = m /\ m.pc = Issuing!AfterCancel(i) /\ m.at = i
  BY <1>3, <1>4, KeyIssuerGoes
<1>6. KeyPlaced(i)'
  BY <1>1, <1>3, <1>5, KeyCompensatingIssuer DEF Issuing!IssuerOK, KeyCompensating
<1>7. KeySound(i, X)
  BY <1>2 DEF KeySound, Issuing!JournalColumns
<1> QED
  BY <1>1, <1>2, <1>3, <1>4, <1>6, <1>7, KeyIssuerBooks DEF Issuing!JournalColumns, KeyBefore

(* marks a create that failed, *)
LEMMA KeyMarkFailedStep == ASSUME Issuing!Inv, NEW i \in KeyIssuers, Issuing!MarkFailed(i) PROVE KeyStep({i})
<1> USE KeyApart
<1>1. /\ s6[i].pc = "markFailed" /\ UNCHANGED <<s2, s4, s5>>
      /\ Issuing!Set({"createFailed"}, i) /\ Issuing!Answered(i, "find") /\ Issuing!OnError(i, s6[i].pc) = "find"
  BY KeyErrors DEF Issuing!MarkFailed, Issuing!At
<1>2. /\ KeySameDirectory /\ s7' \in 0 .. KeyFaults
      /\ \E m : KeyMoves(i, m, {"find"})
  BY <1>1, KeyAnsweredMoves DEF Issuing!Pcs, Issuing!Over, Issuing!Inv
<1>3. PICK m : KeyMoves(i, m, {"find"})
  BY <1>2
<1>4. s6'[i] = m /\ m.pc = "find" /\ m.at = i
  BY <1>3, KeyIssuerGoes
<1>5. KeyPlaced(i)'
  BY <1>4, KeyCompensatingIssuer DEF KeyCompensating
<1>6. KeySound(i, {"createFailed"})
  BY <1>4 DEF KeySound, Issuing!JournalColumns, Issuing!Past
<1> QED
  BY <1>1, <1>2, <1>3, <1>5, <1>6, KeyIssuerBooks DEF Issuing!JournalColumns, KeyBefore

(* and looks for the key the create may have made. *)
LEMMA KeyFindStep == ASSUME Issuing!Inv, NEW i \in KeyIssuers, Issuing!Find(i) PROVE KeyStep({i})
<1> USE KeyApart
<1>1. s6[i].pc = "find" /\ UNCHANGED <<s2, s4, s5>> /\ Issuing!OnError(i, s6[i].pc) = "failed"
  BY KeyErrors DEF Issuing!Find, Issuing!At
<1>2. CASE s5[i] = "none"
  <2>1. /\ KeySameDirectory /\ s7' \in 0 .. KeyFaults
        /\ \E m : KeyMoves(i, m, {"failed"})
    BY <1>1, <1>2, KeyAnsweredMoves DEF Issuing!Find, Issuing!Pcs, Issuing!Over, Issuing!Inv
  <2>2. PICK m : KeyMoves(i, m, {"failed"})
    BY <2>1
  <2>3. s6'[i] = m /\ m.pc = "failed" /\ m.at = i
    BY <2>2, KeyIssuerGoes
  <2>4. KeyPlaced(i)'
    BY <2>3, KeyEndedIssuer DEF Issuing!Over
  <2>5. PICK X \in SUBSET {"settled"} : Issuing!Set(X, i)
    BY <1>2 DEF Issuing!Find, Issuing!Settle
  <2>6. KeySound(i, X)
    BY <1>2, <2>3, <2>5 DEF KeySound, Issuing!JournalColumns, Issuing!Past
  <2> QED
    BY <1>1, <2>1, <2>2, <2>4, <2>5, <2>6, KeyIssuerBooks DEF Issuing!JournalColumns, KeyBefore
<1>3. CASE s5[i] # "none"
  <2>1. KeySameDirectory /\ s7' \in 0 .. KeyFaults /\ Issuing!Goto(i, "revokeFound")
    <3>1. s7' \in 0 .. KeyFaults
      BY <1>3, KeyFaultTyped DEF Issuing!Find, Issuing!Inv
    <3> QED
      BY <1>3, <3>1 DEF Issuing!Find, Issuing!Inv, Issuing!TypeOK, KeySameDirectory
  <2>2. PICK m : KeyMoves(i, m, {"revokeFound"})
    BY <2>1, KeyGotoMoves DEF Issuing!Inv, Issuing!Pcs, Issuing!Over
  <2>3. s6'[i] = m /\ m.pc = "revokeFound" /\ m.at = i
    BY <2>2, KeyIssuerGoes
  <2>4. KeyPlaced(i)'
    BY <1>1, <1>3, <2>3, KeyCompensatingIssuer DEF KeyCompensating
  <2>5. PICK X \in SUBSET {"credential"} : Issuing!Set(X, i)
    <3>1. UNCHANGED s3 => Issuing!Set({}, i)
      BY DEF Issuing!Set, Issuing!Inv, Issuing!TypeOK
    <3> QED
      BY <1>3, <3>1 DEF Issuing!Find
  <2>6. KeySound(i, X)
    BY <1>3, <2>3, <2>5 DEF KeySound, Issuing!JournalColumns, Issuing!Past
  <2> QED
    BY <1>1, <2>1, <2>2, <2>4, <2>5, <2>6, KeyIssuerBooks DEF Issuing!JournalColumns, KeyBefore
<1> QED
  BY <1>2, <1>3


(* Whoever takes a key away: its row still tells the truth. *)
LEMMA KeyTakes ==
  ASSUME Issuing!Inv, NEW a \in Issuing!Actors, NEW m \in Issuing!Call, s6' = [s6 EXCEPT ![a] = m], s7' \in 0 .. KeyFaults,
         UNCHANGED <<s3, s5>>, KeySameDirectory,
         s2' = s2 \/ s2' = [s2 EXCEPT !.version = @ + 1],
         NEW i \in KeyIssuers, NEW K \in SUBSET Issuing!KeyColumns, s4' = [s4 EXCEPT ![i] = K],
         K \subseteq s4[i] \union {"revoked", "providerRevoked"},
         s4[i] = {} => K = {}, "staged" \in s4[i] => "staged" \in K,
         "revoked" \in s4[i] => "revoked" \in K,
         "revoked" \in K => "granted" \notin K,
         "revoked" \in K /\ "revoked" \notin s4[i] => s2' # s2,
         "providerRevoked" \in K => s5[i] = "revoked",
         a \in KeyIssuers => a = i /\ m.pc \notin KeyBefore /\ m.version = s6[a].version,
         a # i => Issuing!Untouched(i)', KeyPlaced(a)'
  PROVE  KeyStep({a})
<1> USE KeyApart
<1>1. s4'[i] = K /\ Issuing!RowOK(i)
  BY DEF Issuing!Inv, Issuing!TypeOK
<1>2. s6'[i].version = s6[i].version /\ (Issuing!Past(i) => Issuing!Past(i)') /\ (s6'[i].pc = "create" => s6[i].pc = "create")
  BY DEF Issuing!Inv, Issuing!TypeOK, Issuing!Past, KeyBefore
<1>3. Issuing!RowOK(i)'
  <2> HIDE DEF Issuing!Past, KeyBefore
  <2>1. ~Issuing!Past(i)' => ~Issuing!Past(i)
    BY <1>2
  <2> QED
    BY <1>1, <1>2, <2>1 DEF Issuing!RowOK, KeySameDirectory
<1>4. KeySettles(i)
  BY <1>1 DEF KeySettles
<1> QED
  BY <1>3, <1>4, KeyWrites DEF KeyBefore

(* Nobody's answer rests on a key that is cancelled, denied or revoked, nor on one of a closed space. *)
LEMMA KeyForsaken ==
  ASSUME Issuing!Inv, NEW i \in KeyIssuers, s6'[i] = s6[i], s3'[i] = s3[i], s2'.lifecycle = s2.lifecycle,
         \/ "cancelled" \in s3[i] \/ s5[i] = "revoked"
         \/ "revoked" \in s4[i] \/ s2.lifecycle # "active"
  PROVE  Issuing!Untouched(i)'
<1>1. Issuing!Untouched(i)
  BY DEF Issuing!Inv
<1>2. "revoked" \in s4[i] => s4[i] \notin Issuing!Grown(s6[i].pc)
  BY DEF Issuing!Grown
<1> QED
  BY <1>1, <1>2 DEF Issuing!Untouched

(* What denial does to a credential. *)
LEMMA KeyDenied ==
  ASSUME Issuing!Inv, NEW i \in KeyIssuers, Issuing!DenyKey(i)
  PROVE  /\ s2' = s2 \/ s2' = [s2 EXCEPT !.version = @ + 1]
         /\ \E K \in SUBSET Issuing!KeyColumns :
              /\ s4' = [s4 EXCEPT ![i] = K]
              /\ K \subseteq s4[i] \union {"revoked", "providerRevoked"}
              /\ s4[i] = {} => K = {}
              /\ "staged" \in s4[i] => "staged" \in K
              /\ "revoked" \in s4[i] => "revoked" \in K
              /\ "revoked" \in K => "granted" \notin K
              /\ "revoked" \in K /\ "revoked" \notin s4[i] => s2' # s2
              /\ "providerRevoked" \in K => s5[i] = "revoked"
<1>1. Issuing!RowOK(i)
  BY DEF Issuing!Inv
<1>2. CASE "staged" \in s4[i] /\ "revoked" \notin s4[i]
  <2> DEFINE K == (s4[i] \ {"granted"}) \union {"revoked"}
  <2>1. s4' = [s4 EXCEPT ![i] = K] /\ s2' = [s2 EXCEPT !.version = @ + 1]
    BY <1>2 DEF Issuing!DenyKey
  <2>2. s2' # s2
    BY <2>1 DEF Issuing!Inv, Issuing!TypeOK
  <2>3. K \in SUBSET Issuing!KeyColumns
    BY DEF Issuing!Inv, Issuing!TypeOK, Issuing!KeyColumns
  <2>4. "providerRevoked" \in K => s5[i] = "revoked"
    BY <1>1 DEF Issuing!RowOK
  <2>5. /\ K \subseteq s4[i] \union {"revoked", "providerRevoked"}
        /\ s4[i] # {} /\ "staged" \in K /\ "revoked" \in K /\ "granted" \notin K
    BY <1>2
  <2> HIDE DEF K
  <2> QED
    BY <2>1, <2>2, <2>3, <2>4, <2>5
<1>3. CASE ~("staged" \in s4[i] /\ "revoked" \notin s4[i])
  <2>1. s4' = s4 /\ s2' = s2
    BY <1>3 DEF Issuing!DenyKey
  <2>2. s4' = [s4 EXCEPT ![i] = s4[i]] /\ s4[i] \in SUBSET Issuing!KeyColumns
    BY <2>1 DEF Issuing!Inv, Issuing!TypeOK
  <2> QED
    BY <1>1, <2>1, <2>2 DEF Issuing!RowOK
<1> QED
  BY <1>2, <1>3

(* A statement of a cleaner is answered, or throws it out. *)
LEMMA KeyAnsweredCleaner ==
  ASSUME Issuing!Inv, NEW c \in KeyCleaners, NEW pc \in Issuing!Pcs \ Issuing!Over, Issuing!Answered(c, pc)
  PROVE  /\ KeySameDirectory /\ s7' \in 0 .. KeyFaults
         /\ \E m \in Issuing!Call : /\ s6' = [s6 EXCEPT ![c] = m] /\ s6'[c] = m
                                    /\ (m.pc = "idle" /\ KeyAfresh(c, m)) \/ (m.pc = pc /\ KeySame(c, m))
<1>1. Issuing!OnError(c, s6[c].pc) = "idle"
  BY DEF Issuing!OnError
<1>2. /\ KeySameDirectory /\ s7' \in 0 .. KeyFaults
      /\ \E m : KeyMoves(c, m, {pc, "idle"})
  BY <1>1, KeyAnsweredMoves, KeyApart DEF Issuing!Inv, Issuing!Pcs, Issuing!Over
<1>3. PICK m : KeyMoves(c, m, {pc, "idle"})
  BY <1>2
<1>4. m \in Issuing!Call /\ s6' = [s6 EXCEPT ![c] = m] /\ s6'[c] = m /\ m.pc \in {pc, "idle"}
  BY <1>3, KeyMoved, KeyApart DEF Issuing!Inv
<1>5. m.pc = "idle" => KeyAfresh(c, m)
  BY <1>3 DEF KeyMoves, Issuing!Over
<1>6. m.pc = pc => KeySame(c, m)
  BY <1>3 DEF KeyMoves
<1> QED
  BY <1>2, <1>4, <1>5, <1>6

(* A cleaner goes on, and knows no more than it did. *)
LEMMA KeyCleanerGoes ==
  ASSUME Issuing!Inv, NEW c \in KeyCleaners, NEW m, s6'[c] = m, KeySame(c, m),
         m.pc \in {"own", "list", "rows", "repair", "revoke", "markCell", "markJournal", "compare", "keys", "purge"}
                   \union Issuing!AtRow,
         s2'.lifecycle = s2.lifecycle, KeySameDirectory,
         \A i \in KeyIssuers : s3[i] \subseteq s3'[i] /\ (Issuing!Gone(i) => Issuing!Gone(i)'),
         m.pc \in Issuing!AtRow => s6[c].pc \in Issuing!AtRow,
         m.pc = "rows" => s6[c].pc \in Issuing!AtRow /\ (m.force => Issuing!Gone(m.at)'),
         m.pc \in {"learnRow", "failRow", "revokeRow"} => s5'[m.at] # "none",
         m.pc \in {"journalRow", "cellRow", "markCell", "markJournal"} => s5'[m.at] = "revoked",
         m.pc \in {"revoke", "markCell", "markJournal"} => m.at \in KeyIssuers,
         m.pc = "revoke" => s5'[m.at] # "none" /\ ("revoked" \in s4'[m.at] \/ s2'.lifecycle # "active"),
         m.pc \in {"keys", "purge"} => m.force
  PROVE  KeyPlaced(c)'
<1>1. Issuing!CleanerOK(c) /\ c \notin KeyIssuers
  BY KeyApart DEF Issuing!Inv
<1>2. s6[c].known \subseteq KeyIssuers /\ s6[c].noKey \subseteq KeyIssuers
  BY KeyCallTyped, KeyApart DEF Issuing!Inv
<1>3. /\ \A i \in m.known : "credential" \in s3'[i]
      /\ \A i \in m.noKey : "createFailed" \in s3'[i]
  BY <1>1, <1>2 DEF Issuing!CleanerOK, KeySame
<1>4. m.force /\ m.pc \in Issuing!AtRow \union {"rows"} =>
         \A i \in KeyIssuers : Issuing!Gone(i)' \/ i \in m.todo \/ (m.pc \in Issuing!AtRow /\ i = m.at)
  <2>1. CASE m.pc \in Issuing!AtRow
    BY <1>1, <2>1 DEF Issuing!CleanerOK, KeySame
  <2>2. CASE m.pc = "rows" /\ m.force
    <3>1. ASSUME NEW i \in KeyIssuers PROVE Issuing!Gone(i)' \/ i \in m.todo
      <4>1. Issuing!Gone(i) \/ i \in s6[c].todo \/ i = s6[c].at
        BY <1>1, <2>2 DEF Issuing!CleanerOK, KeySame
      <4> QED
        BY <2>2, <4>1 DEF KeySame
    <3> QED
      BY <3>1
  <2> QED
    BY <2>1, <2>2 DEF Issuing!AtRow
<1>5. m.pc \in Issuing!AtRow => m.at \in KeyIssuers /\ "cancelled" \in s3'[m.at]
  BY <1>1 DEF Issuing!CleanerOK, KeySame
<1>6. m.force => s2'.lifecycle # "active" /\ s1'.lifecycle # "active"
  BY <1>1 DEF Issuing!CleanerOK, KeySame, KeySameDirectory
<1>7. Issuing!CleanerOK(c)'
  BY <1>3, <1>4, <1>5, <1>6 DEF Issuing!CleanerOK, Issuing!AtRow
<1> QED
  BY <1>1, <1>7 DEF KeyPlaced


(* The row an actor works on. *)
LEMMA KeyWorked ==
  ASSUME Issuing!Inv, NEW a \in Issuing!Actors,
         s6[a].pc \in {"failKey", "failRow", "revokeFound", "revoke", "fallback", "revokeRow",
                       "markCell", "cellRow", "markJournal", "journalFound", "fallbackJournal", "journalRow"}
  PROVE  /\ s6[a].at \in KeyIssuers /\ Issuing!RowOK(s6[a].at) /\ (a \in KeyIssuers \/ a \in KeyCleaners)
         /\ a \in KeyIssuers => s6[a].at = a /\ Issuing!IssuerOK(a) /\ s6[a].pc \notin {"failRow", "revokeRow", "cellRow", "journalRow"}
         /\ a \in KeyCleaners => Issuing!CleanerOK(a) /\ s6[a].pc \notin {"failKey", "revokeFound", "fallback", "journalFound", "fallbackJournal"}
<1>1. CASE a \in KeyIssuers
  <2>1. Issuing!IssuerOK(a)
    BY <1>1 DEF Issuing!Inv
  <2>2. s6[a].at = a /\ s6[a].pc \notin {"failRow", "revokeRow", "cellRow", "journalRow"}
    BY <2>1 DEF Issuing!IssuerOK, Issuing!Over, Issuing!Going, Issuing!Learned, Issuing!Steps
  <2> QED
    BY <1>1, <2>1, <2>2, KeyApart DEF Issuing!Inv
<1>2. CASE a \in KeyCleaners
  <2>1. Issuing!CleanerOK(a)
    BY <1>2 DEF Issuing!Inv
  <2>2. s6[a].pc \notin {"failKey", "revokeFound", "fallback", "journalFound", "fallbackJournal"} /\ s6[a].at \in KeyIssuers
    BY <2>1 DEF Issuing!CleanerOK, Issuing!AtRow
  <2> QED
    BY <1>2, <2>1, <2>2, KeyApart DEF Issuing!Inv
<1> QED
  BY <1>1, <1>2 DEF Issuing!Actors

(* A cleaner's step leaves the issuers' places. *)
LEMMA KeyBeside ==
  ASSUME Issuing!Inv, NEW c \in KeyCleaners, NEW m, s6' = [s6 EXCEPT ![c] = m], NEW i \in KeyIssuers
  PROVE  s6'[i] = s6[i]
BY KeyApart DEF Issuing!Inv, Issuing!TypeOK

(* A key that is gone stays so. *)
LEMMA KeyStillGone ==
  ASSUME Issuing!Inv, NEW c \in KeyCleaners, NEW m, s6' = [s6 EXCEPT ![c] = m], NEW i \in KeyIssuers, Issuing!Gone(i),
         "reserved" \in s3'[i] => "reserved" \in s3[i], s5'[i] = s5[i] \/ s5'[i] = "revoked"
  PROVE  Issuing!Gone(i)'
BY KeyBeside DEF Issuing!Gone, Issuing!Past

(* A key found is journalled, *)
LEMMA KeyFailKeyStep == ASSUME Issuing!Inv, NEW a \in Issuing!Actors, Issuing!FailKey(a) PROVE KeyStep({a})
<1> USE KeyApart
<1>0. PICK i \in KeyIssuers : i = s6[a].at
  BY KeyWorked DEF Issuing!FailKey, Issuing!At
<1>1. /\ s6[a].pc \in {"failKey", "failRow"} /\ i \in KeyIssuers /\ Issuing!RowOK(i) /\ UNCHANGED <<s3, s5>>
      /\ Issuing!DenyKey(i) \/ UNCHANGED <<s4, s2>>
  <2>1. s6[a].pc \in {"failKey", "failRow"}
    BY DEF Issuing!FailKey, Issuing!At
  <2>2. i \in KeyIssuers /\ Issuing!RowOK(i)
    BY <1>0, <2>1, KeyWorked
  <2>3. UNCHANGED <<s3, s5>> /\ (Issuing!DenyKey(i) \/ UNCHANGED <<s4, s2>>)
    BY <1>0 DEF Issuing!FailKey
  <2> QED
    BY <2>1, <2>2, <2>3
<1>2. /\ s2' = s2 \/ s2' = [s2 EXCEPT !.version = @ + 1]
      /\ \E K \in SUBSET Issuing!KeyColumns :
           /\ s4' = [s4 EXCEPT ![i] = K]
           /\ K \subseteq s4[i] \union {"revoked", "providerRevoked"}
           /\ s4[i] = {} => K = {}
           /\ "staged" \in s4[i] => "staged" \in K
           /\ "revoked" \in s4[i] => "revoked" \in K
           /\ "revoked" \in K => "granted" \notin K
           /\ "revoked" \in K /\ "revoked" \notin s4[i] => s2' # s2
           /\ "providerRevoked" \in K => s5[i] = "revoked"
  <2>1. CASE Issuing!DenyKey(i)
    BY <1>1, <2>1, KeyDenied
  <2>2. CASE UNCHANGED <<s4, s2>>
    <3>1. s4' = [s4 EXCEPT ![i] = s4[i]] /\ s4[i] \in SUBSET Issuing!KeyColumns
      BY <1>1, <2>2 DEF Issuing!Inv, Issuing!TypeOK
    <3> QED
      BY <1>1, <2>2, <3>1 DEF Issuing!RowOK
  <2> QED
    BY <1>1, <2>1, <2>2
<1>3. PICK K \in SUBSET Issuing!KeyColumns :
           /\ s4' = [s4 EXCEPT ![i] = K]
           /\ K \subseteq s4[i] \union {"revoked", "providerRevoked"}
           /\ s4[i] = {} => K = {}
           /\ "staged" \in s4[i] => "staged" \in K
           /\ "revoked" \in s4[i] => "revoked" \in K
           /\ "revoked" \in K => "granted" \notin K
           /\ "revoked" \in K /\ "revoked" \notin s4[i] => s2' # s2
           /\ "providerRevoked" \in K => s5[i] = "revoked"
  BY <1>2
<1>4. CASE a \in KeyIssuers
  <2>1. a = i /\ s6[a].pc = "failKey" /\ Issuing!IssuerOK(a) /\ Issuing!Answered(a, "revoke") /\ Issuing!OnError(a, s6[a].pc) = "revoke"
    BY <1>0, <1>1, <1>4, KeyWorked, KeyErrors DEF Issuing!FailKey, Issuing!At
  <2>2. /\ KeySameDirectory /\ s7' \in 0 .. KeyFaults
        /\ \E m : KeyMoves(a, m, {"revoke"})
    BY <2>1, KeyAnsweredMoves DEF Issuing!Pcs, Issuing!Over, Issuing!Inv
  <2>3. PICK m : KeyMoves(a, m, {"revoke"})
    BY <2>2
  <2>4. m \in Issuing!Call /\ s6' = [s6 EXCEPT ![a] = m] /\ s6'[a] = m /\ m.pc = "revoke" /\ m.at = a /\ m.version = s6[a].version
    BY <1>4, <2>3, KeyIssuerGoes DEF KeyGoesOn
  <2>5. KeyPlaced(a)'
    BY <1>1, <1>4, <2>1, <2>4, KeyCompensatingIssuer DEF KeyCompensating, Issuing!IssuerOK
  <2>6. m.pc \notin KeyBefore
    BY <2>4 DEF KeyBefore
  <2> QED
    BY <1>1, <1>2, <1>3, <1>4, <2>1, <2>2, <2>4, <2>5, <2>6, KeyTakes
<1>5. CASE a \in KeyCleaners
  <2>1. s6[a].pc = "failRow" /\ Issuing!CleanerOK(a) /\ Issuing!Answered(a, "revokeRow")
    BY <1>1, <1>5, KeyWorked DEF Issuing!FailKey, Issuing!At
  <2>2. /\ KeySameDirectory /\ s7' \in 0 .. KeyFaults
        /\ \E m \in Issuing!Call : /\ s6' = [s6 EXCEPT ![a] = m] /\ s6'[a] = m
                                   /\ (m.pc = "idle" /\ KeyAfresh(a, m)) \/ (m.pc = "revokeRow" /\ KeySame(a, m))
    BY <1>5, <2>1, KeyAnsweredCleaner DEF Issuing!Pcs, Issuing!Over
  <2>3. PICK m \in Issuing!Call : /\ s6' = [s6 EXCEPT ![a] = m] /\ s6'[a] = m
                                  /\ (m.pc = "idle" /\ KeyAfresh(a, m)) \/ (m.pc = "revokeRow" /\ KeySame(a, m))
    BY <2>2
  <2>4. s2'.lifecycle = s2.lifecycle
    BY <1>2 DEF Issuing!Inv, Issuing!TypeOK
  <2>5. Issuing!Untouched(i)'
    <3>1. "cancelled" \in s3[i]
      BY <1>0, <2>1 DEF Issuing!CleanerOK, Issuing!AtRow
    <3>2. s6'[i] = s6[i] /\ s3'[i] = s3[i]
      BY <1>1, <1>5, <2>3, KeyBeside
    <3> QED
      BY <1>1, <2>4, <3>1, <3>2, KeyForsaken
  <2>6. KeyPlaced(a)'
    <3>1. CASE m.pc = "idle" /\ KeyAfresh(a, m)
      BY <1>5, <2>3, <3>1, KeyEndedCleaner
    <3>2. CASE m.pc = "revokeRow" /\ KeySame(a, m)
      <4>1. \A j \in KeyIssuers : s3[j] \subseteq s3'[j] /\ (Issuing!Gone(j) => Issuing!Gone(j)')
        BY <1>1, <1>5, <2>3, KeyStillGone
      <4>2. s5'[m.at] # "none"
        BY <1>0, <1>1, <2>1, <3>2 DEF Issuing!CleanerOK, KeySame
      <4> QED
        BY <1>5, <2>1, <2>2, <2>3, <2>4, <3>2, <4>1, <4>2, KeyCleanerGoes DEF Issuing!AtRow
    <3> QED
      BY <2>3, <3>1, <3>2
  <2>7. a \notin KeyIssuers
    BY <1>5
  <2> QED
    BY <1>1, <1>2, <1>3, <2>2, <2>3, <2>5, <2>6, <2>7, KeyTakes
<1> QED
  BY <1>4, <1>5 DEF Issuing!Actors

(* revoked at the provider, *)
LEMMA KeyRevokeStep == ASSUME Issuing!Inv, NEW a \in Issuing!Actors, Issuing!RevokeAtProvider(a) PROVE KeyStep({a})
<1> USE KeyApart
<1>0. PICK i \in KeyIssuers : i = s6[a].at
  <2>1. s6[a].pc \in {"revokeFound", "revoke", "fallback", "revokeRow"}
    BY DEF Issuing!RevokeAtProvider, Issuing!At
  <2> QED
    BY <2>1, KeyWorked
<1>1. /\ s6[a].pc \in {"revokeFound", "revoke", "fallback", "revokeRow"} /\ i \in KeyIssuers /\ Issuing!RowOK(i)
      /\ UNCHANGED <<s2, s3, s4>> /\ s5' = [s5 EXCEPT ![i] = "revoked"]
      /\ s6[a].pc = "revokeFound" => Issuing!Answered(a, "journalFound")
      /\ s6[a].pc = "revoke" => Issuing!Answered(a, "markCell")
      /\ s6[a].pc = "fallback" => Issuing!Answered(a, "fallbackJournal")
      /\ s6[a].pc = "revokeRow" => Issuing!Answered(a, "journalRow")
  <2>1. /\ s6[a].pc \in {"revokeFound", "revoke", "fallback", "revokeRow"}
        /\ s6[a].pc = "revokeFound" => Issuing!Answered(a, "journalFound")
        /\ s6[a].pc = "revoke" => Issuing!Answered(a, "markCell")
        /\ s6[a].pc = "fallback" => Issuing!Answered(a, "fallbackJournal")
        /\ s6[a].pc = "revokeRow" => Issuing!Answered(a, "journalRow")
    BY DEF Issuing!RevokeAtProvider, Issuing!At
  <2>2. i \in KeyIssuers /\ Issuing!RowOK(i)
    BY <1>0, <2>1, KeyWorked
  <2>3. UNCHANGED <<s2, s3, s4>> /\ s5' = [s5 EXCEPT ![i] = "revoked"]
    BY <1>0 DEF Issuing!RevokeAtProvider
  <2> QED
    BY <2>1, <2>2, <2>3
<1>2. s5'[i] = "revoked" /\ \A j \in KeyIssuers : s5'[j] = s5[j] \/ s5'[j] = "revoked"
  BY <1>1 DEF Issuing!Inv, Issuing!TypeOK
<1>3. s5[i] # "none"
  <2>1. a \in KeyIssuers => s5[i] # "none"
    BY <1>0, <1>1, KeyWorked DEF Issuing!IssuerOK
  <2>2. a \in KeyCleaners => s5[i] # "none"
    BY <1>0, <1>1, KeyWorked DEF Issuing!CleanerOK
  <2> QED
    BY <2>1, <2>2 DEF Issuing!Actors
<1>4. CASE a \in KeyIssuers
  <2>1. a = i /\ s6[a].pc \in {"revokeFound", "revoke", "fallback"}
    BY <1>0, <1>1, <1>4, KeyWorked
  <2>2. /\ KeySameDirectory /\ s7' \in 0 .. KeyFaults
        /\ \E m : KeyMoves(a, m, {"journalFound", "markCell", "fallbackJournal", "fallback", "failed"})
    <3>1. CASE s6[a].pc = "revokeFound"
      <4>1. /\ KeySameDirectory /\ s7' \in 0 .. KeyFaults
            /\ \E m : KeyMoves(a, m, {"journalFound", "failed"})
        BY <1>1, <1>4, <3>1, KeyErrors, KeyAnsweredMoves DEF Issuing!Pcs, Issuing!Over, Issuing!Inv
      <4> QED
        BY <4>1 DEF KeyMoves
    <3>2. CASE s6[a].pc = "revoke"
      <4>1. /\ KeySameDirectory /\ s7' \in 0 .. KeyFaults
            /\ \E m : KeyMoves(a, m, {"markCell", "fallback"})
        BY <1>1, <1>4, <3>2, KeyErrors, KeyAnsweredMoves DEF Issuing!Pcs, Issuing!Over, Issuing!Inv
      <4> QED
        BY <4>1 DEF KeyMoves
    <3>3. CASE s6[a].pc = "fallback"
      <4>1. /\ KeySameDirectory /\ s7' \in 0 .. KeyFaults
            /\ \E m : KeyMoves(a, m, {"fallbackJournal", "failed"})
        BY <1>1, <1>4, <3>3, KeyErrors, KeyAnsweredMoves DEF Issuing!Pcs, Issuing!Over, Issuing!Inv
      <4> QED
        BY <4>1 DEF KeyMoves
    <3> QED
      BY <2>1, <3>1, <3>2, <3>3
  <2>3. PICK m : KeyMoves(a, m, {"journalFound", "markCell", "fallbackJournal", "fallback", "failed"})
    BY <2>2
  <2>4. /\ m \in Issuing!Call /\ s6' = [s6 EXCEPT ![a] = m] /\ s6'[a] = m /\ m.at = a /\ m.version = s6[a].version
        /\ m.pc \in {"journalFound", "markCell", "fallbackJournal", "fallback", "failed"}
    BY <1>4, <2>3, KeyIssuerGoes DEF KeyGoesOn
  <2>5. KeyPlaced(a)'
    <3>1. CASE m.pc = "failed"
      BY <1>4, <2>4, <3>1, KeyEndedIssuer DEF Issuing!Over
    <3>2. CASE m.pc # "failed"
      BY <1>2, <1>4, <2>1, <2>4, <3>2, KeyCompensatingIssuer DEF KeyCompensating
    <3> QED
      BY <3>1, <3>2
  <2>6. m.pc \notin KeyBefore
    BY <2>4 DEF KeyBefore
  <2> QED
    BY <1>1, <1>3, <1>4, <2>1, <2>2, <2>4, <2>5, <2>6, KeyProvides
<1>5. CASE a \in KeyCleaners
  <2>1. s6[a].pc \in {"revoke", "revokeRow"} /\ Issuing!CleanerOK(a)
    BY <1>1, <1>5, KeyWorked
  <2> DEFINE to == IF s6[a].pc = "revoke" THEN "markCell" ELSE "journalRow"
  <2>2. /\ KeySameDirectory /\ s7' \in 0 .. KeyFaults
        /\ \E m \in Issuing!Call : /\ s6' = [s6 EXCEPT ![a] = m] /\ s6'[a] = m
                                   /\ (m.pc = "idle" /\ KeyAfresh(a, m)) \/ (m.pc = to /\ KeySame(a, m))
    <3>1. Issuing!Answered(a, to) /\ to \in Issuing!Pcs \ Issuing!Over
      BY <1>1, <2>1 DEF Issuing!Pcs, Issuing!Over
    <3> HIDE DEF to
    <3> QED
      BY <1>5, <3>1, KeyAnsweredCleaner
  <2>3. PICK m \in Issuing!Call : /\ s6' = [s6 EXCEPT ![a] = m] /\ s6'[a] = m
                                  /\ (m.pc = "idle" /\ KeyAfresh(a, m)) \/ (m.pc = to /\ KeySame(a, m))
    BY <2>2
  <2>4. Issuing!Untouched(i)'
    <3>1. \/ "cancelled" \in s3[i] \/ s5[i] = "revoked"
          \/ "revoked" \in s4[i] \/ s2.lifecycle # "active"
      BY <1>0, <2>1 DEF Issuing!CleanerOK, Issuing!AtRow
    <3>2. s6'[i] = s6[i] /\ s3'[i] = s3[i] /\ s2' = s2
      BY <1>1, <1>5, <2>3, KeyBeside
    <3> QED
      BY <1>1, <3>1, <3>2, KeyForsaken
  <2>5. KeyPlaced(a)'
    <3>1. CASE m.pc = "idle" /\ KeyAfresh(a, m)
      BY <1>5, <2>3, <3>1, KeyEndedCleaner
    <3>2. CASE m.pc = to /\ KeySame(a, m)
      <4>1. \A j \in KeyIssuers : s3[j] \subseteq s3'[j] /\ (Issuing!Gone(j) => Issuing!Gone(j)')
        BY <1>1, <1>2, <1>5, <2>3, KeyStillGone
      <4>2. m.at = i
        BY <1>0, <3>2 DEF KeySame
      <4>3. m.pc \in {"markCell", "journalRow"} /\ (m.pc = "journalRow" => s6[a].pc = "revokeRow")
        BY <2>1, <3>2
      <4> HIDE DEF to
      <4> QED
        BY <1>1, <1>2, <1>5, <2>1, <2>2, <2>3, <3>2, <4>1, <4>2, <4>3, KeyCleanerGoes DEF
          Issuing!AtRow
    <3> QED
      BY <2>3, <3>1, <3>2
  <2>6. a \notin KeyIssuers
    BY <1>5
  <2> HIDE DEF to
  <2> QED
    BY <1>1, <1>3, <2>2, <2>3, <2>4, <2>5, <2>6, KeyProvides
<1> QED
  BY <1>4, <1>5 DEF Issuing!Actors


(* A credential, or nothing, is marked as revoked at the provider. *)
LEMMA KeyMarked ==
  ASSUME Issuing!Inv, NEW a \in Issuing!Actors, NEW m \in Issuing!Call, s6' = [s6 EXCEPT ![a] = m], s7' \in 0 .. KeyFaults,
         UNCHANGED <<s2, s3, s5>>, KeySameDirectory,
         NEW i \in KeyIssuers, NEW X \in SUBSET {"providerRevoked"}, Issuing!Mark(X, i), X # {} => "staged" \in s4[i],
         s5[i] = "revoked",
         a \in KeyIssuers => a = i /\ m.pc \notin KeyBefore /\ m.version = s6[a].version, KeyPlaced(a)'
  PROVE  KeyStep({a})
<1> DEFINE K == s4[i] \union X
<1>1. s4' = [s4 EXCEPT ![i] = K] /\ K \in SUBSET Issuing!KeyColumns
  BY DEF Issuing!Mark, Issuing!Inv, Issuing!TypeOK, Issuing!KeyColumns
<1>2. Issuing!RowOK(i) /\ (s4[i] = {} => K = {}) /\ K \subseteq s4[i] \union {"revoked", "providerRevoked"}
  BY DEF Issuing!Inv
<1>3. ("revoked" \in K => "granted" \notin K) /\ ("revoked" \in K => "revoked" \in s4[i])
  BY <1>2 DEF Issuing!RowOK
<1>4. a # i => Issuing!Untouched(i)'
  <2>1. a # i => s6'[i] = s6[i]
    BY KeyApart DEF Issuing!Inv, Issuing!TypeOK
  <2> QED
    BY <2>1, KeyForsaken
<1> HIDE DEF K
<1>5. /\ "staged" \in s4[i] => "staged" \in K
      /\ "revoked" \in s4[i] => "revoked" \in K
  BY DEF K
<1> QED
  BY <1>1, <1>2, <1>3, <1>4, <1>5, KeyTakes

(* marked in the cell, *)
LEMMA KeyMarkCellStep == ASSUME Issuing!Inv, NEW a \in Issuing!Actors, Issuing!MarkCell(a) PROVE KeyStep({a})
<1> USE KeyApart
<1>0. /\ s6[a].pc \in {"markCell", "cellRow"} /\ UNCHANGED <<s2, s3, s5>>
      /\ s6[a].pc = "markCell" => Issuing!Answered(a, "markJournal")
      /\ s6[a].pc = "cellRow" => Issuing!Answered(a, "rows")
  BY DEF Issuing!MarkCell, Issuing!At
<1>1. PICK i \in KeyIssuers : i = s6[a].at
  BY <1>0, KeyWorked
<1>2. PICK X \in SUBSET {"providerRevoked"} : Issuing!Mark(X, i) /\ (X # {} => "staged" \in s4[i])
  BY <1>1 DEF Issuing!MarkCell
<1>3. s5[i] = "revoked"
  <2>1. a \in KeyIssuers => s5[i] = "revoked"
    BY <1>0, <1>1, KeyWorked DEF Issuing!IssuerOK
  <2>2. a \in KeyCleaners => s5[i] = "revoked"
    BY <1>0, <1>1, KeyWorked DEF Issuing!CleanerOK
  <2> QED
    BY <2>1, <2>2 DEF Issuing!Actors
<1>4. CASE a \in KeyIssuers
  <2>1. a = i /\ s6[a].pc = "markCell"
    BY <1>0, <1>1, <1>4, KeyWorked
  <2>2. /\ KeySameDirectory /\ s7' \in 0 .. KeyFaults
        /\ \E m : KeyMoves(a, m, {"markJournal", "fallback"})
    BY <1>0, <1>4, <2>1, KeyErrors, KeyAnsweredMoves DEF Issuing!Pcs, Issuing!Over, Issuing!Inv
  <2>3. PICK m : KeyMoves(a, m, {"markJournal", "fallback"})
    BY <2>2
  <2>4. /\ m \in Issuing!Call /\ s6' = [s6 EXCEPT ![a] = m] /\ s6'[a] = m /\ m.at = a /\ m.version = s6[a].version
        /\ m.pc \in {"markJournal", "fallback"}
    BY <1>4, <2>3, KeyIssuerGoes DEF KeyGoesOn
  <2>5. KeyPlaced(a)'
    BY <1>0, <1>3, <1>4, <2>1, <2>4, KeyCompensatingIssuer DEF KeyCompensating
  <2>6. m.pc \notin KeyBefore
    BY <2>4 DEF KeyBefore
  <2> QED
    BY <1>0, <1>2, <1>3, <2>1, <2>2, <2>4, <2>5, <2>6, KeyMarked
<1>5. CASE a \in KeyCleaners
  <2>1. Issuing!CleanerOK(a)
    BY <1>5 DEF Issuing!Inv
  <2>2. PICK to \in {"markJournal", "rows"} : Issuing!Answered(a, to) /\ (to = "rows" <=> s6[a].pc = "cellRow")
    BY <1>0
  <2>3. /\ KeySameDirectory /\ s7' \in 0 .. KeyFaults
        /\ \E m \in Issuing!Call : /\ s6' = [s6 EXCEPT ![a] = m] /\ s6'[a] = m
                                   /\ (m.pc = "idle" /\ KeyAfresh(a, m)) \/ (m.pc = to /\ KeySame(a, m))
    BY <1>5, <2>2, KeyAnsweredCleaner DEF Issuing!Pcs, Issuing!Over
  <2>4. PICK m \in Issuing!Call : /\ s6' = [s6 EXCEPT ![a] = m] /\ s6'[a] = m
                                  /\ (m.pc = "idle" /\ KeyAfresh(a, m)) \/ (m.pc = to /\ KeySame(a, m))
    BY <2>3
  <2>5. KeyPlaced(a)'
    <3>1. CASE m.pc = "idle" /\ KeyAfresh(a, m)
      BY <1>5, <2>4, <3>1, KeyEndedCleaner
    <3>2. CASE m.pc = to /\ KeySame(a, m)
      <4>1. \A j \in KeyIssuers : s3[j] \subseteq s3'[j] /\ (Issuing!Gone(j) => Issuing!Gone(j)')
        BY <1>0, <1>5, <2>4, KeyStillGone
      <4>2. m.at = i /\ Issuing!Gone(i)
        BY <1>1, <1>3, <3>2 DEF KeySame, Issuing!Gone
      <4>3. s5' = s5 /\ s2' = s2
        BY <1>0
      <4>4. Issuing!Gone(m.at)'
        BY <1>3, <4>2, <4>3, <2>4 DEF Issuing!Gone
      <4>5. (m.pc = "rows" => s6[a].pc \in Issuing!AtRow) /\ m.pc \in {"markJournal", "rows"}
        BY <2>2, <3>2 DEF Issuing!AtRow
      <4> QED
        BY <1>3, <1>5, <2>3, <2>4, <3>2, <4>1, <4>2, <4>3, <4>4, <4>5, KeyCleanerGoes DEF
          Issuing!AtRow
    <3> QED
      BY <2>4, <3>1, <3>2
  <2> QED
    BY <1>0, <1>2, <1>3, <1>5, <2>3, <2>4, <2>5, KeyMarked
<1> QED
  BY <1>4, <1>5 DEF Issuing!Actors

(* A journal row whose key is revoked is written by anybody. *)
LEMMA KeyRowWritten ==
  ASSUME Issuing!Inv, NEW a \in Issuing!Actors, NEW m \in Issuing!Call, s6' = [s6 EXCEPT ![a] = m], s7' \in 0 .. KeyFaults,
         UNCHANGED <<s2, s4, s5>>, KeySameDirectory, KeyGoesOn(a, m),
         NEW i \in KeyIssuers, NEW X \in SUBSET Issuing!JournalColumns, Issuing!Set(X, i), KeySound(i, X), a = i \/ Issuing!Untouched(i)', KeyPlaced(a)'
  PROVE  KeyStep({a})
<1>1. KeyWrote(i, X)
  BY KeySetsOne
<1>2. i \in KeyIssuers => KeySound(i, X) /\ (i # a => Issuing!Untouched(i)')
  OBVIOUS
<1> QED
  BY <1>1, <1>2, KeyBooks

(* A column that nobody's answer rests on. *)
LEMMA KeyStillUntouched ==
  ASSUME Issuing!Inv, NEW i \in KeyIssuers, s6'[i] = s6[i], s2' = s2, s4' = s4, s5' = s5,
         NEW X \in SUBSET Issuing!JournalColumns, Issuing!Set(X, i),
         \/ X \intersect {"cancelled", "providerRevoked"} = {}
         \/ "cancelled" \in s3[i] \/ s5[i] = "revoked" \/ s2.lifecycle # "active"
  PROVE  Issuing!Untouched(i)'
<1>1. s3'[i] = s3[i] \union X /\ Issuing!Untouched(i)
  BY KeySetsOne DEF Issuing!Inv
<1> QED
  BY <1>1 DEF Issuing!Untouched

(* and in the journal. *)
LEMMA KeyMarkJournalStep == ASSUME Issuing!Inv, NEW a \in Issuing!Actors, Issuing!MarkJournal(a) PROVE KeyStep({a})
<1> USE KeyApart
<1>0. /\ s6[a].pc \in {"markJournal", "journalFound", "fallbackJournal", "journalRow"} /\ UNCHANGED <<s2, s4, s5>>
      /\ s6[a].pc = "markJournal" => Issuing!Answered(a, Issuing!Return(a))
      /\ s6[a].pc \in {"journalFound", "fallbackJournal"} => Issuing!Answered(a, "failed")
      /\ s6[a].pc = "journalRow" => Issuing!Answered(a, "cellRow")
  BY DEF Issuing!MarkJournal, Issuing!At
<1>1. PICK i \in KeyIssuers : i = s6[a].at
  BY <1>0, KeyWorked
<1>2. PICK X \in SUBSET {"credential", "providerRevoked"} : Issuing!Set(X, i)
  BY <1>1 DEF Issuing!MarkJournal
<1>3. s5[i] = "revoked"
  <2>1. a \in KeyIssuers => s5[i] = "revoked"
    BY <1>0, <1>1, KeyWorked DEF Issuing!IssuerOK
  <2>2. a \in KeyCleaners => s5[i] = "revoked"
    BY <1>0, <1>1, KeyWorked DEF Issuing!CleanerOK
  <2> QED
    BY <2>1, <2>2 DEF Issuing!Actors
<1>4. Issuing!RowOK(i) /\ X \in SUBSET Issuing!JournalColumns
  BY DEF Issuing!Inv, Issuing!JournalColumns
<1>5. Issuing!Past(i) /\ "settled" \notin s3[i]
  BY <1>3, <1>4 DEF Issuing!RowOK
<1>6. CASE a \in KeyIssuers
  <2>1. a = i
    BY <1>0, <1>1, <1>6, KeyWorked
  <2>2. Issuing!Return(a) = "failed" /\ s6[a].pc # "journalRow"
    BY <1>0, <1>6, KeyWorked DEF Issuing!Return
  <2>3. /\ KeySameDirectory /\ s7' \in 0 .. KeyFaults
        /\ \E m : KeyMoves(a, m, {"failed", "fallback"})
    <3>1. Issuing!Answered(a, "failed") /\ Issuing!OnError(a, s6[a].pc) \in {"failed", "fallback"}
      BY <1>0, <1>6, <2>2, KeyErrors
    <3>2. /\ KeySameDirectory /\ s7' \in 0 .. KeyFaults
          /\ \E m : KeyMoves(a, m, {"failed", Issuing!OnError(a, s6[a].pc)})
      BY <1>6, <3>1, KeyAnsweredMoves DEF Issuing!Pcs, Issuing!Over, Issuing!Inv
    <3> QED
      BY <3>1, <3>2 DEF KeyMoves
  <2>4. PICK m : KeyMoves(a, m, {"failed", "fallback"})
    BY <2>3
  <2>5. /\ m \in Issuing!Call /\ s6' = [s6 EXCEPT ![a] = m] /\ s6'[a] = m /\ m.at = a /\ KeyGoesOn(a, m)
        /\ m.pc \in {"failed", "fallback"}
    BY <1>6, <2>4, KeyIssuerGoes
  <2>6. KeyPlaced(a)'
    <3>1. CASE m.pc = "failed"
      BY <1>6, <2>5, <3>1, KeyEndedIssuer DEF Issuing!Over
    <3>2. CASE m.pc = "fallback"
      BY <1>0, <1>3, <1>6, <2>1, <2>5, <3>2, KeyCompensatingIssuer DEF KeyCompensating
    <3> QED
      BY <2>5, <3>1, <3>2
  <2>7. KeySound(i, X)
    BY <1>2, <1>3, <1>4, <2>1, <2>5 DEF KeySound, Issuing!Past
  <2> QED
    BY <1>0, <1>2, <1>4, <1>6, <2>1, <2>3, <2>5, <2>6, <2>7, KeyRowWritten
<1>7. CASE a \in KeyCleaners
  <2>1. Issuing!CleanerOK(a)
    BY <1>7 DEF Issuing!Inv
  <2>2. PICK to \in {"keys", "repair", "cellRow"} :
          /\ Issuing!Answered(a, to)
          /\ to = "keys" => s6[a].force
          /\ to = "cellRow" => s6[a].pc = "journalRow"
    BY <1>0, <1>7, KeyWorked DEF Issuing!Return
  <2>3. /\ KeySameDirectory /\ s7' \in 0 .. KeyFaults
        /\ \E m \in Issuing!Call : /\ s6' = [s6 EXCEPT ![a] = m] /\ s6'[a] = m
                                   /\ (m.pc = "idle" /\ KeyAfresh(a, m)) \/ (m.pc = to /\ KeySame(a, m))
    BY <1>7, <2>2, KeyAnsweredCleaner DEF Issuing!Pcs, Issuing!Over
  <2>4. PICK m \in Issuing!Call : /\ s6' = [s6 EXCEPT ![a] = m] /\ s6'[a] = m
                                  /\ (m.pc = "idle" /\ KeyAfresh(a, m)) \/ (m.pc = to /\ KeySame(a, m))
    BY <2>3
  <2>5. s6'[i] = s6[i]
    BY <1>7, <2>4, KeyBeside
  <2>6. KeySound(i, X)
    BY <1>2, <1>3, <1>4, <1>5, <2>5 DEF KeySound, Issuing!Past
  <2>7. Issuing!Untouched(i)'
    BY <1>0, <1>2, <1>3, <1>4, <2>5, KeyStillUntouched
  <2>8. \A j \in KeyIssuers : s3'[j] = IF j = i THEN s3[j] \union X ELSE s3[j]
    BY <1>2, <1>4, KeySetsOne DEF KeyWrote
  <2>9. KeyPlaced(a)'
    <3>1. CASE m.pc = "idle" /\ KeyAfresh(a, m)
      BY <1>7, <2>4, <3>1, KeyEndedCleaner
    <3>2. CASE m.pc = to /\ KeySame(a, m)
      <4>1. \A j \in KeyIssuers : s3[j] \subseteq s3'[j] /\ ("reserved" \in s3'[j] => "reserved" \in s3[j])
        <5>1. "reserved" \notin X
          BY <1>2
        <5> QED
          BY <2>8, <5>1
      <4>2. \A j \in KeyIssuers : Issuing!Gone(j) => Issuing!Gone(j)'
        BY <1>0, <1>7, <2>4, <4>1, KeyStillGone
      <4>3. m.at = i /\ s5'[i] = "revoked" /\ s2' = s2
        BY <1>0, <1>1, <1>3, <3>2 DEF KeySame
      <4>4. m.pc \in {"keys", "repair", "cellRow"} /\ (m.pc = "keys" => m.force) /\ (m.pc = "cellRow" => s6[a].pc = "journalRow")
        BY <2>2, <3>2 DEF KeySame
      <4> QED
        BY <1>7, <2>3, <2>4, <3>2, <4>1, <4>2, <4>3, <4>4, KeyCleanerGoes DEF Issuing!AtRow
    <3> QED
      BY <2>4, <3>1, <3>2
  <2>10. KeyGoesOn(a, m) /\ a # i
    BY <1>7 DEF KeyGoesOn
  <2> QED
    BY <1>0, <1>2, <1>4, <2>3, <2>4, <2>6, <2>7, <2>9, <2>10, KeyRowWritten
<1> QED
  BY <1>6, <1>7 DEF Issuing!Actors


(* A cleaner's step that writes nothing. *)
LEMMA KeyCleanerQuiet ==
  ASSUME Issuing!Inv, NEW c \in KeyCleaners, NEW m \in Issuing!Call, s6' = [s6 EXCEPT ![c] = m], s7' \in 0 .. KeyFaults,
         UNCHANGED <<s2, s3, s4, s5>>, KeySameDirectory, KeyPlaced(c)'
  PROVE  KeyStep({c})
<1>1. c \in Issuing!Actors /\ KeyGoesOn(c, m)
  BY KeyApart DEF KeyGoesOn
<1> QED
  BY <1>1, KeyQuiet

(* One that ends its call, if it may. *)
LEMMA KeyCleanerEnds ==
  ASSUME Issuing!Inv, NEW c \in KeyCleaners, Issuing!End(c, "idle"), UNCHANGED <<s2, s3, s4, s5, s7>>
  PROVE  KeyStep({c})
<1>1. KeySameDirectory /\ \E m : KeyMoves(c, m, {"idle"})
  BY KeyEndMoves, KeyApart DEF Issuing!Inv, Issuing!Over
<1>2. PICK m : KeyMoves(c, m, {"idle"})
  BY <1>1
<1>3. m \in Issuing!Call /\ s6' = [s6 EXCEPT ![c] = m] /\ s6'[c] = m /\ m.pc = "idle"
  BY <1>2, KeyMoved, KeyApart DEF Issuing!Inv
<1>4. KeyAfresh(c, m)
  BY <1>2, <1>3 DEF KeyMoves, Issuing!Over
<1>5. KeyPlaced(c)' /\ s7' \in 0 .. KeyFaults
  BY <1>3, <1>4, KeyEndedCleaner DEF Issuing!Inv, Issuing!TypeOK
<1> QED
  BY <1>1, <1>3, <1>5, KeyCleanerQuiet

(* One that only goes on. *)
LEMMA KeyCleanerOn ==
  ASSUME Issuing!Inv, NEW c \in KeyCleaners, NEW pc \in Issuing!Pcs \ Issuing!Over, Issuing!Goto(c, pc),
         UNCHANGED <<s1, s2, s3, s4, s5, s7>>
  PROVE  /\ KeySameDirectory /\ \A i \in KeyIssuers : s3[i] \subseteq s3'[i] /\ (Issuing!Gone(i) => Issuing!Gone(i)')
         /\ \E m \in Issuing!Call : s6' = [s6 EXCEPT ![c] = m] /\ s6'[c] = m /\ m.pc = pc /\ KeySame(c, m)
         /\ KeyPlaced(c)' => KeyStep({c})
<1>1. PICK m : KeyMoves(c, m, {pc})
  BY KeyGotoMoves, KeyApart DEF Issuing!Inv
<1>2. m \in Issuing!Call /\ s6' = [s6 EXCEPT ![c] = m] /\ s6'[c] = m /\ m.pc = pc /\ KeySame(c, m)
  BY <1>1, KeyMoved, KeyApart DEF Issuing!Inv, KeyMoves
<1>3. KeySameDirectory /\ s7' \in 0 .. KeyFaults
  BY DEF KeySameDirectory, Issuing!Inv, Issuing!TypeOK
<1>4. \A i \in KeyIssuers : s3[i] \subseteq s3'[i] /\ (Issuing!Gone(i) => Issuing!Gone(i)')
  BY <1>2, KeyStillGone
<1> QED
  BY <1>2, <1>3, <1>4, KeyCleanerQuiet

(* A reconciler lists the rows under the lease, *)
LEMMA KeyListUnderLeaseStep == ASSUME Issuing!Inv, NEW c \in KeyCleaners, Issuing!ListUnderLease(c) PROVE KeyStep({c})
<1> USE KeyApart
<1> DEFINE m == [s6[c] EXCEPT !.pc = "list", !.space = s1.version]
<1>1. s6[c] \in Issuing!Call /\ Issuing!CleanerOK(c) /\ s1.version \in Nat /\ s6[c].pc = "own"
  BY KeyCallTyped DEF Issuing!Inv, Issuing!TypeOK, Issuing!ListUnderLease, Issuing!At
<1>2. /\ m \in Issuing!Call /\ m.pc = "list" /\ m.force = s6[c].force
      /\ m.todo = s6[c].todo /\ m.known = s6[c].known /\ m.noKey = s6[c].noKey
  BY <1>1 DEF Issuing!Call, Issuing!Pcs
<1>3. s6' = [s6 EXCEPT ![c] = m]
  BY <1>1 DEF Issuing!ListUnderLease, Issuing!Inv, Issuing!TypeOK, Issuing!Call
<1> HIDE DEF m
<1>4. s6'[c] = m /\ KeySameDirectory /\ s7' \in 0 .. KeyFaults /\ UNCHANGED <<s1, s2, s3, s4, s5>>
  BY <1>3 DEF Issuing!ListUnderLease, KeySameDirectory, Issuing!Inv, Issuing!TypeOK
<1>5. KeyPlaced(c)'
  BY <1>1, <1>2, <1>4 DEF KeyPlaced, Issuing!CleanerOK, Issuing!AtRow
<1> QED
  BY <1>2, <1>3, <1>4, <1>5, KeyCleanerQuiet

(* or a deletion does, *)
LEMMA KeyListStep == ASSUME Issuing!Inv, NEW c \in KeyCleaners, Issuing!List(c) PROVE KeyStep({c})
<1> USE KeyApart
<1> DEFINE pending == {i \in KeyIssuers : /\ "reserved" \in s3[i] /\ Issuing!Open(i)
                                          /\ s6[c].force \/ "completed" \notin s3[i] \/ "cancelled" \in s3[i]}
           known == {i \in pending : "credential" \in s3[i]}
           noKey == {i \in pending : "createFailed" \in s3[i]}
           m == [s6[c] EXCEPT !.pc = "rows", !.todo = pending, !.known = known, !.noKey = noKey]
<1>1. s6[c] \in Issuing!Call /\ Issuing!CleanerOK(c) /\ s6[c].pc = "list"
  BY KeyCallTyped DEF Issuing!Inv, Issuing!List, Issuing!At
<1>2. pending \subseteq KeyIssuers /\ known \subseteq KeyIssuers /\ noKey \subseteq KeyIssuers
  OBVIOUS
<1>3. \A i \in known : "credential" \in s3[i]
  OBVIOUS
<1>4. \A i \in noKey : "createFailed" \in s3[i]
  OBVIOUS
<1>5. s6[c].force => \A i \in KeyIssuers : Issuing!Gone(i) \/ i \in pending
  <2>1. \A i \in KeyIssuers : Issuing!RowOK(i)
    BY DEF Issuing!Inv
  <2> QED
    BY <2>1 DEF Issuing!Gone, Issuing!RowOK, Issuing!Open
<1>6. s6' = [s6 EXCEPT ![c] = m]
  BY DEF Issuing!List
<1> HIDE DEF pending, known, noKey
<1>7. m \in Issuing!Call /\ m.pc = "rows" /\ m.force = s6[c].force /\ m.todo = pending /\ m.known = known /\ m.noKey = noKey
  BY <1>1, <1>2 DEF Issuing!Call, Issuing!Pcs
<1> HIDE DEF m
<1>8. /\ s6'[c] = m /\ KeySameDirectory /\ s7' \in 0 .. KeyFaults
      /\ UNCHANGED <<s1, s2, s3, s4, s5>>
  BY <1>6 DEF Issuing!List, KeySameDirectory, Issuing!Inv, Issuing!TypeOK
<1>9. \A i \in KeyIssuers : Issuing!Gone(i) => Issuing!Gone(i)'
  BY <1>6, <1>8, KeyStillGone
<1>10. KeyPlaced(c)'
  <2>1. /\ \A i \in m.known : "credential" \in s3'[i]
        /\ \A i \in m.noKey : "createFailed" \in s3'[i]
        /\ m.force => \A i \in KeyIssuers : Issuing!Gone(i)' \/ i \in m.todo
    BY <1>3, <1>4, <1>5, <1>7, <1>8, <1>9
  <2> QED
    BY <1>1, <1>7, <1>8, <2>1 DEF KeyPlaced, Issuing!CleanerOK, Issuing!AtRow
<1> QED
  BY <1>6, <1>7, <1>8, <1>10, KeyCleanerQuiet

(* cancels one, *)
LEMMA KeyCancelRowStep == ASSUME Issuing!Inv, NEW c \in KeyCleaners, NEW i \in KeyIssuers, Issuing!CancelRow(c, i) PROVE KeyStep({c})
<1> USE KeyApart
<1>1. /\ s6[c] \in Issuing!Call /\ Issuing!CleanerOK(c) /\ s6[c].pc = "rows" /\ i \in s6[c].todo
      /\ UNCHANGED <<s2, s4, s5, s7>> /\ s6[c].todo \subseteq KeyIssuers
      /\ s6[c].force \in BOOLEAN
  BY KeyCallTyped DEF Issuing!Inv, Issuing!CancelRow, Issuing!At
<1>2. \A j \in KeyIssuers : s6[c].force => Issuing!Gone(j) \/ j \in s6[c].todo
  BY <1>1 DEF Issuing!CleanerOK, Issuing!AtRow
<1>3. CASE /\ Issuing!Cancellable(c, i) /\ Issuing!Set({"cancelled"}, i) /\ UNCHANGED s1
           /\ s6' = [s6 EXCEPT ![c].pc = "findRow", ![c].at = i, ![c].todo = @ \ {i}]
  <2> DEFINE m == [s6[c] EXCEPT !.pc = "findRow", !.at = i, !.todo = @ \ {i}]
  <2>1. /\ m \in Issuing!Call /\ m.pc = "findRow" /\ m.at = i /\ m.force = s6[c].force /\ m.todo = s6[c].todo \ {i}
        /\ m.known = s6[c].known /\ m.noKey = s6[c].noKey
    BY <1>1 DEF Issuing!Call, Issuing!Pcs
  <2>2. s6' = [s6 EXCEPT ![c] = m]
    BY <1>1, <1>3 DEF Issuing!Inv, Issuing!TypeOK, Issuing!Call
  <2> HIDE DEF m
  <2>3. s6'[c] = m /\ KeySameDirectory /\ s7' \in 0 .. KeyFaults /\ s1' = s1
    BY <1>1, <1>3, <2>2 DEF KeySameDirectory, Issuing!Inv, Issuing!TypeOK
  <2>4. KeyWrote(i, {"cancelled"}) /\ s3'[i] = s3[i] \union {"cancelled"}
    BY <1>3, KeySetsOne DEF Issuing!JournalColumns
  <2>5. \A j \in KeyIssuers : s3[j] \subseteq s3'[j] /\ ("reserved" \in s3'[j] => "reserved" \in s3[j])
    BY <2>4 DEF KeyWrote
  <2>6. \A j \in KeyIssuers : Issuing!Gone(j) => Issuing!Gone(j)'
    BY <1>1, <2>2, <2>5, KeyStillGone
  <2>7. KeySound(i, {"cancelled"}) /\ s6'[i] = s6[i]
    BY <2>2, KeyBeside DEF KeySound, Issuing!JournalColumns
  <2>8. Issuing!Untouched(i)'
    <3>1. Issuing!Untouched(i)
      BY DEF Issuing!Inv
    <3>2. CASE s2.lifecycle # "active"
      BY <1>1, <3>2 DEF Issuing!Untouched
    <3>3. CASE s2.lifecycle = "active"
      <4>1. "completed" \notin s3[i] \/ "cancelled" \in s3[i]
        BY <1>1, <1>3, <3>3 DEF Issuing!Cancellable, Issuing!CleanerOK
      <4> QED
        BY <1>1, <2>4, <2>7, <3>1, <4>1 DEF Issuing!Untouched
    <3> QED
      BY <3>2, <3>3
  <2>9. KeyPlaced(c)'
    <3>1. /\ \A j \in m.known : "credential" \in s3'[j]
          /\ \A j \in m.noKey : "createFailed" \in s3'[j]
      <4>1. s6[c].known \subseteq KeyIssuers /\ s6[c].noKey \subseteq KeyIssuers
        BY KeyCallTyped DEF Issuing!Inv
      <4> QED
        BY <1>1, <2>1, <2>5, <4>1 DEF Issuing!CleanerOK
    <3>2. m.force => \A j \in KeyIssuers : Issuing!Gone(j)' \/ j \in m.todo \/ j = m.at
      BY <1>2, <2>1, <2>6
    <3>3. "cancelled" \in s3'[m.at] /\ m.at \in KeyIssuers
      BY <2>1, <2>4
    <3> QED
      BY <1>1, <2>1, <2>3, <3>1, <3>2, <3>3 DEF KeyPlaced, Issuing!CleanerOK, Issuing!AtRow
  <2>10. KeyGoesOn(c, m) /\ {"cancelled"} \in SUBSET Issuing!JournalColumns
    BY DEF KeyGoesOn, Issuing!JournalColumns
  <2> QED
    BY <1>1, <1>3, <2>1, <2>2, <2>3, <2>7, <2>8, <2>9, <2>10, KeyRowWritten
<1>4. CASE /\ ~Issuing!Cancellable(c, i) /\ s6[c].force
           /\ s6' = [s6 EXCEPT ![c].todo = @ \ {i}] /\ UNCHANGED <<s1, s3>>
  <2> DEFINE m == [s6[c] EXCEPT !.todo = @ \ {i}]
  <2>1. /\ m \in Issuing!Call /\ m.pc = "rows" /\ m.force = s6[c].force /\ m.todo = s6[c].todo \ {i}
        /\ m.known = s6[c].known /\ m.noKey = s6[c].noKey
    BY <1>1 DEF Issuing!Call, Issuing!Pcs
  <2>2. s6' = [s6 EXCEPT ![c] = m]
    BY <1>1, <1>4 DEF Issuing!Inv, Issuing!TypeOK, Issuing!Call
  <2> HIDE DEF m
  <2>3. s6'[c] = m /\ KeySameDirectory /\ s7' \in 0 .. KeyFaults /\ s1' = s1
    BY <1>1, <1>4, <2>2 DEF KeySameDirectory, Issuing!Inv, Issuing!TypeOK
  <2>4. Issuing!Gone(i)
    <3>1. Issuing!RowOK(i) /\ ~Issuing!Open(i)
      BY <1>4 DEF Issuing!Inv, Issuing!Cancellable
    <3> QED
      BY <3>1 DEF Issuing!Gone, Issuing!RowOK, Issuing!Open
  <2>5. \A j \in KeyIssuers : Issuing!Gone(j) => Issuing!Gone(j)'
    BY <1>1, <1>4, <2>2, KeyStillGone
  <2>6. KeyPlaced(c)'
    <3>1. \A j \in KeyIssuers : Issuing!Gone(j)' \/ j \in m.todo
      BY <1>2, <1>4, <2>1, <2>4, <2>5
    <3> QED
      BY <1>1, <1>4, <2>1, <2>3, <3>1 DEF KeyPlaced, Issuing!CleanerOK, Issuing!AtRow
  <2> QED
    BY <1>1, <1>4, <2>1, <2>2, <2>3, <2>6, KeyCleanerQuiet
<1>5. CASE Issuing!End(c, "idle") /\ UNCHANGED s3
  BY <1>1, <1>5, KeyCleanerEnds
<1> QED
  BY <1>3, <1>4, <1>5 DEF Issuing!CancelRow

(* looks for its key, *)
LEMMA KeyFindRowStep == ASSUME Issuing!Inv, NEW c \in KeyCleaners, Issuing!FindRow(c) PROVE KeyStep({c})
<1> USE KeyApart
<1>1. Issuing!CleanerOK(c) /\ s6[c].pc = "findRow" /\ UNCHANGED <<s2, s4, s5, s7>>
  BY DEF Issuing!Inv, Issuing!FindRow, Issuing!At
<1>2. PICK i \in KeyIssuers : i = s6[c].at
  BY <1>1 DEF Issuing!CleanerOK, Issuing!AtRow
<1>3. Issuing!RowOK(i) /\ "cancelled" \in s3[i]
  BY <1>1, <1>2 DEF Issuing!Inv, Issuing!CleanerOK, Issuing!AtRow
<1>4. CASE (i \in s6[c].known \/ s5[i] # "none") /\ Issuing!Goto(c, "learnRow") /\ UNCHANGED <<s1, s3>>
  <2>1. s5[i] # "none"
    BY <1>1, <1>3, <1>4 DEF Issuing!CleanerOK, Issuing!RowOK
  <2>2. /\ KeySameDirectory /\ \A j \in KeyIssuers : s3[j] \subseteq s3'[j] /\ (Issuing!Gone(j) => Issuing!Gone(j)')
        /\ \E m \in Issuing!Call : s6' = [s6 EXCEPT ![c] = m] /\ s6'[c] = m /\ m.pc = "learnRow" /\ KeySame(c, m)
        /\ KeyPlaced(c)' => KeyStep({c})
    BY <1>1, <1>4, KeyCleanerOn DEF Issuing!Pcs, Issuing!Over
  <2>3. PICK m \in Issuing!Call : s6'[c] = m /\ m.pc = "learnRow" /\ KeySame(c, m)
    BY <2>2
  <2>4. s5'[m.at] # "none" /\ s2' = s2
    BY <1>1, <1>2, <2>1, <2>3 DEF KeySame
  <2> QED
    BY <1>1, <2>2, <2>3, <2>4, KeyCleanerGoes DEF Issuing!AtRow
<1>5. CASE s5[i] = "none" /\ Issuing!NeverMade(c, i) /\ Issuing!Set(Issuing!Settle(i), i) /\ Issuing!Goto(c, "rows") /\ UNCHANGED s1
  <2>1. PICK X \in SUBSET {"settled"} : Issuing!Set(X, i)
    BY <1>5 DEF Issuing!Settle
  <2>2. PICK m : KeyMoves(c, m, {"rows"})
    BY <1>5, KeyGotoMoves DEF Issuing!Inv, Issuing!Pcs, Issuing!Over
  <2>3. m \in Issuing!Call /\ s6' = [s6 EXCEPT ![c] = m] /\ s6'[c] = m /\ m.pc = "rows" /\ KeySame(c, m)
    BY <2>2, KeyMoved DEF Issuing!Inv, KeyMoves, Issuing!Over
  <2>4. X \in SUBSET Issuing!JournalColumns /\ KeySameDirectory /\ s7' \in 0 .. KeyFaults /\ KeyGoesOn(c, m)
    BY <1>1, <1>5 DEF Issuing!JournalColumns, KeySameDirectory, Issuing!Inv, Issuing!TypeOK,
      KeyGoesOn
  <2>5. KeyWrote(i, X)
    BY <2>1, <2>4, KeySetsOne
  <2>6. \A j \in KeyIssuers : s3[j] \subseteq s3'[j] /\ ("reserved" \in s3'[j] => "reserved" \in s3[j])
    BY <2>1, <2>5 DEF KeyWrote
  <2>7. \A j \in KeyIssuers : Issuing!Gone(j) => Issuing!Gone(j)'
    BY <1>1, <2>3, <2>6, KeyStillGone
  <2>8. Issuing!Past(i)
    BY <1>1, <1>3, <1>5 DEF Issuing!CleanerOK, Issuing!NeverMade, Issuing!RowOK
  <2>9. s6'[i] = s6[i] /\ Issuing!Gone(i)
    BY <1>5, <2>3, <2>8, KeyBeside DEF Issuing!Gone
  <2>10. KeySound(i, X)
    BY <1>5, <2>1, <2>4, <2>8, <2>9 DEF KeySound, Issuing!Past
  <2>11. Issuing!Untouched(i)'
    BY <1>1, <1>3, <2>1, <2>4, <2>9, KeyStillUntouched
  <2>12. KeyPlaced(c)'
    <3>1. Issuing!Gone(m.at)' /\ s2' = s2 /\ s6[c].pc \in Issuing!AtRow
      <4>1. m.at = i
        BY <1>2, <2>3 DEF KeySame
      <4>2. Issuing!Gone(i)'
        BY <2>7, <2>9
      <4>3. Issuing!Gone(m.at)' <=> Issuing!Gone(i)'
        BY <4>1, <2>3 DEF Issuing!Gone, Issuing!Past
      <4> QED
        BY <1>1, <4>2, <4>3 DEF Issuing!AtRow
    <3> QED
      BY <2>3, <2>4, <2>6, <2>7, <3>1, KeyCleanerGoes DEF Issuing!AtRow
  <2> QED
    BY <1>1, <2>1, <2>3, <2>4, <2>10, <2>11, <2>12, KeyRowWritten
<1>6. CASE Issuing!Proceed(c, IF s6[c].force THEN "idle" ELSE "rows") /\ UNCHANGED s3
  <2>1. CASE s6[c].force
    <3>1. Issuing!End(c, "idle")
      BY <1>6, <2>1 DEF Issuing!Proceed, Issuing!Over
    <3> QED
      BY <1>1, <1>6, <3>1, KeyCleanerEnds
  <2>2. CASE ~s6[c].force
    <3>1. Issuing!Goto(c, "rows") /\ UNCHANGED s1
      BY <1>6, <2>2 DEF Issuing!Proceed, Issuing!Over
    <3>2. /\ KeySameDirectory /\ \A j \in KeyIssuers : s3[j] \subseteq s3'[j] /\ (Issuing!Gone(j) => Issuing!Gone(j)')
          /\ \E m \in Issuing!Call : s6' = [s6 EXCEPT ![c] = m] /\ s6'[c] = m /\ m.pc = "rows" /\ KeySame(c, m)
          /\ KeyPlaced(c)' => KeyStep({c})
      BY <1>1, <1>6, <3>1, KeyCleanerOn DEF Issuing!Pcs, Issuing!Over
    <3>3. PICK m \in Issuing!Call : s6'[c] = m /\ m.pc = "rows" /\ KeySame(c, m)
      BY <3>2
    <3>4. ~m.force /\ s2' = s2 /\ s6[c].pc \in Issuing!AtRow
      BY <1>1, <2>2, <3>3 DEF KeySame, Issuing!AtRow
    <3> QED
      BY <3>2, <3>3, <3>4, KeyCleanerGoes DEF Issuing!AtRow
  <2> QED
    BY <2>1, <2>2
<1> QED
  BY <1>2, <1>4, <1>5, <1>6 DEF Issuing!FindRow

(* journals it, *)
LEMMA KeyLearnRowStep == ASSUME Issuing!Inv, NEW c \in KeyCleaners, Issuing!LearnRow(c) PROVE KeyStep({c})
<1> USE KeyApart
<1>1. /\ Issuing!CleanerOK(c) /\ s6[c].pc = "learnRow" /\ UNCHANGED <<s2, s4, s5>>
      /\ Issuing!Set({"credential"}, s6[c].at) /\ Issuing!Answered(c, "failRow")
  BY DEF Issuing!Inv, Issuing!LearnRow, Issuing!At
<1>2. PICK i \in KeyIssuers : i = s6[c].at
  BY <1>1 DEF Issuing!CleanerOK, Issuing!AtRow
<1>3. Issuing!Set({"credential"}, i) /\ s5[i] # "none" /\ {"credential"} \in SUBSET Issuing!JournalColumns /\ Issuing!RowOK(i)
  BY <1>1, <1>2 DEF Issuing!CleanerOK, Issuing!JournalColumns, Issuing!Inv
<1>4. /\ KeySameDirectory /\ s7' \in 0 .. KeyFaults
      /\ \E m \in Issuing!Call : /\ s6' = [s6 EXCEPT ![c] = m] /\ s6'[c] = m
                                 /\ (m.pc = "idle" /\ KeyAfresh(c, m)) \/ (m.pc = "failRow" /\ KeySame(c, m))
  BY <1>1, KeyAnsweredCleaner DEF Issuing!Pcs, Issuing!Over
<1>5. PICK m \in Issuing!Call : /\ s6' = [s6 EXCEPT ![c] = m] /\ s6'[c] = m
                                /\ (m.pc = "idle" /\ KeyAfresh(c, m)) \/ (m.pc = "failRow" /\ KeySame(c, m))
  BY <1>4
<1>6. s6'[i] = s6[i] /\ Issuing!Past(i)' /\ KeyGoesOn(c, m)
  <2>1. s6'[i] = s6[i]
    BY <1>5, KeyBeside
  <2> QED
    BY <1>3, <2>1 DEF Issuing!RowOK, Issuing!Past, KeyGoesOn
<1>7. KeySound(i, {"credential"}) /\ Issuing!Untouched(i)'
  <2>1. KeySound(i, {"credential"})
    BY <1>3, <1>6 DEF KeySound
  <2>2. Issuing!Untouched(i)'
    BY <1>1, <1>3, <1>6, KeyStillUntouched
  <2> QED
    BY <2>1, <2>2
<1>8. KeyPlaced(c)'
  <2>1. CASE m.pc = "idle" /\ KeyAfresh(c, m)
    BY <1>5, <2>1, KeyEndedCleaner
  <2>2. CASE m.pc = "failRow" /\ KeySame(c, m)
    <3>1. KeyWrote(i, {"credential"})
      BY <1>3, KeySetsOne
    <3>2. \A j \in KeyIssuers : s3[j] \subseteq s3'[j] /\ ("reserved" \in s3'[j] => "reserved" \in s3[j])
      BY <3>1 DEF KeyWrote
    <3>3. \A j \in KeyIssuers : Issuing!Gone(j) => Issuing!Gone(j)'
      BY <1>1, <1>5, <3>2, KeyStillGone
    <3>4. s5'[m.at] # "none" /\ s2' = s2 /\ s6[c].pc \in Issuing!AtRow
      BY <1>1, <1>2, <1>3, <2>2 DEF KeySame, Issuing!AtRow
    <3> QED
      BY <1>4, <1>5, <2>2, <3>2, <3>3, <3>4, KeyCleanerGoes DEF Issuing!AtRow
  <2> QED
    BY <1>5, <2>1, <2>2
<1> QED
  BY <1>1, <1>3, <1>4, <1>5, <1>6, <1>7, <1>8, KeyRowWritten


(* and ends when none is left. *)
LEMMA KeyRowsDoneStep == ASSUME Issuing!Inv, NEW c \in KeyCleaners, Issuing!RowsDone(c) PROVE KeyStep({c})
<1> USE KeyApart
<1>1. /\ Issuing!CleanerOK(c) /\ s6[c].pc = "rows" /\ s6[c].todo = {}
      /\ UNCHANGED <<s1, s2, s3, s4, s5, s7>>
      /\ s2.lifecycle \in Issuing!Lifecycles /\ s6[c].force \in BOOLEAN
  BY KeyCallTyped DEF Issuing!Inv, Issuing!RowsDone, Issuing!At, Issuing!TypeOK
<1>2. PICK pc \in {"repair", "purge", "publishDeleted"} :
        /\ Issuing!Goto(c, pc)
        /\ pc = "purge" => s6[c].force
        /\ pc = "publishDeleted" => s6[c].force /\ s2.lifecycle # "closed"
  BY DEF Issuing!RowsDone
<1>3. /\ KeySameDirectory /\ \A i \in KeyIssuers : s3[i] \subseteq s3'[i] /\ (Issuing!Gone(i) => Issuing!Gone(i)')
      /\ \E m \in Issuing!Call : s6' = [s6 EXCEPT ![c] = m] /\ s6'[c] = m /\ m.pc = pc /\ KeySame(c, m)
      /\ KeyPlaced(c)' => KeyStep({c})
  BY <1>1, <1>2, KeyCleanerOn DEF Issuing!Pcs, Issuing!Over
<1>4. PICK m \in Issuing!Call : s6'[c] = m /\ m.pc = pc /\ KeySame(c, m)
  BY <1>3
<1>5. CASE pc \in {"repair", "purge"}
  BY <1>1, <1>2, <1>3, <1>4, <1>5, KeyCleanerGoes DEF Issuing!AtRow, KeySame
<1>6. CASE pc = "publishDeleted"
  <2>1. s2'.lifecycle = "deleted" /\ m.force /\ m.todo = {}
    BY <1>1, <1>2, <1>4, <1>6 DEF Issuing!CleanerOK, KeySame, Issuing!Lifecycles
  <2>2. \A i \in KeyIssuers : Issuing!Gone(i)'
    BY <1>1, <1>2, <1>3, <1>6 DEF Issuing!CleanerOK, Issuing!AtRow
  <2>3. /\ \A i \in m.known : "credential" \in s3'[i]
        /\ \A i \in m.noKey : "createFailed" \in s3'[i]
        /\ s1'.lifecycle # "active"
    BY <1>1, <1>4, <2>1 DEF Issuing!CleanerOK, KeySame
  <2>4. Issuing!CleanerOK(c)'
    BY <1>4, <1>6, <2>1, <2>2, <2>3 DEF Issuing!CleanerOK, Issuing!AtRow
  <2> QED
    BY <1>3, <2>4 DEF KeyPlaced
<1> QED
  BY <1>2, <1>5, <1>6

(* It repairs a directory, *)
LEMMA KeyRepairStep == ASSUME Issuing!Inv, NEW c \in KeyCleaners, Issuing!Repair(c) PROVE KeyStep({c})
<1> USE KeyApart
<1>1. Issuing!CleanerOK(c) /\ s6[c] \in Issuing!Call /\ s6[c].pc = "repair" /\ UNCHANGED <<s3, s5>>
  BY KeyCallTyped DEF Issuing!Inv, Issuing!Repair, Issuing!At
<1>2. CASE /\ Issuing!Answered(c, "repair")
           /\ \E i \in Issuing!Lagging : IF "revoked" \notin s4[i] THEN Issuing!DenyKey(i)
                                         ELSE Issuing!Mark({"providerRevoked"}, i) /\ UNCHANGED s2
  <2>1. /\ KeySameDirectory /\ s7' \in 0 .. KeyFaults
        /\ \E m \in Issuing!Call : /\ s6' = [s6 EXCEPT ![c] = m] /\ s6'[c] = m
                                   /\ (m.pc = "idle" /\ KeyAfresh(c, m)) \/ (m.pc = "repair" /\ KeySame(c, m))
    BY <1>2, KeyAnsweredCleaner DEF Issuing!Pcs, Issuing!Over
  <2>2. PICK m \in Issuing!Call : /\ s6' = [s6 EXCEPT ![c] = m] /\ s6'[c] = m
                                  /\ (m.pc = "idle" /\ KeyAfresh(c, m)) \/ (m.pc = "repair" /\ KeySame(c, m))
    BY <2>1
  <2>3. PICK i \in Issuing!Lagging : IF "revoked" \notin s4[i] THEN Issuing!DenyKey(i)
                                     ELSE Issuing!Mark({"providerRevoked"}, i) /\ UNCHANGED s2
    BY <1>2
  <2>4. /\ i \in KeyIssuers /\ s5[i] = "revoked" /\ "staged" \in s4[i]
        /\ s6'[i] = s6[i] /\ c \notin KeyIssuers
    BY <2>2, KeyBeside DEF Issuing!Lagging, Issuing!Inv, Issuing!RowOK
  <2>5. ASSUME s2'.lifecycle = s2.lifecycle PROVE KeyPlaced(c)'
    <3>1. CASE m.pc = "idle" /\ KeyAfresh(c, m)
      BY <2>2, <3>1, KeyEndedCleaner
    <3>2. CASE m.pc = "repair" /\ KeySame(c, m)
      <4>1. \A j \in KeyIssuers : s3[j] \subseteq s3'[j] /\ (Issuing!Gone(j) => Issuing!Gone(j)')
        BY <1>1, <2>2, KeyStillGone
      <4> QED
        BY <2>1, <2>2, <2>5, <3>2, <4>1, KeyCleanerGoes DEF Issuing!AtRow
    <3> QED
      BY <2>2, <3>1, <3>2
  <2>6. CASE Issuing!DenyKey(i)
    <3>1. /\ s2' = s2 \/ s2' = [s2 EXCEPT !.version = @ + 1]
          /\ \E K \in SUBSET Issuing!KeyColumns :
               /\ s4' = [s4 EXCEPT ![i] = K]
               /\ K \subseteq s4[i] \union {"revoked", "providerRevoked"}
               /\ s4[i] = {} => K = {}
               /\ "staged" \in s4[i] => "staged" \in K
               /\ "revoked" \in s4[i] => "revoked" \in K
               /\ "revoked" \in K => "granted" \notin K
               /\ "revoked" \in K /\ "revoked" \notin s4[i] => s2' # s2
               /\ "providerRevoked" \in K => s5[i] = "revoked"
      BY <2>4, <2>6, KeyDenied
    <3>2. s2'.lifecycle = s2.lifecycle
      BY <3>1 DEF Issuing!Inv, Issuing!TypeOK
    <3>3. KeyPlaced(c)'
      BY <2>5, <3>2
    <3>4. Issuing!Untouched(i)'
      BY <1>1, <2>4, <3>2, KeyForsaken
    <3> QED
      BY <1>1, <2>1, <2>2, <2>4, <3>1, <3>3, <3>4, KeyTakes
  <2>7. CASE Issuing!Mark({"providerRevoked"}, i) /\ UNCHANGED s2
    <3>1. KeyPlaced(c)'
      BY <2>5, <2>7
    <3> QED
      BY <1>1, <2>1, <2>2, <2>4, <2>7, <3>1, KeyMarked
  <2> QED
    BY <2>3, <2>6, <2>7
<1>3. CASE UNCHANGED <<s1, s2, s4, s7>>
           /\ \/ \E i \in Issuing!Unrevoked : s6' = [s6 EXCEPT ![c].pc = "revoke", ![c].at = i]
              \/ Issuing!Goto(c, "compare")
  <2>0. KeySameDirectory /\ s7' \in 0 .. KeyFaults /\ s1' = s1 /\ UNCHANGED <<s2, s3, s4, s5>>
    BY <1>1, <1>3 DEF KeySameDirectory, Issuing!Inv, Issuing!TypeOK
  <2>1. ASSUME NEW i \in Issuing!Unrevoked, s6' = [s6 EXCEPT ![c].pc = "revoke", ![c].at = i] PROVE KeyStep({c})
    <3> DEFINE m == [s6[c] EXCEPT !.pc = "revoke", !.at = i]
    <3>1. i \in KeyIssuers /\ "revoked" \in s4[i] /\ s5[i] # "none"
      BY DEF Issuing!Unrevoked, Issuing!Inv, Issuing!RowOK
    <3>2. /\ m \in Issuing!Call /\ m.pc = "revoke" /\ m.at = i /\ m.force = s6[c].force
          /\ m.known = s6[c].known /\ m.noKey = s6[c].noKey
      BY <1>1, <3>1 DEF Issuing!Call, Issuing!Pcs
    <3>3. s6' = [s6 EXCEPT ![c] = m]
      BY <1>1, <2>1 DEF Issuing!Inv, Issuing!TypeOK, Issuing!Call
    <3> HIDE DEF m
    <3>4. s6'[c] = m
      BY <3>3 DEF Issuing!Inv, Issuing!TypeOK
    <3>5. KeyPlaced(c)'
      BY <1>1, <2>0, <3>1, <3>2, <3>4 DEF KeyPlaced, Issuing!CleanerOK, Issuing!AtRow
    <3> QED
      BY <2>0, <3>2, <3>3, <3>5, KeyCleanerQuiet
  <2>2. ASSUME Issuing!Goto(c, "compare") PROVE KeyStep({c})
    <3>1. /\ KeySameDirectory /\ \A j \in KeyIssuers : s3[j] \subseteq s3'[j] /\ (Issuing!Gone(j) => Issuing!Gone(j)')
          /\ \E m \in Issuing!Call : s6' = [s6 EXCEPT ![c] = m] /\ s6'[c] = m /\ m.pc = "compare" /\ KeySame(c, m)
          /\ KeyPlaced(c)' => KeyStep({c})
      BY <1>1, <1>3, <2>2, KeyCleanerOn DEF Issuing!Pcs, Issuing!Over
    <3>2. PICK m \in Issuing!Call : s6'[c] = m /\ m.pc = "compare" /\ KeySame(c, m)
      BY <3>1
    <3> QED
      BY <1>1, <2>0, <3>1, <3>2, KeyCleanerGoes DEF Issuing!AtRow
  <2> QED
    BY <1>3, <2>1, <2>2
<1> QED
  BY <1>2, <1>3 DEF Issuing!Repair

(* What NoCall is. *)
LEMMA KeyNoCallTyped ==
  ASSUME NEW c \in KeyCleaners
  PROVE  Issuing!NoCall(c) \in Issuing!Call /\ Issuing!NoCall(c).pc = "idle" /\ KeyAfresh(c, Issuing!NoCall(c))
BY KeyApart DEF Issuing!NoCall, Issuing!Call, Issuing!Pcs, Issuing!Over, KeyAfresh

(* that it compares with the cell. *)
LEMMA KeyCompareStep == ASSUME Issuing!Inv, NEW c \in KeyCleaners, Issuing!Compare(c) PROVE KeyStep({c})
<1> USE KeyApart
<1>1. /\ UNCHANGED <<s2, s3, s4, s5, s7>> /\ s6' = [s6 EXCEPT ![c] = Issuing!NoCall(c)]
  BY DEF Issuing!Compare
<1>2. s6'[c] = Issuing!NoCall(c) /\ s7' \in 0 .. KeyFaults /\ s2 \in [lifecycle: Issuing!Lifecycles, version: Nat]
  BY <1>1 DEF Issuing!Inv, Issuing!TypeOK
<1>3. KeyPlaced(c)' /\ KeyGoesOn(c, Issuing!NoCall(c))
  BY <1>2, KeyNoCallTyped, KeyEndedCleaner DEF KeyGoesOn
<1>4. PICK freed \in [lifecycle: Issuing!Lifecycles, version: Nat, lease: Issuing!Actors \union {None}, live: BOOLEAN] :
        /\ freed.lifecycle = s1.lifecycle /\ freed.version = s1.version
        /\ \/ s1' = freed
           \/ /\ s2.lifecycle # "deleted"
              /\ s1' = [freed EXCEPT !.lifecycle = s2.lifecycle, !.version = s2.version]
  <2> DEFINE freed == IF s1.lease = c THEN [s1 EXCEPT !.lease = None, !.live = FALSE] ELSE s1
  <2>1. /\ freed \in [lifecycle: Issuing!Lifecycles, version: Nat, lease: Issuing!Actors \union {None}, live: BOOLEAN]
        /\ freed.lifecycle = s1.lifecycle /\ freed.version = s1.version
    BY DEF Issuing!Inv, Issuing!TypeOK
  <2>2. \/ s1' = freed
        \/ /\ s2.lifecycle # "deleted"
           /\ s1' = [freed EXCEPT !.lifecycle = s2.lifecycle, !.version = s2.version]
    BY DEF Issuing!Compare
  <2> HIDE DEF freed
  <2> QED
    BY <2>1, <2>2
<1>5. Issuing!Shown /\ s1.version \in Nat
  BY DEF Issuing!Inv, Issuing!TypeOK
<1>6. CASE s1' = freed
  <2>1. KeySameDirectory
    BY <1>4, <1>6 DEF KeySameDirectory
  <2> QED
    BY <1>1, <1>2, <1>3, <2>1, KeyNoCallTyped, KeyCleanerQuiet
<1>7. CASE /\ s2.lifecycle # "deleted"
           /\ s1' = [freed EXCEPT !.lifecycle = s2.lifecycle, !.version = s2.version]
  <2>1. /\ s1' \in [lifecycle: Issuing!Lifecycles, version: Nat, lease: Issuing!Actors \union {None}, live: BOOLEAN]
        /\ s1'.lifecycle = s2.lifecycle /\ s1'.version = s2.version
    BY <1>2, <1>4, <1>7
  <2>2. /\ s1.version <= s1'.version
        /\ s1'.version = s1.version => s1'.lifecycle = s1.lifecycle
        /\ s1.lifecycle # "active" => s1'.lifecycle # "active"
        /\ s1'.lifecycle # "deleted"
    BY <1>5, <1>7, <2>1 DEF Issuing!Shown
  <2>3. /\ s2' = s2 /\ s2.version <= s2'.version /\ s1'.version <= s2'.version
        /\ s2.version \in Nat /\ s2' \in [lifecycle: Issuing!Lifecycles, version: Nat]
    BY <1>1, <1>2, <2>1
  <2>4. c \in Issuing!Actors
    OBVIOUS
  <2> HIDE <1>7
  <2> QED
    BY <1>1, <1>2, <1>3, <2>1, <2>2, <2>3, <2>4, KeyNoCallTyped, KeyShows
<1> QED
  BY <1>4, <1>6, <1>7

(* A space is closed, *)
LEMMA KeyCloseStep == ASSUME Issuing!Inv, NEW c \in KeyCleaners, Issuing!Close(c) PROVE KeyStep({c})
<1> USE KeyApart
<1> DEFINE m == [s6[c] EXCEPT !.pc = "publishClosed", !.space = s2.version, !.version = s2.version + 1]
<1>1. /\ Issuing!CleanerOK(c) /\ s6[c] \in Issuing!Call /\ s6[c].pc = "idle" /\ s2.version \in Nat /\ s1.version \in Nat
      /\ s2.lifecycle = "active" /\ s1.lifecycle = "active" /\ s1.version = s2.version
      /\ UNCHANGED <<s1, s3, s4, s5, s7>>
  BY KeyCallTyped DEF Issuing!Inv, Issuing!TypeOK, Issuing!Close, Issuing!At
<1>2. s2' = [lifecycle |-> "closed", version |-> s2.version + 1]
  BY DEF Issuing!Close
<1>3. /\ s2'.lifecycle = "closed" /\ s2'.version = s2.version + 1 /\ s2' \in [lifecycle: Issuing!Lifecycles, version: Nat]
  BY <1>1, <1>2 DEF Issuing!Lifecycles
<1>4. /\ m \in Issuing!Call /\ m.pc = "publishClosed" /\ m.space = s2.version /\ m.version = s2.version + 1
      /\ m.force = s6[c].force /\ m.known = s6[c].known /\ m.noKey = s6[c].noKey
  <2>1. s2.version + 1 \in Nat /\ "publishClosed" \in Issuing!Pcs
    BY <1>1 DEF Issuing!Pcs
  <2> QED
    BY <1>1, <2>1 DEF Issuing!Call
<1>5. s6' = [s6 EXCEPT ![c] = m]
  BY <1>1 DEF Issuing!Close, Issuing!Inv, Issuing!TypeOK, Issuing!Call
<1> HIDE DEF m
<1>6. s6'[c] = m /\ s1' = s1 /\ s7' \in 0 .. KeyFaults
  BY <1>1, <1>5 DEF Issuing!Inv, Issuing!TypeOK
<1>7. KeyPlaced(c)'
  <2>1. /\ \A i \in m.known : "credential" \in s3'[i]
        /\ \A i \in m.noKey : "createFailed" \in s3'[i]
        /\ ~m.force
    BY <1>1, <1>4 DEF Issuing!CleanerOK
  <2>2. Issuing!ReadBefore(c)' /\ m.space < m.version /\ m.version <= s2'.version
    BY <1>1, <1>3, <1>4, <1>6 DEF Issuing!ReadBefore
  <2> QED
    BY <1>3, <1>4, <1>6, <2>1, <2>2 DEF KeyPlaced, Issuing!CleanerOK, Issuing!AtRow
<1>8. /\ s1' \in [lifecycle: Issuing!Lifecycles, version: Nat, lease: Issuing!Actors \union {None}, live: BOOLEAN]
      /\ s2.version <= s2'.version /\ s2'.version # s2.version
      /\ s1.version <= s1'.version /\ s1'.version <= s2'.version
      /\ s1'.version # s2'.version /\ s1'.lifecycle = "active"
      /\ c \in Issuing!Actors /\ KeyGoesOn(c, m)
  BY <1>1, <1>3, <1>6 DEF Issuing!Inv, Issuing!TypeOK, KeyGoesOn
<1> QED
  BY <1>1, <1>3, <1>4, <1>5, <1>6, <1>7, <1>8, KeyShows

(* published as such, *)
LEMMA KeyPublishClosedStep == ASSUME Issuing!Inv, NEW c \in KeyCleaners, Issuing!PublishClosed(c) PROVE KeyStep({c})
<1> USE KeyApart
<1>1. /\ Issuing!CleanerOK(c) /\ s6[c].pc = "publishClosed" /\ s6[c].space \in Nat /\ s6[c].version \in Nat
      /\ UNCHANGED <<s2, s3, s4, s5>>
      /\ s1.version \in Nat /\ s2.version \in Nat /\ s2 \in [lifecycle: Issuing!Lifecycles, version: Nat]
      /\ c \in Issuing!Actors
  BY KeyCallTyped DEF Issuing!Inv, Issuing!TypeOK, Issuing!PublishClosed, Issuing!At
<1>2. /\ Issuing!ReadBefore(c) /\ s6[c].space < s6[c].version /\ s6[c].version <= s2.version
      /\ s2.lifecycle # "active" /\ (s6[c].version = s2.version => s2.lifecycle = "closed")
  BY <1>1 DEF Issuing!CleanerOK
<1>3. s7' \in 0 .. KeyFaults
  BY KeyFaultTyped DEF Issuing!PublishClosed, Issuing!Inv
<1>4. ASSUME s6' = [s6 EXCEPT ![c] = Issuing!NoCall(c)] PROVE s6'[c] = Issuing!NoCall(c) /\ KeyPlaced(c)' /\ KeyGoesOn(c, Issuing!NoCall(c))
  <2>1. s6'[c] = Issuing!NoCall(c)
    BY <1>4 DEF Issuing!Inv, Issuing!TypeOK
  <2> QED
    BY <2>1, KeyNoCallTyped, KeyEndedCleaner DEF KeyGoesOn
<1>5. CASE /\ s1.version = s6[c].space
           /\ s1' = [s1 EXCEPT !.lifecycle = "closed", !.version = s6[c].version]
           /\ \/ s6' = [s6 EXCEPT ![c] = [Issuing!NoCall(c) EXCEPT !.pc = "keys", !.force = TRUE, !.space = s6[c].version]]
              \/ s6' = [s6 EXCEPT ![c] = Issuing!NoCall(c)]
  <2>1. /\ s1' \in [lifecycle: Issuing!Lifecycles, version: Nat, lease: Issuing!Actors \union {None}, live: BOOLEAN]
        /\ s1'.version = s6[c].version /\ s1'.lifecycle = "closed"
    BY <1>1, <1>5 DEF Issuing!Inv, Issuing!TypeOK, Issuing!Lifecycles
  <2>2. \E m \in Issuing!Call : s6' = [s6 EXCEPT ![c] = m] /\ KeyPlaced(c)'
    <3>1. CASE s6' = [s6 EXCEPT ![c] = Issuing!NoCall(c)]
      BY <1>4, <3>1, KeyNoCallTyped
    <3>2. CASE s6' = [s6 EXCEPT ![c] = [Issuing!NoCall(c) EXCEPT !.pc = "keys", !.force = TRUE, !.space = s6[c].version]]
      <4> DEFINE m == [Issuing!NoCall(c) EXCEPT !.pc = "keys", !.force = TRUE, !.space = s6[c].version]
      <4>1. m \in Issuing!Call /\ m.pc = "keys" /\ m.force /\ m.known = {} /\ m.noKey = {}
        BY <1>1, KeyNoCallTyped DEF Issuing!NoCall, Issuing!Call, Issuing!Pcs
      <4>2. s6'[c] = m
        BY <3>2 DEF Issuing!Inv, Issuing!TypeOK
      <4>3. s6' = [s6 EXCEPT ![c] = m]
        BY <3>2
      <4> HIDE DEF m
      <4>4. KeyPlaced(c)'
        BY <1>1, <1>2, <2>1, <4>1, <4>2 DEF KeyPlaced, Issuing!CleanerOK, Issuing!AtRow
      <4> QED
        BY <4>1, <4>3, <4>4
    <3> QED
      BY <1>5, <3>1, <3>2
  <2>3. PICK m \in Issuing!Call : s6' = [s6 EXCEPT ![c] = m] /\ KeyPlaced(c)'
    BY <2>2
  <2>4. /\ s1.version <= s1'.version /\ s1'.version # s1.version
        /\ s1'.version <= s2'.version
        /\ s1'.version = s2'.version => s1'.lifecycle = s2'.lifecycle
        /\ s2.version <= s2'.version /\ s2' = s2
    BY <1>1, <1>2, <1>5, <2>1
  <2>5. KeyGoesOn(c, m)
    BY DEF KeyGoesOn
  <2> HIDE <1>5
  <2> QED
    BY <1>1, <1>2, <1>3, <2>1, <2>3, <2>4, <2>5, KeyShows
<1>6. CASE s6' = [s6 EXCEPT ![c] = Issuing!NoCall(c)] /\ UNCHANGED <<s1, s7>>
  <2>1. KeySameDirectory
    BY <1>6 DEF KeySameDirectory, Issuing!Inv, Issuing!TypeOK
  <2> QED
    BY <1>1, <1>3, <1>4, <1>6, <2>1, KeyNoCallTyped, KeyCleanerQuiet
<1> QED
  BY <1>5, <1>6 DEF Issuing!PublishClosed

(* deleted, *)
LEMMA KeyDeleteStep == ASSUME Issuing!Inv, NEW c \in KeyCleaners, Issuing!Delete(c) PROVE KeyStep({c})
<1> USE KeyApart
<1> DEFINE to == IF s2.lifecycle = "closed" THEN "keys" ELSE "list"
           m == [s6[c] EXCEPT !.pc = to, !.force = TRUE, !.space = s1.version]
<1>1. /\ Issuing!CleanerOK(c) /\ s6[c] \in Issuing!Call /\ s6[c].pc = "idle" /\ s1.version \in Nat
      /\ s1.lifecycle = "closed" /\ s2.lifecycle # "active"
      /\ UNCHANGED <<s1, s2, s3, s4, s5, s7>>
  BY KeyCallTyped DEF Issuing!Inv, Issuing!TypeOK, Issuing!Delete, Issuing!At
<1>2. s6' = [s6 EXCEPT ![c] = m]
  BY <1>1 DEF Issuing!Delete, Issuing!Inv, Issuing!TypeOK, Issuing!Call
<1>3. to \in {"keys", "list"} /\ to \in Issuing!Pcs
  BY DEF Issuing!Pcs
<1> HIDE DEF to
<1>4. m \in Issuing!Call /\ m.pc = to /\ m.force /\ m.known = s6[c].known /\ m.noKey = s6[c].noKey
  BY <1>1, <1>3 DEF Issuing!Call
<1> HIDE DEF m
<1>5. s6'[c] = m /\ KeySameDirectory /\ s7' \in 0 .. KeyFaults
  BY <1>1, <1>2 DEF KeySameDirectory, Issuing!Inv, Issuing!TypeOK
<1>6. KeyPlaced(c)'
  BY <1>1, <1>3, <1>4, <1>5 DEF KeyPlaced, Issuing!CleanerOK, Issuing!AtRow
<1> QED
  BY <1>1, <1>2, <1>4, <1>5, <1>6, KeyCleanerQuiet

(* its keys revoked, *)
LEMMA KeyKeysStep == ASSUME Issuing!Inv, NEW c \in KeyCleaners, Issuing!Keys(c) PROVE KeyStep({c})
<1> USE KeyApart
<1>1. /\ Issuing!CleanerOK(c) /\ s6[c] \in Issuing!Call /\ s6[c].pc = "keys" /\ s6[c].force /\ s2.lifecycle # "active"
      /\ UNCHANGED <<s1, s2, s3, s4, s5, s7>>
  BY KeyCallTyped DEF Issuing!Inv, Issuing!Keys, Issuing!At, Issuing!CleanerOK
<1>2. ASSUME NEW i \in KeyIssuers, "staged" \in s4[i], s6' = [s6 EXCEPT ![c].pc = "revoke", ![c].at = i]
      PROVE  KeyStep({c})
  <2> DEFINE m == [s6[c] EXCEPT !.pc = "revoke", !.at = i]
  <2>1. /\ m \in Issuing!Call /\ m.pc = "revoke" /\ m.at = i /\ m.force = s6[c].force
        /\ m.known = s6[c].known /\ m.noKey = s6[c].noKey
    BY <1>1 DEF Issuing!Call, Issuing!Pcs
  <2>2. s6' = [s6 EXCEPT ![c] = m]
    BY <1>1, <1>2 DEF Issuing!Inv, Issuing!TypeOK, Issuing!Call
  <2> HIDE DEF m
  <2>3. s6'[c] = m /\ KeySameDirectory /\ s7' \in 0 .. KeyFaults
    BY <1>1, <2>2 DEF KeySameDirectory, Issuing!Inv, Issuing!TypeOK
  <2>4. s5[i] # "none"
    BY <1>2 DEF Issuing!Inv, Issuing!RowOK
  <2>5. KeyPlaced(c)'
    BY <1>1, <2>1, <2>3, <2>4 DEF KeyPlaced, Issuing!CleanerOK, Issuing!AtRow
  <2> QED
    BY <1>1, <2>1, <2>2, <2>3, <2>5, KeyCleanerQuiet
<1>3. ASSUME Issuing!Goto(c, "list") PROVE KeyStep({c})
  <2>1. /\ KeySameDirectory /\ \A j \in KeyIssuers : s3[j] \subseteq s3'[j] /\ (Issuing!Gone(j) => Issuing!Gone(j)')
        /\ \E m \in Issuing!Call : s6' = [s6 EXCEPT ![c] = m] /\ s6'[c] = m /\ m.pc = "list" /\ KeySame(c, m)
        /\ KeyPlaced(c)' => KeyStep({c})
    BY <1>1, <1>3, KeyCleanerOn DEF Issuing!Pcs, Issuing!Over
  <2>2. PICK m \in Issuing!Call : s6'[c] = m /\ m.pc = "list" /\ KeySame(c, m)
    BY <2>1
  <2> QED
    BY <1>1, <2>1, <2>2, KeyCleanerGoes DEF Issuing!AtRow
<1> QED
  BY <1>2, <1>3 DEF Issuing!Keys

(* and its deletion published. *)
LEMMA KeyPublishDeletedStep == ASSUME Issuing!Inv, NEW c \in KeyCleaners, Issuing!PublishDeleted(c) PROVE KeyStep({c})
<1> USE KeyApart
<1>1. /\ Issuing!CleanerOK(c) /\ s6[c].pc = "publishDeleted" /\ c \in Issuing!Actors
      /\ UNCHANGED <<s2, s3, s4, s5, s7>> /\ s6' = [s6 EXCEPT ![c] = Issuing!NoCall(c)]
  BY DEF Issuing!Inv, Issuing!PublishDeleted, Issuing!At
<1>2. /\ s6'[c] = Issuing!NoCall(c) /\ s7' \in 0 .. KeyFaults /\ s2 \in [lifecycle: Issuing!Lifecycles, version: Nat]
      /\ s2.version \in Nat /\ s1.version \in Nat /\ Issuing!Shown
  BY <1>1 DEF Issuing!Inv, Issuing!TypeOK
<1>3. KeyPlaced(c)' /\ KeyGoesOn(c, Issuing!NoCall(c))
  BY <1>2, KeyNoCallTyped, KeyEndedCleaner DEF KeyGoesOn
<1>4. s2.lifecycle = "deleted" /\ \A i \in KeyIssuers : Issuing!Gone(i)
  BY <1>1 DEF Issuing!CleanerOK, Issuing!AtRow
<1>5. CASE s1' = [s1 EXCEPT !.lifecycle = "deleted", !.version = s2.version]
  <2>1. /\ s1' \in [lifecycle: Issuing!Lifecycles, version: Nat, lease: Issuing!Actors \union {None}, live: BOOLEAN]
        /\ s1'.version = s2.version /\ s1'.lifecycle = "deleted"
    BY <1>2, <1>5 DEF Issuing!Inv, Issuing!TypeOK, Issuing!Lifecycles
  <2>2. /\ s1.version <= s1'.version
        /\ s1'.version = s1.version => s1'.lifecycle = s1.lifecycle
        /\ s2' = s2 /\ s2.version <= s2'.version /\ s1'.version <= s2'.version
    BY <1>1, <1>2, <1>4, <2>1 DEF Issuing!Shown
  <2> HIDE <1>5
  <2> QED
    BY <1>1, <1>2, <1>3, <1>4, <2>1, <2>2, KeyNoCallTyped, KeyShows
<1>6. CASE s1' = s1
  <2>1. KeySameDirectory
    BY <1>6 DEF KeySameDirectory, Issuing!Inv, Issuing!TypeOK
  <2> QED
    BY <1>1, <1>2, <1>3, <2>1, KeyNoCallTyped, KeyCleanerQuiet
<1> QED
  BY <1>5, <1>6 DEF Issuing!PublishDeleted


(* Between the two its rows go. *)
LEMMA KeyPurgeStep == ASSUME Issuing!Inv, NEW c \in KeyCleaners, Issuing!Purge(c) PROVE KeyStep({c})
<1> USE KeyApart
<1>1. Issuing!CleanerOK(c) /\ s6[c].pc = "purge" /\ UNCHANGED <<s3, s5>> /\ s6[c].force
  BY DEF Issuing!Inv, Issuing!Purge, Issuing!At, Issuing!CleanerOK
<1>2. CASE Issuing!End(c, "idle") /\ UNCHANGED <<s2, s4, s7>>
  BY <1>1, <1>2, KeyCleanerEnds
<1>3. CASE /\ s2.lifecycle = "closed" /\ s4' = [i \in KeyIssuers |-> {}]
           /\ s2' = [lifecycle |-> "deleted", version |-> s2.version + 1] /\ Issuing!Answered(c, "list")
  <2>1. /\ KeySameDirectory /\ s7' \in 0 .. KeyFaults
        /\ \E m \in Issuing!Call : /\ s6' = [s6 EXCEPT ![c] = m] /\ s6'[c] = m
                                   /\ (m.pc = "idle" /\ KeyAfresh(c, m)) \/ (m.pc = "list" /\ KeySame(c, m))
    BY <1>3, KeyAnsweredCleaner DEF Issuing!Pcs, Issuing!Over
  <2>2. PICK m \in Issuing!Call : /\ s6' = [s6 EXCEPT ![c] = m] /\ s6'[c] = m
                                  /\ (m.pc = "idle" /\ KeyAfresh(c, m)) \/ (m.pc = "list" /\ KeySame(c, m))
    BY <2>1
  <2>3. /\ s2'.lifecycle = "deleted" /\ s2'.version = s2.version + 1
        /\ s2.version \in Nat /\ s1.version \in Nat /\ Issuing!Shown
        /\ s2' \in [lifecycle: Issuing!Lifecycles, version: Nat]
    BY <1>3 DEF Issuing!Inv, Issuing!TypeOK, Issuing!Lifecycles
  <2>4. /\ \A i \in KeyIssuers : s4'[i] = {} /\ s6'[i] = s6[i] /\ Issuing!RowOK(i)
        /\ \A b \in Issuing!Actors : b # c => s6'[b] = s6[b]
    BY <1>3, <2>2 DEF Issuing!Inv, Issuing!TypeOK
  <2>5. \A i \in KeyIssuers : Issuing!RowOK(i)'
    BY <1>1, <2>4 DEF Issuing!RowOK, Issuing!Past
  <2>6. Issuing!TypeOK'
    <3>1. s4' \in [KeyIssuers -> SUBSET Issuing!KeyColumns] /\ s6' \in [Issuing!Actors -> Issuing!Call]
      BY <1>3, <2>2 DEF Issuing!Inv, Issuing!TypeOK
    <3> QED
      BY <1>1, <2>1, <2>3, <3>1 DEF Issuing!Inv, Issuing!TypeOK, KeySameDirectory
  <2>7. \A i \in KeyIssuers : Issuing!Gone(i) => Issuing!Gone(i)'
    BY <1>1, <2>4 DEF Issuing!Gone, Issuing!Past
  <2>8. KeyDrift
    BY <1>1, <1>3, <2>1, <2>3, <2>4, <2>7 DEF KeyDrift, KeySameDirectory
  <2>9. Issuing!Shown'
    BY <1>3, <2>1, <2>3 DEF Issuing!Shown, KeySameDirectory
  <2>10. ASSUME NEW i \in KeyIssuers PROVE Issuing!Untouched(i)' /\ KeySettles(i)
    BY <2>3, <2>4 DEF Issuing!Untouched, KeySettles
  <2>11. Issuing!CleanerOK(c)'
    <3>1. s6[c].known \subseteq KeyIssuers /\ s6[c].noKey \subseteq KeyIssuers
      BY KeyCallTyped DEF Issuing!Inv
    <3>2. /\ \A i \in m.known : "credential" \in s3'[i]
          /\ \A i \in m.noKey : "createFailed" \in s3'[i]
      BY <1>1, <2>2, <3>1 DEF Issuing!CleanerOK, KeySame, KeyAfresh
    <3>3. m.force => s2'.lifecycle # "active" /\ s1'.lifecycle # "active"
      BY <1>1, <2>1, <2>3 DEF Issuing!CleanerOK, KeySameDirectory
    <3> QED
      BY <2>2, <3>2, <3>3 DEF Issuing!CleanerOK, Issuing!AtRow
  <2> QED
    BY <2>4, <2>5, <2>6, <2>8, <2>9, <2>10, <2>11 DEF KeyStep
<1> QED
  BY <1>2, <1>3 DEF Issuing!Purge

(* A call may fail, *)
LEMMA KeyFailsStep == ASSUME Issuing!Inv, NEW a \in Issuing!Actors, Issuing!Fails(a) PROVE KeyStep({a})
<1> USE KeyApart
<1>1. /\ s6[a].pc \notin Issuing!Over \union {"create", "cancel", "recover", "retry"} /\ Issuing!Proceed(a, Issuing!OnError(a, s6[a].pc))
      /\ UNCHANGED <<s2, s3, s4, s5>> /\ s7' \in 0 .. KeyFaults
  <2>1. s7' \in 0 .. KeyFaults
    BY KeyFaultTyped DEF Issuing!Fails, Issuing!Inv
  <2> QED
    BY <2>1 DEF Issuing!Fails
<1>2. CASE a \in KeyCleaners
  <2>1. Issuing!OnError(a, s6[a].pc) = "idle"
    BY <1>2 DEF Issuing!OnError
  <2>2. KeySameDirectory /\ \E m : KeyMoves(a, m, {"idle"})
    BY <1>1, <2>1, KeyProceedMoves DEF Issuing!Inv, Issuing!Pcs, Issuing!Over
  <2>3. PICK m : KeyMoves(a, m, {"idle"})
    BY <2>2
  <2>4. m \in Issuing!Call /\ s6' = [s6 EXCEPT ![a] = m] /\ s6'[a] = m /\ m.pc = "idle" /\ KeyAfresh(a, m)
    BY <2>3, KeyMoved DEF Issuing!Inv, KeyMoves, Issuing!Over
  <2>5. KeyPlaced(a)'
    BY <1>2, <2>4, KeyEndedCleaner
  <2> QED
    BY <1>1, <1>2, <2>2, <2>4, <2>5, KeyCleanerQuiet
<1>3. CASE a \in KeyIssuers
  <2>1. Issuing!IssuerOK(a) /\ Issuing!Untouched(a) /\ Issuing!RowOK(a)
    BY <1>3 DEF Issuing!Inv
  <2>2. CASE s6[a].pc \in {"learn", "stage", "grant", "publish", "readActivation", "readConfirmation"}
    <3>1. KeySameDirectory /\ \E m : KeyMoves(a, m, {"cancel"})
      BY <1>1, <1>3, <2>2, KeyErrors, KeyProceedMoves DEF Issuing!Inv, Issuing!Pcs, Issuing!Over
    <3>2. PICK m : KeyMoves(a, m, {"cancel"})
      BY <3>1
    <3>3. s6'[a] = m /\ m.pc = "cancel" /\ m.at = a
      BY <1>3, <3>2, KeyIssuerGoes
    <3>4. s5[a] # "none"
      BY <1>3, <2>2, KeyMade DEF Issuing!Steps, Issuing!Learned
    <3>5. KeyPlaced(a)'
      BY <1>1, <1>3, <3>3, <3>4, KeyCompensatingIssuer DEF KeyCompensating
    <3> QED
      BY <1>1, <1>3, <3>1, <3>2, <3>5, KeyIssuerQuiet DEF KeyBefore
  <2>3. ASSUME NEW from, NEW to, <<from, to>> \in {<<"activate", "readActivation">>, <<"confirm", "readConfirmation">>},
               s6[a].pc = from
        PROVE  KeyStep({a})
    <3>0. Issuing!OnError(a, s6[a].pc) = to /\ to \in {"readActivation", "readConfirmation"}
      BY <1>3, <2>3, KeyErrors
    <3>1. KeySameDirectory /\ \E m : KeyMoves(a, m, {to})
      BY <1>1, <3>0, KeyProceedMoves DEF Issuing!Inv, Issuing!Pcs, Issuing!Over
    <3>2. PICK m : KeyMoves(a, m, {to})
      BY <3>1
    <3>3. s6'[a] = m /\ m.pc = to /\ m.at = a /\ m.version = s6[a].version
      BY <1>3, <3>0, <3>2, KeyIssuerGoes DEF KeyGoesOn
    <3>4. Issuing!IssuerOK(a)'
      BY <1>1, <2>1, <2>3, <3>1, <3>3 DEF Issuing!IssuerOK, KeySameDirectory, Issuing!Over,
        Issuing!Going, Issuing!Learned, Issuing!Steps, Issuing!Activating
    <3>5. Issuing!Untouched(a)'
      BY <1>1, <2>1, <2>3, <3>3 DEF Issuing!Untouched, Issuing!Going, Issuing!Learned,
        Issuing!Steps, Issuing!Grown
    <3> QED
      BY <1>1, <1>3, <3>0, <3>1, <3>2, <3>4, <3>5, KeyIssuerQuiet DEF KeyBefore, KeyPlaced
  <2>4. CASE s6[a].pc \in {"complete", "verify", "withdraw", "verifyRetry"}
    <3>1. KeySameDirectory /\ \E m : KeyMoves(a, m, {"recover", "unknown"})
      <4>1. Issuing!OnError(a, s6[a].pc) \in {"recover", "unknown"}
        BY <1>3, <2>4, KeyErrors
      <4>2. KeySameDirectory /\ \E m : KeyMoves(a, m, {Issuing!OnError(a, s6[a].pc)})
        BY <1>1, <4>1, KeyProceedMoves DEF Issuing!Inv, Issuing!Pcs, Issuing!Over
      <4> QED
        BY <4>1, <4>2 DEF KeyMoves
    <3>2. PICK m : KeyMoves(a, m, {"recover", "unknown"})
      BY <3>1
    <3>3. m.pc # "answered"
      BY <3>2 DEF KeyMoves
    <3> QED
      BY <1>1, <1>3, <2>4, <3>1, <3>2, <3>3, KeyCompletingQuiet DEF KeyCompleting
  <2>5. CASE s6[a].pc \in {"own", "reserve", "find", "revokeFound", "journalFound", "fallback", "fallbackJournal"}
    <3>1. KeySameDirectory /\ \E m : KeyMoves(a, m, {"failed"})
      BY <1>1, <1>3, <2>5, KeyErrors, KeyProceedMoves DEF Issuing!Inv, Issuing!Pcs, Issuing!Over
    <3>2. PICK m : KeyMoves(a, m, {"failed"})
      BY <3>1
    <3>3. s6'[a] = m /\ m.pc = "failed" /\ m.at = a
      BY <1>3, <3>2, KeyIssuerGoes
    <3>4. KeyPlaced(a)'
      BY <1>3, <3>3, KeyEndedIssuer DEF Issuing!Over
    <3> QED
      BY <1>1, <1>3, <3>1, <3>2, <3>4, KeyIssuerQuiet DEF KeyBefore
  <2>6. CASE s6[a].pc \in {"markFailed", "failKey", "revoke", "markCell", "markJournal"}
    <3>0. /\ Issuing!OnError(a, s6[a].pc) \in {"find", "revoke", "fallback"}
          /\ Issuing!OnError(a, s6[a].pc) \in {"revoke", "fallback"} => s5[a] # "none"
      BY <1>3, <2>1, <2>6, KeyErrors DEF Issuing!IssuerOK
    <3>1. KeySameDirectory /\ \E m : KeyMoves(a, m, {Issuing!OnError(a, s6[a].pc)})
      BY <1>1, <3>0, KeyProceedMoves DEF Issuing!Inv, Issuing!Pcs, Issuing!Over
    <3>2. PICK m : KeyMoves(a, m, {Issuing!OnError(a, s6[a].pc)})
      BY <3>1
    <3>3. s6'[a] = m /\ m.pc = Issuing!OnError(a, s6[a].pc) /\ m.at = a
      BY <1>3, <3>0, <3>2, KeyIssuerGoes
    <3>4. KeyPlaced(a)'
      BY <1>1, <1>3, <3>0, <3>3, KeyCompensatingIssuer DEF KeyCompensating
    <3>5. KeyMoves(a, m, {"find", "revoke", "fallback"})
      BY <3>0, <3>2 DEF KeyMoves
    <3> QED
      BY <1>1, <1>3, <3>1, <3>4, <3>5, KeyIssuerQuiet DEF KeyBefore
  <2> QED
    BY <1>1, <2>1, <2>2, <2>3, <2>4, <2>5, <2>6 DEF Issuing!IssuerOK, Issuing!Over, Issuing!Going,
      Issuing!Learned, Issuing!Steps
<1> QED
  BY <1>2, <1>3 DEF Issuing!Actors

(* or crash, at any step. *)
LEMMA KeyCrashStep == ASSUME Issuing!Inv, NEW a \in Issuing!Actors, Issuing!Crash(a) PROVE KeyStep({a})
<1> USE KeyApart
<1>1. /\ UNCHANGED <<s1, s2, s3, s4, s5>> /\ s7' \in 0 .. KeyFaults /\ KeySameDirectory
      /\ s6[a] \in Issuing!Call
  <2>1. s7' \in 0 .. KeyFaults
    BY KeyFaultTyped DEF Issuing!Crash, Issuing!Inv
  <2> QED
    BY <2>1, KeyCallTyped DEF Issuing!Crash, Issuing!Inv, Issuing!TypeOK, KeySameDirectory
<1>2. CASE a \in KeyIssuers
  <2> DEFINE m == [s6[a] EXCEPT !.pc = "crashed"]
  <2>1. m \in Issuing!Call /\ m.pc = "crashed" /\ m.at = a /\ m.version = s6[a].version
    BY <1>1, <1>2 DEF Issuing!Call, Issuing!Pcs, Issuing!Over, Issuing!Inv, Issuing!IssuerOK
  <2>2. s6' = [s6 EXCEPT ![a] = m]
    BY <1>2 DEF Issuing!Crash
  <2> HIDE DEF m
  <2>3. s6'[a] = m
    BY <2>2 DEF Issuing!Inv, Issuing!TypeOK
  <2>4. KeyPlaced(a)'
    BY <1>2, <2>1, <2>3, KeyEndedIssuer DEF Issuing!Over
  <2>5. KeyGoesOn(a, m)
    BY <2>1 DEF KeyGoesOn
  <2> QED
    BY <1>1, <2>1, <2>2, <2>4, <2>5, KeyQuiet
<1>3. CASE a \in KeyCleaners
  <2>1. s6' = [s6 EXCEPT ![a] = Issuing!NoCall(a)]
    BY <1>3 DEF Issuing!Crash
  <2>2. s6'[a] = Issuing!NoCall(a)
    BY <2>1 DEF Issuing!Inv, Issuing!TypeOK
  <2>3. KeyPlaced(a)'
    BY <1>3, <2>2, KeyNoCallTyped, KeyEndedCleaner
  <2> QED
    BY <1>1, <1>3, <2>1, <2>3, KeyNoCallTyped, KeyCleanerQuiet
<1> QED
  BY <1>2, <1>3 DEF Issuing!Actors

(* Nobody's call: the lease passes, or nothing happens. *)
LEMMA KeyIdle ==
  ASSUME Issuing!Inv, UNCHANGED <<s2, s3, s4, s5, s6>>, KeySameDirectory, s7' \in 0 .. KeyFaults
  PROVE  Issuing!Inv'
<1>1. Issuing!TypeOK' /\ Issuing!Shown'
  BY DEF Issuing!Inv, Issuing!TypeOK, Issuing!Shown, KeySameDirectory, Issuing!Gone, Issuing!Past
<1>2. \A i \in KeyIssuers : Issuing!RowOK(i)' /\ Issuing!Untouched(i)'
  BY DEF Issuing!Inv, Issuing!RowOK, Issuing!Untouched, Issuing!Past, KeySameDirectory
<1>3. \A i \in KeyIssuers : Issuing!IssuerOK(i)'
  BY DEF Issuing!Inv, Issuing!IssuerOK, Issuing!ReadBefore, KeySameDirectory
<1>4. \A c \in KeyCleaners : Issuing!CleanerOK(c)'
  BY DEF Issuing!Inv, Issuing!CleanerOK, Issuing!ReadBefore, KeySameDirectory, Issuing!Gone,
    Issuing!Past
<1> QED
  BY <1>1, <1>2, <1>3, <1>4 DEF Issuing!Inv

(* Every step of an issuer keeps the invariant, *)
LEMMA KeyIssuerNextStep == ASSUME Issuing!Inv, NEW i \in KeyIssuers, Issuing!IssuerNext(i) PROVE Issuing!Inv'
<1>1. i \in Issuing!Actors
  BY KeyApart
<1>2. KeyStep({i})
  BY <1>1, KeyClaimStep, KeyReadSpaceStep, KeyReserveStep, KeyCreateStep, KeyCheckStep,
    KeyLearnStep, KeyStageStep, KeyGrantStep, KeyPublishStep,
     KeyActivateStep, KeyConfirmStep, KeyReadBackStep, KeyCompleteStep, KeyVerifyStep, KeyRecoverStep, KeyRetryCompleteStep, KeyWithdrawStep,
     KeyCancelOwnStep, KeyMarkFailedStep, KeyFindStep DEF Issuing!IssuerNext
<1> QED
  BY <1>2, KeyStepKeeps

(* as does every step of a cleaner. *)
LEMMA KeyCleanerNextStep == ASSUME Issuing!Inv, NEW c \in KeyCleaners, Issuing!CleanerNext(c) \/ Issuing!Close(c) \/ Issuing!Delete(c) PROVE Issuing!Inv'
<1>1. c \in Issuing!Actors
  BY KeyApart
<1>2. KeyStep({c})
  BY <1>1, KeyClaimStep, KeyListUnderLeaseStep, KeyListStep, KeyCancelRowStep, KeyFindRowStep,
    KeyLearnRowStep, KeyRowsDoneStep, KeyRepairStep,
     KeyCompareStep, KeyCloseStep, KeyPublishClosedStep, KeyDeleteStep, KeyKeysStep, KeyPurgeStep, KeyPublishDeletedStep DEF Issuing!CleanerNext
<1> QED
  BY <1>2, KeyStepKeeps

(* Every step keeps it. *)
LEMMA KeyNextInv == Issuing!Inv /\ [Issuing!Next]_(Issuing!vars) => Issuing!Inv'
<1> SUFFICES ASSUME Issuing!Inv, [Issuing!Next]_(Issuing!vars) PROVE Issuing!Inv'
  OBVIOUS
<1>1. ASSUME NEW a \in Issuing!Actors, Issuing!Shared(a) \/ Issuing!Fails(a) \/ Issuing!Crash(a) PROVE Issuing!Inv'
  <2>1. KeyStep({a})
    BY <1>1, KeyFailKeyStep, KeyRevokeStep, KeyMarkCellStep, KeyMarkJournalStep, KeyFailsStep,
      KeyCrashStep DEF Issuing!Shared
  <2> QED
    BY <2>1, KeyStepKeeps
<1>2. CASE Issuing!ExpireLease
  <2>1. s7' \in 0 .. KeyFaults
    BY <1>2, KeyFaultTyped DEF Issuing!ExpireLease, Issuing!Inv
  <2>2. KeySameDirectory
    BY <1>2 DEF Issuing!ExpireLease, KeySameDirectory, Issuing!Inv, Issuing!TypeOK
  <2> QED
    BY <1>2, <2>1, <2>2, KeyIdle DEF Issuing!ExpireLease
<1>3. CASE UNCHANGED Issuing!vars
  BY <1>3, KeyIdle DEF Issuing!vars, KeySameDirectory, Issuing!Inv, Issuing!TypeOK
<1> QED
  BY <1>1, <1>2, <1>3, KeyIssuerNextStep, KeyCleanerNextStep DEF Issuing!Next

(* The invariant says what the properties say. *)
LEMMA KeyPromises ==
  ASSUME Issuing!Inv
  PROVE  Issuing!TypeOK /\ Issuing!AnsweredKeysStand /\ Issuing!NoOrphans /\ Issuing!GrantsFollowKeys /\ Issuing!ActiveMeansPublished /\ Issuing!DeletedMeansRevoked
<1>1. \A i \in KeyIssuers : Issuing!RowOK(i) /\ Issuing!Untouched(i) /\ Issuing!IssuerOK(i)
  BY DEF Issuing!Inv
<1>2. Issuing!AnsweredKeysStand
  <2>1. ASSUME NEW i \in KeyIssuers, s6[i].pc = "answered", s2.lifecycle = "active"
        PROVE  /\ s5[i] = "live" /\ s4[i] = {"staged", "granted", "activated", "confirmed"}
               /\ "completed" \in s3[i] /\ "cancelled" \notin s3[i]
    <3>1. Issuing!Grown("answered") = {{"staged", "granted"} \union {"activated"} \union {"confirmed"}}
      BY DEF Issuing!Grown
    <3>2. /\ "cancelled" \notin s3[i] /\ "completed" \in s3[i] /\ s5[i] = "live"
          /\ s4[i] \in Issuing!Grown("answered")
      BY <1>1, <2>1 DEF Issuing!Untouched, Issuing!Going
    <3> QED
      BY <3>1, <3>2
  <2> QED
    BY <2>1 DEF Issuing!AnsweredKeysStand
<1>3. Issuing!NoOrphans
  BY <1>1 DEF Issuing!NoOrphans, Issuing!RowOK, Issuing!Open
<1>4. Issuing!GrantsFollowKeys /\ Issuing!ActiveMeansPublished
  BY <1>1 DEF Issuing!GrantsFollowKeys, Issuing!ActiveMeansPublished, Issuing!RowOK
<1>5. Issuing!DeletedMeansRevoked
  BY DEF Issuing!DeletedMeansRevoked, Issuing!Inv, Issuing!Shown, Issuing!Gone
<1> QED
  BY <1>2, <1>3, <1>4, <1>5 DEF Issuing!Inv

----------------------------------------------------------------------------
(* Creation: the part "creation". *)

(* The constants are as SpaceProvisioning assumes. *)
LEMMA CreateConstants == Creating!ProvisioningAssumption
  BY SuiteAssumption


----------------------------------------------------------------------------
(* Calls, listings and nobody are different, and a setting's parts are what they are. *)
LEMMA CreateApart ==
  /\ \A c \in Creators : c \notin Listers /\ c # None /\ OwnerOf[c] # None
  /\ \A l \in Listers : l \notin Creators /\ l # None /\ OwnerOf[l] # None
BY CreateConstants DEF Creating!ProvisioningAssumption

(* What the service was deployed with. *)
LEMMA CreateSet ==
  ASSUME s11 \in Settings
  PROVE  /\ Creating!Selected \in BOOLEAN /\ Creating!Shared \in BOOLEAN /\ Creating!LinksBreak \in BOOLEAN
         /\ Creating!MaxTime \in Nat /\ Creating!MaxFaults \in Nat /\ Lease \in Nat /\ s11.callers \subseteq Creators
BY CreateConstants DEF Creating!ProvisioningAssumption, Creating!Selected, Creating!Shared,
  Creating!LinksBreak, Creating!MaxTime, Creating!MaxFaults

(* At first no ID is taken and nobody works. *)
LEMMA CreateInitInv == Creating!Init => Creating!Inv
<1> SUFFICES ASSUME Creating!Init PROVE Creating!Inv
  OBVIOUS
<1>1. Creating!Typed
  BY CreateSet DEF Creating!Init, Creating!Typed, Creating!Lifecycles, Creating!Steps,
    Creating!Errors, Creating!Answers
<1>2. Creating!RowOK
  BY CreateSet DEF Creating!Init, Creating!RowOK, Creating!Taken, Creating!ServedMeansCell,
    Creating!RetiredMeansNoCell
<1>3. \A c \in Creators : Creating!CallOK(c)
  BY CreateApart DEF Creating!Init, Creating!CallOK, Creating!Working
<1>4. \A l \in Listers : Creating!ListOK(l)
  BY CreateApart DEF Creating!Init, Creating!ListOK, Creating!Reads
<1> QED
  BY <1>1, <1>2, <1>3, <1>4 DEF Creating!Inv

(* The types, with the end of a claim. *)
LEMMA CreateInvTypes == Creating!Inv => Creating!TypeOK
<1> SUFFICES ASSUME Creating!Inv PROVE Creating!TypeOK
  OBVIOUS
<1>1. Creating!MaxTime \in Nat /\ Lease \in Nat
  BY CreateSet DEF Creating!Inv, Creating!Typed
<1> QED
  BY <1>1 DEF Creating!Inv, Creating!Typed, Creating!RowOK, Creating!TypeOK

----------------------------------------------------------------------------
(* What a step of one call may do to what the others rely on. *)
CreateBeside(c) ==
    /\ UNCHANGED <<s11, s6, s9>>
    /\ \A d \in Creators : d # c => /\ s5'[d] = s5[d] /\ (d \in s7' <=> d \in s7)
                                    /\ (s4' = d <=> s4 = d)
    /\ s3' # s3 => {s3, s3'} = {c, None}
    /\ \/ s1' = s1
       \/ ~Creating!Taken /\ s1'.life = "provisioning" /\ s1'.owner # None
       \/ /\ s1.life = "provisioning" /\ s3 \in {c, None} /\ s1' = Creating!Published
          /\ s2' = s1.owner
    /\ s2' # s2 => Creating!Working(c) /\ s2' = OwnerOf[c] /\ (Creating!Shared => c \notin s7)
    /\ ~Creating!LinksBreak => s7' \subseteq s7

(* The row stays right, *)
LEMMA CreateBesideRow ==
  ASSUME Creating!Inv, NEW c \in Creators, CreateBeside(c), Creating!Typed',
         s1'.until # 0 => s1'.life = "provisioning", s1'.until <= Creating!MaxTime + Lease
  PROVE  Creating!RowOK'
<1> USE CreateApart
<1>1. Creating!CallOK(c) /\ Creating!RowOK /\ Creating!Typed
  BY DEF Creating!Inv
<1>2. Creating!LockLasts' = Creating!LockLasts /\ Creating!LinksBreak' = Creating!LinksBreak /\ Creating!MaxTime' = Creating!MaxTime
  BY DEF CreateBeside, Creating!LockLasts, Creating!LinksBreak, Creating!MaxTime, Creating!Shared
<1>3. (Creating!Taken <=> s1.owner # None)' /\ (Creating!Taken => Creating!Taken' /\ s1'.owner = s1.owner)
  BY <1>1 DEF CreateBeside, Creating!Taken, Creating!RowOK, Creating!Published, Creating!Typed
<1>4. (s2 # None => s2 = s1.owner)'
  BY <1>1, <1>3 DEF CreateBeside, Creating!RowOK, Creating!CallOK, Creating!Mine, Creating!Taken
<1>5. Creating!ServedMeansCell'
  <2>1. s1'.life = "active" => s2' = s1.owner
    BY <1>1 DEF CreateBeside, Creating!RowOK, Creating!ServedMeansCell, Creating!CallOK,
      Creating!Mine, Creating!Taken
  <2> QED
    BY <2>1, <1>3 DEF Creating!ServedMeansCell, Creating!Taken, CreateBeside, Creating!Published
<1>6. (Creating!LockLasts => Creating!RetiredMeansNoCell)'
  <2>1. s1'.life = "deleted" => s1' = s1
    BY <1>1 DEF CreateBeside, Creating!Published, Creating!Typed
  <2>2. ASSUME Creating!LockLasts, s1.life = "deleted" PROVE s2' = s2
    BY <1>1, <2>2 DEF CreateBeside, Creating!CallOK, Creating!RowOK, Creating!LockLasts
  <2> QED
    BY <1>1, <1>2, <2>1, <2>2 DEF Creating!RowOK, Creating!RetiredMeansNoCell
<1>7. (~Creating!LinksBreak => s7 = {})'
  BY <1>1, <1>2 DEF CreateBeside, Creating!RowOK
<1>8. (~Creating!Taken => s9 <= Creating!MaxTime)' /\ s9' <= Creating!MaxTime' + Lease
  BY <1>1, <1>2, <1>3 DEF Creating!RowOK, CreateBeside
<1> QED
  BY <1>2, <1>3, <1>4, <1>5, <1>6, <1>7, <1>8 DEF Creating!RowOK

(* so does every other call, *)
LEMMA CreateBesideCall ==
  ASSUME Creating!Inv, NEW c \in Creators, CreateBeside(c), NEW d \in Creators, d # c
  PROVE  Creating!CallOK(d)'
<1> USE CreateApart
<1>1. Creating!CallOK(c) /\ Creating!CallOK(d) /\ Creating!RowOK /\ Creating!Typed
  BY DEF Creating!Inv
<1>2. /\ s5'[d] = s5[d] /\ (d \in s7' <=> d \in s7) /\ (s4' = d <=> s4 = d)
      /\ Creating!Shared' = Creating!Shared /\ (Creating!Working(d)' <=> Creating!Working(d)) /\ s11' = s11
  BY DEF CreateBeside, Creating!Shared, Creating!Working
<1>3. Creating!Taken => Creating!Taken' /\ s1'.owner = s1.owner
  BY <1>1 DEF CreateBeside, Creating!Taken, Creating!RowOK, Creating!Published, Creating!Typed
<1>4. s3' = d <=> s3 = d
  BY DEF CreateBeside
<1>5. s2 = s1.owner /\ Creating!Taken => s2' = s1'.owner
  BY <1>1, <1>3 DEF CreateBeside, Creating!CallOK, Creating!Mine, Creating!RowOK
<1>6. s3 = d => s1' = s1
  BY <1>1 DEF CreateBeside, Creating!CallOK, Creating!Taken
<1>7. s1.life = "active" => s1' = s1
  BY <1>1 DEF CreateBeside, Creating!Taken
<1>8. s1.life = "deleted" => s1' = s1
  BY <1>1 DEF CreateBeside, Creating!Taken
<1> QED
  BY <1>1, <1>2, <1>3, <1>4, <1>5, <1>6, <1>7, <1>8 DEF Creating!CallOK, Creating!Mine,
    Creating!Working

(* and every listing. *)
LEMMA CreateBesideList ==
  ASSUME Creating!Inv, NEW c \in Creators, CreateBeside(c), NEW l \in Listers
  PROVE  Creating!ListOK(l)'
<1> USE CreateApart
<1>1. Creating!CallOK(c) /\ Creating!ListOK(l) /\ Creating!RowOK /\ Creating!Typed
  BY DEF Creating!Inv
<1>2. s6'[l] = s6[l] /\ Creating!LockLasts' = Creating!LockLasts /\ (s3' = l <=> s3 = l)
  BY DEF CreateBeside, Creating!LockLasts, Creating!Shared, Creating!LinksBreak
<1>3. s3 = l => s1' = s1 /\ s9' = s9
  BY <1>1 DEF CreateBeside, Creating!ListOK, Creating!Taken
<1>4. s3 = l => s2' = s2 \/ ~Creating!LockLasts \/ s6[l] # "deleted"
  BY <1>1 DEF CreateBeside, Creating!CallOK, Creating!RowOK, Creating!LockLasts
<1>5. s2 = s1.owner /\ s3 = l => s2' = s1.owner
  BY <1>1 DEF CreateBeside, Creating!CallOK, Creating!Mine, Creating!RowOK
<1> QED
  BY <1>1, <1>2, <1>3, <1>4, <1>5 DEF Creating!ListOK, Creating!Reads

(* So a step of a call keeps the invariant if it does no more than that, and
   leaves its own call where it may be. *)
LEMMA CreateKeeps ==
  ASSUME Creating!Inv, NEW c \in Creators, CreateBeside(c), Creating!Typed',
         s1'.until # 0 => s1'.life = "provisioning", s1'.until <= Creating!MaxTime + Lease, Creating!CallOK(c)'
  PROVE  Creating!Inv'
BY CreateBesideRow, CreateBesideCall, CreateBesideList DEF Creating!Inv

----------------------------------------------------------------------------
(* What a call's own state becomes. *)
CreateMoves(c) == /\ s5' \in [Creators -> [pc : Creating!Steps, err : Creating!Errors, answer : Creating!Answers]]
                  /\ \A d \in Creators : d # c => s5'[d] = s5[d]

(* A call that goes on, *)
LEMMA CreateGoes ==
  ASSUME Creating!Typed, NEW c \in Creators, NEW step \in Creating!Steps, Creating!Go(c, step)
  PROVE  CreateMoves(c) /\ s5'[c].pc = step /\ s5'[c].answer = s5[c].answer
BY DEF Creating!Typed, Creating!Go, CreateMoves

(* that fails and reads back, *)
LEMMA CreateFails ==
  ASSUME Creating!Typed, NEW c \in Creators, NEW e \in Creating!Errors, Creating!Fail(c, e)
  PROVE  CreateMoves(c) /\ s5'[c].pc = "recover" /\ s5'[c].answer = s5[c].answer
BY DEF Creating!Typed, Creating!Fail, CreateMoves, Creating!Steps

(* is answered, *)
LEMMA CreateAnswered ==
  ASSUME Creating!Typed, NEW c \in Creators, NEW a \in Creating!Answers, Creating!Answer(c, a)
  PROVE  CreateMoves(c) /\ s5'[c].pc = "done" /\ s5'[c].answer = a
BY DEF Creating!Typed, Creating!Answer, CreateMoves, Creating!Steps

(* is given the space, *)
LEMMA CreateGiven ==
  ASSUME Creating!Typed, NEW c \in Creators, Creating!Give(c)
  PROVE  CreateMoves(c) /\ s5'[c].pc = "done" /\ s5'[c].answer \in {"info", "forbidden"}
BY CreateAnswered DEF Creating!Give, Creating!Answers, Creating!Errors

(* or gets the error it met *)
LEMMA CreateThrownIsError == ASSUME Creating!Typed, NEW c \in Creators PROVE Creating!Thrown(c) \in Creating!Errors
BY DEF Creating!Typed, Creating!Thrown, Creating!Errors

(* as its answer, *)
LEMMA CreateThrows ==
  ASSUME Creating!Typed, NEW c \in Creators, Creating!Answer(c, Creating!Thrown(c))
  PROVE  CreateMoves(c) /\ s5'[c].pc = "done" /\ s5'[c].answer \in Creating!Errors
BY CreateAnswered, CreateThrownIsError DEF Creating!Answers

(* while it resumes, *)
LEMMA CreateResumeFails ==
  ASSUME Creating!Typed, NEW c \in Creators, NEW e \in Creating!Errors \cup {"conflict"}, Creating!ResumeFailed(c, e)
  PROVE  CreateMoves(c) /\ s5'[c].pc = "done" /\ s5'[c].answer \in Creating!Errors \cup {e}
BY CreateAnswered, CreateThrownIsError DEF Creating!ResumeFailed, Creating!Answers

(* or creates, moves alone. *)
LEMMA CreateFailures ==
  ASSUME Creating!Typed, NEW c \in Creators, NEW e \in Creating!Errors, NEW r \in BOOLEAN, Creating!Failed(c, r, e)
  PROVE  /\ CreateMoves(c) /\ s5'[c].pc \in {"done", "recover"}
         /\ s5'[c].answer \in Creating!Errors \/ s5'[c].answer = s5[c].answer
BY CreateFails, CreateResumeFails DEF Creating!Failed

(* The faults stay within their bound. *)
LEMMA CreateFaults == ASSUME Creating!Typed, Creating!Fault \/ Creating!NoFault, UNCHANGED s11 PROVE s10' \in 0 .. Creating!MaxFaults'
BY CreateSet DEF Creating!Typed, Creating!Fault, Creating!NoFault, Creating!MaxFaults

(* A call that gives its lock up holds none. *)
LEMMA CreateLockFree == ASSUME NEW c \in Creators, Creating!Release(c) PROVE s3' # c /\ s4' # c
BY CreateApart DEF Creating!Release

(* A step of a call that writes no row, and gets no lock. *)
LEMMA CreateQuiet ==
  ASSUME Creating!Inv, NEW c \in Creators, CreateMoves(c), Creating!Fault \/ Creating!NoFault, UNCHANGED <<Creating!rows, Creating!world, s6, s7>>,
         Creating!Keep \/ Creating!Release(c), Creating!CallOK(c)'
  PROVE  Creating!Inv'
<1> USE CreateApart
<1>1. Creating!Typed /\ Creating!RowOK
  BY DEF Creating!Inv
<1>2. s10' \in 0 .. Creating!MaxFaults'
  BY <1>1, CreateFaults DEF Creating!world
<1>3. /\ s3' \in Creators \cup Listers \cup {None} /\ s4' \in Creators \cup {None}
      /\ s3' # s3 => {s3, s3'} = {c, None}
      /\ \A d \in Creators : d # c => (s4' = d <=> s4 = d)
  BY <1>1 DEF Creating!Keep, Creating!Release, Creating!Typed
<1>4. Creating!Accounts' = Creating!Accounts
  BY DEF Creating!Accounts, Creating!world
<1>5. Creating!Typed'
  BY <1>1, <1>2, <1>3, <1>4 DEF Creating!Typed, CreateMoves, Creating!rows, Creating!world
<1>6. CreateBeside(c)
  BY <1>3 DEF CreateBeside, CreateMoves, Creating!rows, Creating!world
<1>7. (s1'.until # 0 => s1'.life = "provisioning") /\ s1'.until <= Creating!MaxTime + Lease
  BY <1>1 DEF Creating!RowOK, Creating!rows, Creating!world
<1> QED
  BY <1>5, <1>6, <1>7, CreateKeeps

(* A call that is answered, or goes to its recovery, without a lock. *)
LEMMA CreateOver ==
  ASSUME Creating!Inv, NEW c \in Creators, CreateMoves(c), Creating!Fault \/ Creating!NoFault, UNCHANGED <<Creating!rows, Creating!world, s6, s7>>,
         Creating!Keep \/ Creating!Release(c), s3' # c, c \in s11.callers,
         s5'[c].pc \in {"done", "recover", "insert", "readBack"}, s5'[c].pc = "insert" => c \notin s7,
         \/ s5'[c].answer \in Creating!Errors \cup {s5[c].answer}
         \/ s5'[c].answer = "info" /\ s1.life = "active" /\ Creating!Mine(c)
         \/ s5'[c].answer = "conflict" /\ Creating!Taken /\ (s1.life = "deleted" \/ ~Creating!Mine(c))
  PROVE  Creating!Inv'
<1>1. Creating!CallOK(c)
  BY DEF Creating!Inv
<1>2. Creating!CallOK(c)'
  BY <1>1 DEF Creating!CallOK, Creating!Working, Creating!Mine, Creating!Taken, Creating!Errors,
    Creating!rows, Creating!world
<1> QED
  BY <1>2, CreateQuiet


(* What the directory's row tells a call that waits for nothing. *)
LEMMA CreateFoundKeeps ==
  ASSUME Creating!Inv, NEW c \in Creators, Creating!NoFault, Creating!Keep, UNCHANGED <<Creating!rows, Creating!world, s6, s7>>,
         ~Creating!Working(c), c \in s11.callers,
         (Creating!Found(c, Creating!Go(c, "insert")) /\ c \notin s7) \/ Creating!Found(c, Creating!Answer(c, Creating!Thrown(c)))
  PROVE  Creating!Inv'
<1> USE CreateApart
<1>1. Creating!Typed /\ Creating!CallOK(c) /\ s3' = s3 /\ s3 # c
  BY DEF Creating!Inv, Creating!CallOK, Creating!Keep
<1>2. CASE Creating!Go(c, "insert") /\ c \notin s7
  BY <1>1, <1>2, CreateGoes, CreateOver DEF Creating!Steps
<1>3. CASE Creating!Answer(c, Creating!Thrown(c))
  BY <1>1, <1>3, CreateThrows, CreateOver
<1>4. CASE Creating!Answer(c, "conflict") /\ s1.life # "absent" /\ (~Creating!Mine(c) \/ s1.life = "deleted")
  <2>1. CreateMoves(c) /\ s5'[c].pc = "done" /\ s5'[c].answer = "conflict"
    BY <1>1, <1>4, CreateAnswered DEF Creating!Answers
  <2> QED
    BY <1>1, <1>4, <2>1, CreateOver DEF Creating!Taken
<1>5. CASE Creating!Mine(c) /\ s1.life = "active" /\ Creating!Give(c)
  <2>1. CreateMoves(c) /\ s5'[c].pc = "done" /\ s5'[c].answer \in {"info", "forbidden"}
    BY <1>1, <1>5, CreateGiven
  <2> QED
    BY <1>1, <1>5, <2>1, CreateOver DEF Creating!Errors
<1>6. CASE Creating!Mine(c) /\ s1.life = "provisioning" /\ Creating!Go(c, "resume")
  <2>1. CreateMoves(c) /\ s5'[c].pc = "resume" /\ s5'[c].answer = s5[c].answer
    BY <1>1, <1>6, CreateGoes DEF Creating!Steps
  <2>2. Creating!CallOK(c)'
    BY <1>1, <1>6, <2>1 DEF Creating!CallOK, Creating!Working, Creating!Mine, Creating!Taken,
      Creating!rows, Creating!world
  <2> QED
    BY <2>1, <2>2, CreateQuiet
<1>7. s1.life \in Creating!Lifecycles
  BY <1>1 DEF Creating!Typed
<1> QED
  BY <1>2, <1>3, <1>4, <1>5, <1>6, <1>7 DEF Creating!Found, Creating!Lifecycles

(* A call begins. *)
LEMMA CreateBeginStep == ASSUME Creating!Inv, NEW c \in Creators, Creating!Begin(c) PROVE Creating!Inv'
<1>1. /\ Creating!Typed /\ Creating!CallOK(c) /\ ~Creating!Working(c) /\ c \in s11.callers /\ c \notin s7
      /\ Creating!Keep /\ UNCHANGED <<Creating!rows, Creating!world, s6, s7>>
  BY DEF Creating!Inv, Creating!Begin, Creating!At, Creating!Working, Creating!CallOK
<1>2. s3' = s3 /\ s3 # c
  BY <1>1 DEF Creating!CallOK, Creating!Keep
<1>3. CASE Creating!Answer(c, "forbidden") /\ Creating!NoFault
  BY <1>1, <1>2, <1>3, CreateAnswered, CreateOver DEF Creating!Answers, Creating!Errors
<1>4. CASE Creating!Answer(c, "error") /\ Creating!Fault
  BY <1>1, <1>2, <1>4, CreateAnswered, CreateOver DEF Creating!Answers, Creating!Errors
<1>5. CASE Creating!Go(c, "insert") /\ Creating!NoFault
  BY <1>1, <1>2, <1>5, CreateGoes, CreateOver DEF Creating!Steps
<1>6. CASE Creating!Found(c, Creating!Go(c, "insert")) /\ Creating!NoFault
  BY <1>1, <1>6, CreateFoundKeeps
<1> QED
  BY <1>3, <1>4, <1>5, <1>6 DEF Creating!Begin

(* It inserts the reservation, or finds one. *)
LEMMA CreateInsertStep == ASSUME Creating!Inv, NEW c \in Creators, Creating!Insert(c) PROVE Creating!Inv'
<1> USE CreateApart
<1>1. /\ Creating!Typed /\ Creating!RowOK /\ Creating!CallOK(c) /\ ~Creating!Working(c) /\ c \in s11.callers /\ Creating!Keep /\ c \notin s7
      /\ UNCHANGED <<s2, Creating!world, s6, s7>> /\ s3' = s3 /\ s3 # c
  BY DEF Creating!Inv, Creating!Insert, Creating!At, Creating!Working, Creating!CallOK,
    Creating!Keep
<1>2. CASE UNCHANGED s1
  <2>1. CASE Creating!Fail(c, "forbidden") /\ Creating!NoFault
    BY <1>1, <1>2, <2>1, CreateFails, CreateOver DEF Creating!Errors, Creating!rows
  <2>2. CASE Creating!Fail(c, "error") /\ (Creating!NoFault \/ Creating!Fault)
    BY <1>1, <1>2, <2>2, CreateFails, CreateOver DEF Creating!Errors, Creating!rows
  <2>3. CASE s1.life = "absent" /\ s1' = Creating!Reservation(c)
    BY <1>2, <2>3 DEF Creating!Reservation
  <2> QED
    BY <2>1, <2>2, <2>3 DEF Creating!Insert
<1>3. CASE s1.life = "absent" /\ s1' = Creating!Reservation(c)
  <2>1. CreateMoves(c) /\ s5'[c].pc \in {"lock", "recover"} /\ s5'[c].answer = s5[c].answer /\ (Creating!Fault \/ Creating!NoFault)
    BY <1>1, <1>3, CreateGoes, CreateFails DEF Creating!Insert, Creating!Steps, Creating!Errors,
      Creating!Reservation
  <2>2. s9 <= Creating!MaxTime /\ Creating!MaxTime \in Nat /\ Lease \in Nat /\ s9 \in Nat
    BY <1>1, <1>3, CreateSet DEF Creating!RowOK, Creating!Taken, Creating!Typed
  <2>3. s1'.until \in Nat /\ s1'.until <= Creating!MaxTime + Lease /\ s1'.life = "provisioning" /\ s1'.owner = OwnerOf[c]
    BY <1>3, <2>2 DEF Creating!Reservation
  <2>4. OwnerOf[c] \in Creating!Accounts /\ Creating!Accounts' = Creating!Accounts
    BY <1>1 DEF Creating!Accounts, Creating!world
  <2>5. s1' \in [life : Creating!Lifecycles, owner : Creating!Accounts \cup {None}, until : Nat]
    BY <1>3, <2>3, <2>4 DEF Creating!Reservation, Creating!Lifecycles
  <2>6. s10' \in 0 .. Creating!MaxFaults'
    BY <1>1, <2>1, CreateFaults DEF Creating!world
  <2>7. Creating!Typed'
    BY <1>1, <2>1, <2>4, <2>5, <2>6 DEF Creating!Typed, CreateMoves, Creating!Keep, Creating!world
  <2>8. CreateBeside(c)
    BY <1>1, <1>3, <2>1, <2>3 DEF CreateBeside, CreateMoves, Creating!Keep, Creating!Taken,
      Creating!world
  <2>9. Creating!CallOK(c)'
    BY <1>1, <1>3, <2>1, <2>3 DEF Creating!CallOK, Creating!Working, Creating!Mine, Creating!Taken,
      Creating!world
  <2> QED
    BY <1>1, <2>3, <2>7, <2>8, <2>9, CreateKeeps DEF Creating!world
<1> QED
  BY <1>2, <1>3 DEF Creating!Insert

(* Where a call goes with the lock it has. *)
LEMMA CreateLockStep == ASSUME Creating!Inv, NEW c \in Creators, Creating!Lock(c) PROVE Creating!Inv'
<1> USE CreateApart
<1>1. /\ Creating!Typed /\ Creating!RowOK /\ Creating!CallOK(c) /\ ~Creating!Working(c) /\ c \in s11.callers /\ s3 = None /\ Creating!NoFault
      /\ UNCHANGED <<Creating!rows, s4, Creating!world, s6, s7>> /\ c \notin s7
  BY DEF Creating!Inv, Creating!Lock, Creating!At, Creating!Working, Creating!CallOK
<1>2. CASE s3' = s3 /\ Creating!Fail(c, "stale")
  BY <1>1, <1>2, CreateFails, CreateOver DEF Creating!Errors, Creating!Keep
<1>3. CASE Creating!Mine(c) /\ s1.life = "provisioning" /\ s3' = c /\ Creating!Go(c, "cell")
  <2>1. CreateMoves(c) /\ s5'[c].pc = "cell" /\ s5'[c].answer = s5[c].answer
    BY <1>1, <1>3, CreateGoes DEF Creating!Steps
  <2>2. Creating!Accounts' = Creating!Accounts /\ s10' \in 0 .. Creating!MaxFaults'
    BY <1>1, CreateFaults DEF Creating!Accounts, Creating!world
  <2>3. Creating!Typed'
    BY <1>1, <1>3, <2>1, <2>2 DEF Creating!Typed, CreateMoves, Creating!rows, Creating!world
  <2>4. CreateBeside(c)
    BY <1>1, <1>3, <2>1 DEF CreateBeside, CreateMoves, Creating!rows, Creating!world
  <2> QED
    <3>1. Creating!CallOK(c)'
      BY <1>1, <1>3, <2>1 DEF Creating!CallOK, Creating!Working, Creating!Mine, Creating!Taken,
        Creating!rows, Creating!world
    <3> QED
      BY <1>1, <2>3, <2>4, <3>1, CreateKeeps DEF Creating!RowOK, Creating!rows, Creating!world
<1> QED
  BY <1>2, <1>3 DEF Creating!Lock

(* A call's insertion into the cell: it has the key to itself, or ends. *)
LEMMA CreateInsertCellKeeps ==
  ASSUME Creating!Inv, NEW c \in Creators, NEW r \in BOOLEAN, NEW step, NEW after \in Creating!Steps, Creating!InsertCell(c, step, after, r),
         Creating!Working(c),
         \/ after = "commitDir" /\ Creating!Shared
         \/ after = "resumeCommit" /\ Creating!Shared
         \/ after \in {"commitCell", "resumeCommitCell"} /\ ~Creating!Shared
  PROVE  Creating!Inv'
<1> USE CreateApart
<1>1. /\ Creating!Typed /\ Creating!RowOK /\ Creating!CallOK(c) /\ c \in s11.callers /\ Creating!NoFault
      /\ UNCHANGED <<Creating!rows, Creating!world, s6, s7>>
  BY DEF Creating!Inv, Creating!InsertCell, Creating!Working, Creating!CallOK
<1>2. CASE s4' = c /\ s4 = None /\ s3' = s3 /\ Creating!Go(c, after)
  <2>1. CreateMoves(c) /\ s5'[c].pc = after /\ s5'[c].answer = s5[c].answer
    BY <1>1, <1>2, CreateGoes
  <2>2. Creating!Accounts' = Creating!Accounts /\ s10' \in 0 .. Creating!MaxFaults'
    BY <1>1, CreateFaults DEF Creating!Accounts, Creating!world
  <2>3. Creating!Typed'
    BY <1>1, <1>2, <2>1, <2>2 DEF Creating!Typed, CreateMoves, Creating!rows, Creating!world
  <2>4. CreateBeside(c)
    BY <1>1, <1>2, <2>1 DEF CreateBeside, CreateMoves, Creating!rows, Creating!world
  <2>5. Creating!CallOK(c)'
    BY <1>1, <1>2, <2>1 DEF Creating!CallOK, Creating!Working, Creating!Mine, Creating!Taken,
      Creating!Shared, Creating!rows, Creating!world
  <2> QED
    BY <1>1, <2>3, <2>4, <2>5, CreateKeeps DEF Creating!RowOK, Creating!rows, Creating!world
<1>3. CASE Creating!Release(c) /\ \E e \in Creating!Errors : Creating!Failed(c, r, e)
  <2>1. /\ CreateMoves(c) /\ s5'[c].pc \in {"done", "recover"} /\ s3' # c
        /\ s5'[c].answer \in Creating!Errors \/ s5'[c].answer = s5[c].answer
    BY <1>1, <1>3, CreateFailures, CreateLockFree
  <2> QED
    BY <1>1, <1>3, <2>1, CreateOver
<1> QED
  BY <1>2, <1>3 DEF Creating!InsertCell, Creating!Errors

(* It writes the cell's row, *)
LEMMA CreateCreateCellStep == ASSUME Creating!Inv, NEW c \in Creators, Creating!CreateCell(c) PROVE Creating!Inv'
<1>1. Creating!Shared \in BOOLEAN
  BY CreateSet DEF Creating!Inv, Creating!Typed
<1> QED
  BY <1>1, CreateInsertCellKeeps DEF Creating!CreateCell, Creating!InsertCell, Creating!At,
    Creating!Working, Creating!Steps

(* as does one that resumes, *)
LEMMA CreateResumeCellStep == ASSUME Creating!Inv, NEW c \in Creators, Creating!ResumeCell(c) PROVE Creating!Inv'
<1>1. Creating!Shared \in BOOLEAN
  BY CreateSet DEF Creating!Inv, Creating!Typed
<1> QED
  BY <1>1, CreateInsertCellKeeps DEF Creating!ResumeCell, Creating!InsertCell, Creating!At,
    Creating!Working, Creating!Steps

(* The COMMIT of a cell of its own. *)
LEMMA CreateCommitCellKeeps ==
  ASSUME Creating!Inv, NEW c \in Creators, NEW r \in BOOLEAN, NEW step \in {"commitCell", "resumeCommitCell"},
         NEW after \in {"commitDir", "resumeCommit"}, Creating!CommitCellTx(c, step, after, r)
  PROVE  Creating!Inv'
<1> USE CreateApart
<1>1. /\ Creating!Typed /\ Creating!RowOK /\ Creating!CallOK(c) /\ c \in s11.callers /\ Creating!Working(c) /\ Creating!Mine(c) /\ Creating!Taken /\ ~Creating!Shared
      /\ UNCHANGED <<s1, Creating!world, s6, s7>> /\ (Creating!Fault \/ Creating!NoFault)
  BY DEF Creating!Inv, Creating!CommitCellTx, Creating!Working, Creating!CallOK, Creating!At
<1>2. Creating!Accounts' = Creating!Accounts /\ s10' \in 0 .. Creating!MaxFaults' /\ s1.owner \in Creating!Accounts
  BY <1>1, CreateFaults DEF Creating!Accounts, Creating!world, Creating!RowOK, Creating!Typed
<1>3. CASE s2' = OwnerOf[c] /\ s4' = None /\ s3' = s3 /\ Creating!Go(c, after) /\ Creating!Current(c)
  <2>1. CreateMoves(c) /\ s5'[c].pc = after /\ s5'[c].answer = s5[c].answer
    BY <1>1, <1>3, CreateGoes DEF Creating!Steps
  <2>2. Creating!Typed'
    BY <1>1, <1>2, <1>3, <2>1 DEF Creating!Typed, CreateMoves, Creating!world, Creating!Mine
  <2>3. \A d \in Creators : d # c => (s4' = d <=> s4 = d)
    BY <1>1, <1>3 DEF Creating!CallOK, Creating!CommitCellTx, Creating!At
  <2>4. CreateBeside(c)
    BY <1>1, <1>3, <2>1, <2>3 DEF CreateBeside, CreateMoves, Creating!world
  <2>5. Creating!CallOK(c)'
    BY <1>1, <1>3, <2>1 DEF Creating!CallOK, Creating!Working, Creating!Mine, Creating!Taken,
      Creating!Shared, Creating!world
  <2> QED
    BY <1>1, <2>2, <2>4, <2>5, CreateKeeps DEF Creating!RowOK, Creating!world
<1>4. CASE /\ s2' \in {s2, OwnerOf[c]} /\ Creating!Release(c) /\ \E e \in Creating!Errors : Creating!Failed(c, r, e)
  <2>1. /\ CreateMoves(c) /\ s5'[c].pc \in {"done", "recover"} /\ s3' # c
        /\ s5'[c].answer \in Creating!Errors \/ s5'[c].answer = s5[c].answer
    BY <1>1, <1>4, CreateFailures, CreateLockFree
  <2>2. Creating!Typed'
    BY <1>1, <1>2, <1>4, <2>1 DEF Creating!Typed, CreateMoves, Creating!world, Creating!Mine,
      Creating!Release
  <2>3. CreateBeside(c)
    BY <1>1, <1>4, <2>1 DEF CreateBeside, CreateMoves, Creating!world, Creating!Release,
      Creating!Typed
  <2>4. Creating!CallOK(c)'
    BY <1>1, <1>4, <2>1 DEF Creating!CallOK, Creating!Working, Creating!Mine, Creating!Taken,
      Creating!Shared, Creating!Errors, Creating!world
  <2> QED
    BY <1>1, <2>2, <2>3, <2>4, CreateKeeps DEF Creating!RowOK, Creating!world
<1> QED
  BY <1>3, <1>4 DEF Creating!CommitCellTx, Creating!Errors

(* and commits it, *)
LEMMA CreateCommitCellStep == ASSUME Creating!Inv, NEW c \in Creators, Creating!CommitCell(c) PROVE Creating!Inv'
BY CreateCommitCellKeeps DEF Creating!CommitCell

(* in the cell's own database. *)
LEMMA CreateResumeCommitCellStep == ASSUME Creating!Inv, NEW c \in Creators, Creating!ResumeCommitCell(c) PROVE Creating!Inv'
BY CreateCommitCellKeeps DEF Creating!ResumeCommitCell


(* It commits the reservation. *)
LEMMA CreateCommitDirStep == ASSUME Creating!Inv, NEW c \in Creators, Creating!CommitDir(c) PROVE Creating!Inv'
<1> USE CreateApart
<1>1. /\ Creating!Typed /\ Creating!RowOK /\ Creating!CallOK(c) /\ c \in s11.callers /\ Creating!Working(c) /\ Creating!Mine(c) /\ Creating!Taken
      /\ s5[c].pc = "commitDir" /\ Creating!Release(c) /\ UNCHANGED <<s1, Creating!world, s6, s7>> /\ (Creating!Fault \/ Creating!NoFault)
  BY DEF Creating!Inv, Creating!CommitDir, Creating!Working, Creating!CallOK, Creating!At
<1>2. Creating!Accounts' = Creating!Accounts /\ s10' \in 0 .. Creating!MaxFaults' /\ s1.owner \in Creating!Accounts /\ s3' # c
  BY <1>1, CreateFaults, CreateLockFree DEF Creating!Accounts, Creating!world, Creating!RowOK,
    Creating!Typed
<1>3. /\ CreateMoves(c) /\ s5'[c].pc \in {"publish", "recover"} /\ s5'[c].answer = s5[c].answer
  BY <1>1, CreateGoes, CreateFails DEF Creating!CommitDir, Creating!Steps, Creating!Errors
<1>4. /\ s2' \in {s2, OwnerOf[c]} /\ (s2' # s2 => Creating!Shared /\ c \notin s7)
      /\ s5'[c].pc = "publish" => s2' = s1.owner
  <2>1. CASE Creating!Go(c, "publish") /\ s2' = (IF Creating!Shared THEN OwnerOf[c] ELSE s2) /\ c \notin s7
    BY <1>1, <2>1 DEF Creating!CallOK, Creating!Mine
  <2>2. CASE /\ Creating!Fail(c, "unknown") \/ Creating!Fail(c, "forbidden")
             /\ s2' = s2 \/ (Creating!Shared /\ c \notin s7 /\ s2' = OwnerOf[c])
    BY <1>1, <2>2, CreateFails DEF Creating!Errors
  <2> QED
    BY <2>1, <2>2 DEF Creating!CommitDir
<1>5. Creating!Typed'
  BY <1>1, <1>2, <1>3, <1>4 DEF Creating!Typed, CreateMoves, Creating!world, Creating!Mine,
    Creating!Release
<1>6. CreateBeside(c)
  BY <1>1, <1>3, <1>4 DEF CreateBeside, CreateMoves, Creating!world, Creating!Release,
    Creating!Typed
<1>7. Creating!CallOK(c)'
  BY <1>1, <1>2, <1>3, <1>4 DEF Creating!CallOK, Creating!Working, Creating!Mine, Creating!Taken,
    Creating!world
<1> QED
  BY <1>1, <1>5, <1>6, <1>7, CreateKeeps DEF Creating!RowOK, Creating!world

(* The row as published. *)
LEMMA CreatePublishedRow ==
  ASSUME Creating!Typed, s1' = Creating!Published
  PROVE  /\ s1'.life = "active" /\ s1'.owner = s1.owner /\ s1'.until = 0
         /\ s1' \in [life : Creating!Lifecycles, owner : Creating!Accounts \cup {None}, until : Nat]
         /\ 0 <= Creating!MaxTime + Lease
<1>1. 0 <= Creating!MaxTime + Lease
  <2>1. Creating!MaxTime \in Nat /\ Lease \in Nat
    BY CreateSet DEF Creating!Typed
  <2> QED
    BY <2>1
<1>2. s1 \in [life : Creating!Lifecycles, owner : Creating!Accounts \cup {None}, until : Nat]
  BY DEF Creating!Typed
<1>3. s1' = [life |-> "active", owner |-> s1.owner, until |-> 0]
  BY <1>2 DEF Creating!Published
<1> QED
  BY <1>1, <1>2, <1>3 DEF Creating!Lifecycles

(* It publishes the row. *)
LEMMA CreatePublishStep == ASSUME Creating!Inv, NEW c \in Creators, Creating!Publish(c) PROVE Creating!Inv'
<1> USE CreateApart
<1>1. /\ Creating!Typed /\ Creating!RowOK /\ Creating!CallOK(c) /\ c \in s11.callers /\ ~Creating!Working(c) /\ Creating!Mine(c) /\ Creating!Taken /\ s3 # c
      /\ s2 = s1.owner /\ Creating!Keep /\ UNCHANGED <<s2, Creating!world, s6, s7>> /\ (Creating!Fault \/ Creating!NoFault)
  BY DEF Creating!Inv, Creating!Publish, Creating!Working, Creating!CallOK, Creating!At
<1>2. CASE Creating!Fail(c, "forbidden") /\ UNCHANGED s1
  BY <1>1, <1>2, CreateFails, CreateOver DEF Creating!Errors, Creating!Keep, Creating!rows
<1>3. CASE Creating!Go(c, "readBack") /\ UNCHANGED s1
  BY <1>1, <1>3, CreateGoes, CreateOver DEF Creating!Steps, Creating!Keep, Creating!rows
<1>4. CASE /\ s1.life = "provisioning" /\ s3 = None /\ s1' = Creating!Published
           /\ Creating!Give(c) \/ Creating!Go(c, "readBack")
  <2>1. /\ CreateMoves(c) /\ s5'[c].pc \in {"done", "readBack"}
        /\ s5'[c].answer \in {"info", "forbidden"} \/ s5'[c].answer = s5[c].answer
    BY <1>1, <1>4, CreateGoes, CreateGiven DEF Creating!Steps
  <2>2. Creating!Accounts' = Creating!Accounts /\ s10' \in 0 .. Creating!MaxFaults'
    BY <1>1, CreateFaults DEF Creating!Accounts, Creating!world
  <2>3. Creating!Typed'
    BY <1>1, <1>4, <2>1, <2>2, CreatePublishedRow DEF Creating!Typed, CreateMoves, Creating!Keep,
      Creating!world
  <2>4. CreateBeside(c)
    BY <1>1, <1>4, <2>1 DEF CreateBeside, CreateMoves, Creating!Keep, Creating!world
  <2>5. Creating!CallOK(c)'
    BY <1>1, <1>4, <2>1, CreatePublishedRow DEF Creating!CallOK, Creating!Working, Creating!Mine,
      Creating!Taken, Creating!Keep, Creating!world
  <2> QED
    BY <1>1, <1>4, <2>3, <2>4, <2>5, CreateKeeps, CreatePublishedRow DEF Creating!world
<1> QED
  BY <1>2, <1>3, <1>4 DEF Creating!Publish

(* It reads back what a lost answer may have done, *)
LEMMA CreateReadBackStep == ASSUME Creating!Inv, NEW c \in Creators, Creating!ReadBack(c) PROVE Creating!Inv'
<1>1. /\ Creating!Typed /\ Creating!CallOK(c) /\ c \in s11.callers /\ ~Creating!Working(c) /\ s3 # c /\ s3' = s3
      /\ Creating!Keep /\ UNCHANGED <<Creating!rows, Creating!world, s6, s7>> /\ (Creating!Fault \/ Creating!NoFault)
  BY DEF Creating!Inv, Creating!ReadBack, Creating!Working, Creating!CallOK, Creating!At,
    Creating!Keep
<1>2. CASE Creating!Answer(c, "unknown")
  BY <1>1, <1>2, CreateAnswered, CreateOver DEF Creating!Answers, Creating!Errors
<1>3. CASE s1.life = "active" /\ Creating!Mine(c) /\ Creating!Give(c)
  <2>1. CreateMoves(c) /\ s5'[c].pc = "done" /\ s5'[c].answer \in {"info", "forbidden"}
    BY <1>1, <1>3, CreateGiven
  <2> QED
    BY <1>1, <1>3, <2>1, CreateOver DEF Creating!Errors
<1> QED
  BY <1>2, <1>3 DEF Creating!ReadBack

(* or fails to. *)
LEMMA CreateRecoverFailedStep == ASSUME Creating!Inv, NEW c \in Creators, Creating!RecoverFailed(c) PROVE Creating!Inv'
<1>1. /\ Creating!Typed /\ Creating!CallOK(c) /\ c \in s11.callers /\ ~Creating!Working(c) /\ s3 # c /\ s3' = s3
      /\ Creating!Keep /\ UNCHANGED <<Creating!rows, Creating!world, s6, s7>> /\ (Creating!Fault \/ Creating!NoFault)
  BY DEF Creating!Inv, Creating!RecoverFailed, Creating!Working, Creating!CallOK, Creating!At,
    Creating!Keep
<1>2. CASE Creating!Answer(c, Creating!Thrown(c))
  BY <1>1, <1>2, CreateThrows, CreateOver
<1>3. CASE Creating!Found(c, Creating!Answer(c, Creating!Thrown(c))) /\ Creating!NoFault
  BY <1>1, <1>3, CreateFoundKeeps
<1> QED
  BY <1>2, <1>3 DEF Creating!RecoverFailed

(* A retry locks the row, *)
LEMMA CreateResumeLockStep == ASSUME Creating!Inv, NEW c \in Creators, Creating!ResumeLock(c) PROVE Creating!Inv'
<1> USE CreateApart
<1>1. /\ Creating!Typed /\ Creating!RowOK /\ Creating!CallOK(c) /\ c \in s11.callers /\ ~Creating!Working(c) /\ Creating!Mine(c) /\ Creating!Taken
      /\ s3 = None /\ Creating!NoFault /\ s7' = s7 \ {c} /\ UNCHANGED <<Creating!rows, s4, Creating!world, s6>>
  BY DEF Creating!Inv, Creating!ResumeLock, Creating!Working, Creating!CallOK, Creating!At
<1>2. Creating!Accounts' = Creating!Accounts /\ s10' \in 0 .. Creating!MaxFaults'
  BY <1>1, CreateFaults DEF Creating!Accounts, Creating!world
<1>3. /\ CreateMoves(c)
      /\ \/ s3' = s3 /\ s5'[c].pc = "done"
            /\ \/ s5'[c].answer \in Creating!Errors
               \/ s5'[c].answer = "conflict" /\ (s1.life = "deleted" \/ ~Creating!Mine(c))
               \/ s5'[c].answer = "info" /\ s1.life = "active"
         \/ /\ s3' = c /\ s1.life = "provisioning" /\ s5'[c].pc = "resumeRead" /\ s5'[c].answer = s5[c].answer
  <2>1. CASE Creating!ResumeFailed(c, "forbidden") /\ UNCHANGED s3
    BY <1>1, <2>1, CreateResumeFails DEF Creating!Errors
  <2>2. CASE Creating!ResumeFailed(c, "conflict") /\ UNCHANGED s3 /\ (s1.life = "deleted" \/ ~Creating!Mine(c))
    BY <1>1, <2>2, CreateResumeFails
  <2>3. CASE s1.life = "active" /\ Creating!Give(c) /\ UNCHANGED s3
    BY <1>1, <2>3, CreateGiven DEF Creating!Errors
  <2>4. CASE s1.life = "provisioning" /\ s3' = c /\ Creating!Go(c, "resumeRead")
    BY <1>1, <2>4, CreateGoes DEF Creating!Steps
  <2> QED
    BY <2>1, <2>2, <2>3, <2>4 DEF Creating!ResumeLock
<1>4. Creating!Typed'
  BY <1>1, <1>2, <1>3 DEF Creating!Typed, CreateMoves, Creating!rows, Creating!world
<1>5. CreateBeside(c)
  BY <1>1, <1>3 DEF CreateBeside, CreateMoves, Creating!rows, Creating!world
<1>6. Creating!CallOK(c)'
  BY <1>1, <1>3 DEF Creating!CallOK, Creating!Working, Creating!Mine, Creating!Taken,
    Creating!Errors, Creating!rows, Creating!world
<1> QED
  BY <1>1, <1>4, <1>5, <1>6, CreateKeeps DEF Creating!RowOK, Creating!rows, Creating!world

(* reads it and the cell, *)
LEMMA CreateResumeReadStep == ASSUME Creating!Inv, NEW c \in Creators, Creating!ResumeRead(c) PROVE Creating!Inv'
<1> USE CreateApart
<1>1. /\ Creating!Typed /\ Creating!RowOK /\ Creating!CallOK(c) /\ c \in s11.callers /\ Creating!Working(c) /\ Creating!Mine(c) /\ Creating!Taken
      /\ Creating!NoFault /\ UNCHANGED <<Creating!rows, Creating!world, s6, s7>> /\ s5[c].pc = "resumeRead"
  BY DEF Creating!Inv, Creating!ResumeRead, Creating!Working, Creating!CallOK, Creating!At
<1>2. CASE Creating!Go(c, "resumeCell") /\ Creating!Keep
  <2>1. CreateMoves(c) /\ s5'[c].pc = "resumeCell" /\ s5'[c].answer = s5[c].answer
    BY <1>1, <1>2, CreateGoes DEF Creating!Steps
  <2>2. Creating!CallOK(c)'
    BY <1>1, <1>2, <2>1 DEF Creating!CallOK, Creating!Working, Creating!Mine, Creating!Taken,
      Creating!Keep, Creating!rows, Creating!world
  <2> QED
    BY <1>1, <1>2, <2>1, <2>2, CreateQuiet
<1>3. CASE s2 = OwnerOf[c] /\ Creating!Go(c, "resumeCommit") /\ Creating!Keep
  <2>1. CreateMoves(c) /\ s5'[c].pc = "resumeCommit" /\ s5'[c].answer = s5[c].answer
    BY <1>1, <1>3, CreateGoes DEF Creating!Steps
  <2>2. Creating!CallOK(c)'
    BY <1>1, <1>3, <2>1 DEF Creating!CallOK, Creating!Working, Creating!Mine, Creating!Taken,
      Creating!Keep, Creating!rows, Creating!world
  <2> QED
    BY <1>1, <1>3, <2>1, <2>2, CreateQuiet
<1>4. CASE Creating!ResumeFailed(c, "stale") /\ Creating!Release(c)
  BY <1>1, <1>4, CreateResumeFails, CreateLockFree, CreateOver DEF Creating!Errors
<1> QED
  BY <1>2, <1>3, <1>4 DEF Creating!ResumeRead

(* and commits what it found. *)
LEMMA CreateResumeCommitStep == ASSUME Creating!Inv, NEW c \in Creators, Creating!ResumeCommit(c) PROVE Creating!Inv'
<1> USE CreateApart
<1>1. /\ Creating!Typed /\ Creating!RowOK /\ Creating!CallOK(c) /\ c \in s11.callers /\ Creating!Working(c) /\ Creating!Mine(c) /\ Creating!Taken
      /\ (Creating!Fault \/ Creating!NoFault) /\ Creating!Release(c) /\ s3' # c /\ UNCHANGED <<Creating!world, s6, s7>>
      /\ s5[c].pc = "resumeCommit"
  BY CreateLockFree DEF Creating!Inv, Creating!ResumeCommit, Creating!Working, Creating!CallOK,
    Creating!At
<1>2. CASE UNCHANGED Creating!rows /\ \E e \in Creating!Errors : Creating!ResumeFailed(c, e)
  <2>1. CreateMoves(c) /\ s5'[c].pc = "done" /\ s5'[c].answer \in Creating!Errors
    BY <1>1, <1>2, CreateResumeFails
  <2> QED
    BY <1>1, <1>2, <2>1, CreateOver
<1>3. CASE /\ c \notin s7 /\ s1' = Creating!Published /\ s2' = IF s4 = c THEN OwnerOf[c] ELSE s2
           /\ Creating!Give(c) \/ Creating!ResumeFailed(c, "unknown")
  <2>1. CreateMoves(c) /\ s5'[c].pc = "done" /\ s5'[c].answer \in Creating!Errors \cup {"info"}
    BY <1>1, <1>3, CreateGiven, CreateResumeFails DEF Creating!Errors
  <2>2. Creating!Accounts' = Creating!Accounts /\ s10' \in 0 .. Creating!MaxFaults' /\ s1.owner \in Creating!Accounts
    BY <1>1, CreateFaults DEF Creating!Accounts, Creating!world, Creating!RowOK, Creating!Typed
  <2>3. s2' = s1.owner /\ s1.life = "provisioning" /\ s3 = c
    BY <1>1, <1>3 DEF Creating!CallOK, Creating!Mine
  <2>4. Creating!Typed'
    BY <1>1, <1>3, <2>1, <2>2, <2>3, CreatePublishedRow DEF Creating!Typed, CreateMoves,
      Creating!Release, Creating!world
  <2>5. CreateBeside(c)
    BY <1>1, <1>3, <2>1, <2>3 DEF CreateBeside, CreateMoves, Creating!Release, Creating!Typed,
      Creating!Mine, Creating!world
  <2>6. Creating!CallOK(c)'
    BY <1>1, <1>3, <2>1, <2>3, CreatePublishedRow DEF Creating!CallOK, Creating!Working,
      Creating!Mine, Creating!Taken, Creating!Errors, Creating!world
  <2> QED
    BY <1>1, <1>3, <2>4, <2>5, <2>6, CreateKeeps, CreatePublishedRow DEF Creating!world
<1> QED
  BY <1>2, <1>3 DEF Creating!ResumeCommit, Creating!Errors

(* A call may crash, *)
LEMMA CreateCrashStep == ASSUME Creating!Inv, NEW c \in Creators, Creating!Crash(c) PROVE Creating!Inv'
<1>1. /\ Creating!Typed /\ Creating!CallOK(c) /\ c \in s11.callers /\ Creating!Fault /\ Creating!Release(c) /\ Creating!Answer(c, "unknown")
      /\ UNCHANGED <<Creating!rows, Creating!world, s6, s7>>
  BY DEF Creating!Inv, Creating!Crash, Creating!At, Creating!CallOK
<1> QED
  BY <1>1, CreateAnswered, CreateLockFree, CreateOver DEF Creating!Answers, Creating!Errors

(* or lose its control connection alone. *)
LEMMA CreateLoseLinkStep == ASSUME Creating!Inv, NEW c \in Creators, Creating!LoseLink(c) PROVE Creating!Inv'
<1> USE CreateApart
<1>1. /\ Creating!Typed /\ Creating!RowOK /\ Creating!CallOK(c) /\ Creating!Fault /\ Creating!LinksBreak /\ s3 = c /\ s3' = None
      /\ s7' = s7 \cup {c} /\ s4' = (IF Creating!Shared /\ s4 = c THEN None ELSE s4)
      /\ UNCHANGED <<Creating!rows, s5, Creating!world, s6>>
  BY DEF Creating!Inv, Creating!LoseLink
<1>2. Creating!Accounts' = Creating!Accounts /\ s10' \in 0 .. Creating!MaxFaults'
  BY <1>1, CreateFaults DEF Creating!Accounts, Creating!world
<1>3. Creating!Typed'
  BY <1>1, <1>2 DEF Creating!Typed, Creating!rows, Creating!world
<1>4. CreateBeside(c)
  BY <1>1 DEF CreateBeside, Creating!rows, Creating!world
<1>5. Creating!CallOK(c)'
  BY <1>1 DEF Creating!CallOK, Creating!Working, Creating!Mine, Creating!Taken, Creating!Shared,
    Creating!rows, Creating!world
<1> QED
  BY <1>1, <1>3, <1>4, <1>5, CreateKeeps DEF Creating!RowOK, Creating!rows, Creating!world

----------------------------------------------------------------------------
(* Listings *)

(* The row as a listing settles it. *)
LEMMA CreateSettledRow ==
  ASSUME NEW O, NEW d \in [life : Creating!Lifecycles, owner : O, until : Nat], NEW x \in {"active", "deleted"}
  PROVE  LET s == [d EXCEPT !.life = x, !.until = 0]
         IN  s.life = x /\ s.owner = d.owner /\ s.until = 0 /\ s \in [life : Creating!Lifecycles, owner : O, until : Nat]
BY DEF Creating!Lifecycles

(* A step of a listing: calls see at most that a pending row is settled, while
   the listing held its lock. *)
LEMMA CreateListKeeps ==
  ASSUME Creating!Inv, NEW l \in Listers, NEW x \in {"idle", "met", "read", "active", "deleted"},
         s6' = [s6 EXCEPT ![l] = x], UNCHANGED <<s2, s4, s5, Creating!world, s7>>, Creating!Fault \/ Creating!NoFault,
         \/ s1' = s1
         \/ /\ s3 = l /\ s1.life = "provisioning" /\ s6[l] \in {"active", "deleted"}
            /\ s1' = [s1 EXCEPT !.life = s6[l], !.until = 0],
         \/ s3' = s3 /\ (s3 = l <=> x \in Creating!Reads)
         \/ s3 \in {l, None} /\ s3' = (IF x \in Creating!Reads THEN l ELSE None),
         Creating!ListOK(l)'
  PROVE  Creating!Inv'
<1> USE CreateApart
<1>1. Creating!Typed /\ Creating!RowOK /\ Creating!ListOK(l)
  BY DEF Creating!Inv
<1>2. Creating!MaxTime \in Nat /\ Lease \in Nat /\ Creating!MaxTime' = Creating!MaxTime /\ Creating!LockLasts' = Creating!LockLasts /\ Creating!Accounts' = Creating!Accounts
  BY <1>1, CreateSet DEF Creating!Typed, Creating!MaxTime, Creating!LockLasts, Creating!Shared,
    Creating!LinksBreak, Creating!Accounts, Creating!world
<1>3. /\ s1'.owner = s1.owner /\ s1' \in [life : Creating!Lifecycles, owner : Creating!Accounts \cup {None}, until : Nat]
      /\ s1' = s1 \/ (s1'.life = s6[l] /\ s1'.until = 0)
  <2>1. s1 \in [life : Creating!Lifecycles, owner : Creating!Accounts \cup {None}, until : Nat]
    BY <1>1 DEF Creating!Typed
  <2>2. CASE s1' = s1
    BY <2>1, <2>2
  <2>3. CASE s1' = [s1 EXCEPT !.life = s6[l], !.until = 0] /\ s6[l] \in {"active", "deleted"}
    BY <2>1, <2>3, CreateSettledRow
  <2> QED
    BY <2>2, <2>3
<1>4. s10' \in 0 .. Creating!MaxFaults'
  BY <1>1, CreateFaults DEF Creating!world
<1>5. Creating!Typed'
  BY <1>1, <1>2, <1>3, <1>4 DEF Creating!Typed, Creating!world
<1>6. Creating!RowOK'
  BY <1>1, <1>2, <1>3 DEF Creating!RowOK, Creating!Taken, Creating!ServedMeansCell,
    Creating!RetiredMeansNoCell, Creating!ListOK, Creating!LinksBreak, Creating!world
<1>7. ASSUME NEW c \in Creators PROVE Creating!CallOK(c)'
  <2>1. Creating!CallOK(c) /\ (s3' = c <=> s3 = c) /\ Creating!Shared' = Creating!Shared
    BY DEF Creating!Inv, Creating!Shared, Creating!world
  <2>2. s1' # s1 => s3 # c /\ s1.life = "provisioning"
    BY <1>1
  <2> QED
    BY <1>3, <2>1, <2>2 DEF Creating!CallOK, Creating!Working, Creating!Mine, Creating!Taken,
      Creating!world
<1>8. ASSUME NEW k \in Listers PROVE Creating!ListOK(k)'
  <2>1. CASE k = l
    BY <2>1
  <2>2. CASE k # l
    <3>1. s6'[k] = s6[k] /\ (s3' = k <=> s3 = k) /\ Creating!ListOK(k)
      BY <1>1, <2>2 DEF Creating!Inv, Creating!Typed
    <3>2. s1' # s1 => s3 # k
      BY <2>2
    <3> QED
      BY <1>2, <1>3, <3>1, <3>2 DEF Creating!ListOK, Creating!world
  <2> QED
    BY <2>1, <2>2
<1> QED
  BY <1>5, <1>6, <1>7, <1>8 DEF Creating!Inv

(* A listing meets the row, reads and settles it. *)
LEMMA CreateListSteps == ASSUME Creating!Inv, NEW l \in Listers, Creating!ListStep(l) PROVE Creating!Inv'
<1> USE CreateApart
<1>1. Creating!Typed /\ Creating!RowOK /\ Creating!ListOK(l) /\ s6 \in [Listers -> {"idle", "met", "read", "active", "deleted"}]
  BY DEF Creating!Inv, Creating!Typed
<1>3. CASE Creating!Meet(l)
  <2>1. Creating!ListOK(l)'
    BY <1>1, <1>3 DEF Creating!Meet, Creating!ListOK, Creating!Reads, Creating!Keep, Creating!rows
  <2> QED
    BY <1>1, <1>3, <2>1, CreateListKeeps DEF Creating!Meet, Creating!Keep, Creating!rows,
      Creating!ListOK, Creating!Reads
<1>4. CASE Creating!Recover(l)
  <2>1. Creating!ListOK(l)'
    BY <1>1, <1>4 DEF Creating!Recover, Creating!Abandoned, Creating!ListOK, Creating!Reads,
      Creating!rows, Creating!world
  <2>2. CASE Creating!Abandoned
    BY <1>1, <1>4, <2>1, <2>2, CreateListKeeps DEF Creating!Recover, Creating!rows, Creating!ListOK,
      Creating!Reads
  <2>3. CASE ~Creating!Abandoned
    BY <1>1, <1>4, <2>1, <2>3, CreateListKeeps DEF Creating!Recover, Creating!rows, Creating!ListOK,
      Creating!Reads
  <2> QED
    BY <2>2, <2>3
<1>5. CASE Creating!RecoverRead(l)
  <2>1. Creating!LockLasts' = Creating!LockLasts /\ s3 = l
    BY <1>1, <1>5 DEF Creating!RecoverRead, Creating!LockLasts, Creating!Shared,
      Creating!LinksBreak, Creating!world, Creating!ListOK, Creating!Reads
  <2>2. CASE s2 \in {None, s1.owner}
    <3>1. Creating!ListOK(l)'
      BY <1>1, <1>5, <2>1, <2>2 DEF Creating!RecoverRead, Creating!ListOK, Creating!Reads,
        Creating!rows, Creating!world
    <3> QED
      BY <1>1, <1>5, <2>1, <2>2, <3>1, CreateListKeeps DEF Creating!RecoverRead, Creating!rows,
        Creating!Reads
  <2>3. CASE s2 \notin {None, s1.owner}
    BY <1>1, <2>3 DEF Creating!RowOK
  <2> QED
    BY <2>2, <2>3
<1>6. CASE Creating!RecoverCommit(l)
  <2>1. s3 = l /\ s1.life = "provisioning"
    BY <1>1, <1>6 DEF Creating!RecoverCommit, Creating!ListOK, Creating!Reads
  <2>2. Creating!ListOK(l)'
    BY <1>1, <1>6, <2>1 DEF Creating!RecoverCommit, Creating!ListOK, Creating!Reads
  <2> QED
    BY <1>1, <1>6, <2>1, <2>2, CreateListKeeps DEF Creating!RecoverCommit, Creating!Reads
<1> QED
  BY <1>3, <1>4, <1>5, <1>6 DEF Creating!ListStep

(* Time goes on, and a session ends. *)
LEMMA CreateWorldStep ==
  ASSUME Creating!Inv, UNCHANGED <<Creating!rows, s3, s4, s5, s6, s7, s10, s11>>,
         s8' \subseteq s8, s9' \in Nat, s9 <= s9', s9' <= Creating!MaxTime + Lease, ~Creating!Taken => s9' <= Creating!MaxTime
  PROVE  Creating!Inv'
<1>1. Creating!Accounts' = Creating!Accounts /\ Creating!LockLasts' = Creating!LockLasts /\ Creating!MaxTime' = Creating!MaxTime /\ Creating!Shared' = Creating!Shared
  BY DEF Creating!Accounts, Creating!LockLasts, Creating!Shared, Creating!LinksBreak, Creating!MaxTime
<1>2. Creating!Typed'
  BY <1>1 DEF Creating!Inv, Creating!Typed, Creating!rows, Creating!MaxFaults
<1>3. Creating!RowOK'
  BY <1>1 DEF Creating!Inv, Creating!RowOK, Creating!Taken, Creating!ServedMeansCell,
    Creating!RetiredMeansNoCell, Creating!rows, Creating!LinksBreak
<1>4. \A c \in Creators : Creating!CallOK(c)'
  BY <1>1 DEF Creating!Inv, Creating!CallOK, Creating!Working, Creating!Mine, Creating!Taken,
    Creating!rows
<1>5. ASSUME NEW l \in Listers PROVE Creating!ListOK(l)'
  <2>1. Creating!ListOK(l) /\ s1.until \in Nat /\ s9 \in Nat
    BY DEF Creating!Inv, Creating!Typed
  <2> QED
    BY <1>1, <2>1 DEF Creating!ListOK, Creating!rows
<1> QED
  BY <1>2, <1>3, <1>4, <1>5 DEF Creating!Inv

(* Every step keeps the invariant. *)
LEMMA CreateNextInv == Creating!Inv /\ [Creating!Next]_(Creating!vars) => Creating!Inv'
<1> SUFFICES ASSUME Creating!Inv, [Creating!Next]_(Creating!vars) PROVE Creating!Inv'
  OBVIOUS
<1>1. ASSUME NEW c \in Creators, Creating!CreateStep(c) PROVE Creating!Inv'
  BY <1>1, CreateBeginStep, CreateInsertStep, CreateLockStep, CreateCreateCellStep,
    CreateCommitCellStep, CreateCommitDirStep, CreatePublishStep, CreateReadBackStep,
     CreateRecoverFailedStep, CreateResumeLockStep, CreateResumeReadStep, CreateResumeCellStep, CreateResumeCommitCellStep, CreateResumeCommitStep
  DEF Creating!CreateStep
<1>2. s9 \in Nat /\ s9 <= Creating!MaxTime + Lease /\ (~Creating!Taken => s9 <= Creating!MaxTime) /\ s1.until \in Nat
      /\ Creating!MaxTime \in Nat /\ Lease \in Nat /\ s1.until <= Creating!MaxTime + Lease /\ (s1.until # 0 => Creating!Taken)
  BY CreateSet DEF Creating!Inv, Creating!Typed, Creating!RowOK, Creating!Taken
<1>3. ASSUME NEW o \in Creating!Accounts, Creating!EndSession(o) PROVE Creating!Inv'
  BY <1>2, <1>3, CreateWorldStep DEF Creating!EndSession
<1>4. CASE Creating!Tick
  <2>1. s9' \in Nat /\ s9 <= s9' /\ s9' <= Creating!MaxTime + Lease /\ (~Creating!Taken => s9' <= Creating!MaxTime)
    BY <1>2, <1>4 DEF Creating!Tick
  <2> QED
    BY <1>4, <2>1, CreateWorldStep DEF Creating!Tick
<1>5. CASE UNCHANGED Creating!vars
  BY <1>2, <1>5, CreateWorldStep DEF Creating!vars, Creating!rows
<1> QED
  BY <1>1, <1>3, <1>4, <1>5, CreateCrashStep, CreateLoseLinkStep, CreateListSteps DEF Creating!Next,
    Creating!Finished

(* What the invariant tells. *)
LEMMA CreatePromises ==
  ASSUME Creating!Inv
  PROVE  Creating!TypeOK /\ Creating!ServedMeansCell /\ Creating!AnswersHold /\ (Creating!LockLasts => Creating!RetiredMeansNoCell)
BY CreateInvTypes DEF Creating!Inv, Creating!RowOK, Creating!CallOK, Creating!AnswersHold

(* The row is retired by a listing, whose lock no call has. *)
LEMMA CreateRetires ==
  ASSUME Creating!Inv, Creating!Next
  PROVE  Creating!RetiredWhenAbandoned
<1> SUFFICES ASSUME s1.life = "provisioning", s1'.life = "deleted"
             PROVE  s1.until <= s9 /\ \A c \in Creators \ s7 : ~Creating!Working(c)
  BY DEF Creating!RetiredWhenAbandoned
<1> USE CreateApart
<1>1. ASSUME NEW l \in Listers, Creating!RecoverCommit(l) PROVE s1.until <= s9 /\ \A c \in Creators \ s7 : ~Creating!Working(c)
  <2>1. Creating!ListOK(l) /\ s6[l] \in Creating!Reads /\ \A c \in Creators : Creating!CallOK(c)
    BY <1>1 DEF Creating!Inv, Creating!RecoverCommit, Creating!Reads
  <2> QED
    BY <2>1 DEF Creating!ListOK, Creating!CallOK
<1>2. ASSUME NEW c \in Creators, s1' \in {s1, Creating!Reservation(c), Creating!Published} PROVE FALSE
  <2>1. s1 \in [life : Creating!Lifecycles, owner : Creating!Accounts \cup {None}, until : Nat]
    BY DEF Creating!Inv, Creating!Typed
  <2>2. Creating!Published.life = "active" /\ Creating!Reservation(c).life = "provisioning"
    BY <2>1 DEF Creating!Reservation, Creating!Published
  <2> QED
    BY <1>2, <2>2
<1>3. ASSUME NEW c \in Creators, Creating!CreateStep(c) \/ Creating!Crash(c) \/ Creating!LoseLink(c) PROVE FALSE
  <2>1. s1' \in {s1, Creating!Reservation(c), Creating!Published}
    BY <1>3 DEF Creating!CreateStep, Creating!Begin, Creating!Insert, Creating!Lock,
      Creating!CreateCell, Creating!CommitCell, Creating!InsertCell, Creating!CommitCellTx,
      Creating!CommitDir, Creating!Publish,
       Creating!ReadBack, Creating!RecoverFailed, Creating!ResumeLock, Creating!ResumeRead, Creating!ResumeCell, Creating!ResumeCommitCell, Creating!ResumeCommit, Creating!Crash, Creating!LoseLink, Creating!rows
  <2> QED
    BY <1>2, <2>1
<1> QED
  BY <1>1, <1>3 DEF Creating!Next, Creating!ListStep, Creating!Meet, Creating!Recover,
    Creating!RecoverRead, Creating!EndSession, Creating!Tick, Creating!Finished, Creating!rows,
    Creating!vars

----------------------------------------------------------------------------
(* The suite: a behaviour is one of its part, so what the parts' invariants tell
   the suite shows. *)

PartsHold ==
  /\ part = "admission" => AdmitInv
  /\ part = "keys" => Issuing!Inv
  /\ part = "creation" => Creating!Inv
  /\ part = "texts" => Inv
  /\ part = "removals" => Removing!Inv
  /\ part = "space" => Purging!Inv

(* A step of the suite keeps its part, and is a step of it. *)
LEMMA PartSteps ==
  ASSUME [SuiteNext]_all
  PROVE  /\ part' = part
         /\ part = "admission" => [Admitting!Next]_(Admitting!vars)
         /\ part = "keys" => [Issuing!Next]_(Issuing!vars)
         /\ part = "creation" => [Creating!Next]_(Creating!vars)
         /\ part = "texts" => [Next]_vars
         /\ part = "removals" => [Removing!Next]_(Removing!vars)
         /\ part = "space" => [Purging!Next]_(Purging!vars)
<1>1. CASE UNCHANGED all
  BY <1>1 DEF all, slots, vars, Issuing!vars, Creating!vars, Admitting!vars, Removing!vars,
    Purging!vars
<1>2. CASE SuiteNext
  BY <1>2 DEF SuiteNext, Run, After7, After10, After11
<1> QED
  BY <1>1, <1>2

(* Every part starts within its invariant. *)
LEMMA PartsStart ==
  ASSUME SuiteInit
  PROVE  PartsHold
  BY AdmitInitInv, KeyInitInv, CreateInitInv, InitInv, RemoveInitInv, PurgeInitInv DEF SuiteInit,
    Start, Own, PartsHold

(* An ingestion's or an upload's step keeps its invariant. *)
LEMMA TextsKeep ==
  ASSUME Inv, [Next]_vars
  PROVE  Inv'
  BY NextIsStep, StutterIsStep, StepKeeps

(* Every step keeps that of its part. *)
LEMMA PartsKeep ==
  ASSUME PartsHold, [SuiteNext]_all
  PROVE  PartsHold'
<1>1. part' = part
  BY PartSteps
<1>2. ASSUME part = "admission" PROVE AdmitInv'
  BY <1>2, PartSteps, AdmitNextInv DEF PartsHold
<1>3. ASSUME part = "keys" PROVE Issuing!Inv'
  BY <1>3, PartSteps, KeyNextInv DEF PartsHold
<1>4. ASSUME part = "creation" PROVE Creating!Inv'
  BY <1>4, PartSteps, CreateNextInv DEF PartsHold
<1>5. ASSUME part = "texts" PROVE Inv'
  BY <1>5, PartSteps, TextsKeep DEF PartsHold
<1>6. ASSUME part = "removals" PROVE Removing!Inv'
  BY <1>6, PartSteps, RemoveNextInv DEF PartsHold
<1>7. ASSUME part = "space" PROVE Purging!Inv'
  BY <1>7, PartSteps, PurgeNextInv DEF PartsHold
<1> QED
  BY <1>1, <1>2, <1>3, <1>4, <1>5, <1>6, <1>7 DEF PartsHold

(* So every behaviour stays within them. *)
LEMMA PartsInvariant == SuiteSpec => []PartsHold
  BY PartsStart, PartsKeep, PTL DEF SuiteSpec

(* No issuance leaves a provider key behind that no journal row can find, none *)
(* answered is taken back while the space is open, none denied is granted, and *)
(* a deletion is published only once every key is revoked.                     *)
THEOREM KeysSafe == SuiteSpec => []KeysHold
<1>1. PartsHold => KeysHold
  BY KeyPromises DEF PartsHold, KeysHold
<1> QED
  BY <1>1, PartsInvariant, PTL

(* A published ID has its owner's row in the cell, whoever created, retried or *)
(* listed it and whatever answer was lost, what a call answered holds, and no  *)
(* creator commits a row behind a listing that retired its ID, unless it lost  *)
(* the lock of its reservation alone.                                          *)
THEOREM CreatedSafe == SuiteSpec => []CreatedIsServed
<1>1. PartsHold => CreatedIsServed
  BY CreatePromises DEF PartsHold, CreatedIsServed
<1> QED
  BY <1>1, PartsInvariant, PTL

(* An assertion is spent by the callback it enters, once, and its nonce tells *)
(* so until it ends: for any requests, assertions, clocks and joined calls.   *)
THEOREM SpentOnce == SuiteSpec => []AssertionsSpentOnce
<1>1. PartsHold => AssertionsSpentOnce
  BY AdmitPromises DEF PartsHold, AssertionsSpentOnce
<1> QED
  BY <1>1, PartsInvariant, PTL

(* Whatever was admitted was allowed until its COMMIT, commits whole, and is  *)
(* answered truly.                                                            *)
THEOREM AdmissionsSafe == SuiteSpec => []AdmissionsHold
<1>1. PartsHold => AdmissionsHold
  BY AdmitPromises DEF PartsHold, AdmissionsHold
<1> QED
  BY <1>1, PartsInvariant, PTL

(* A committed source keeps its bytes and is what every answer names; bytes    *)
(* read erased, of a source or of a space, are gone from the store but for     *)
(* what landed late and no sweep has found; and a deletion has one audit row.  *)
THEOREM BytesSafe == SuiteSpec => []BytesTold
<1>1. PartsHold => BytesTold
  <2>1. Inv => SourcesHold
    BY InvHolds
  <2>2. Removing!Inv => Removing!TypeOK /\ Removing!ErasedMeansGone
    BY DEF Removing!Inv
  <2>3. Purging!Inv => Purging!TypeOK /\ Purging!ErasedMeansGone /\ Purging!OneDeletionAudit
    BY DEF Purging!Inv
  <2> QED
    BY <2>1, <2>2, <2>3 DEF PartsHold, BytesTold
<1> QED
  BY <1>1, PartsInvariant, PTL

(* The ledger of the uploads, an erasure's progress and a deletion only move   *)
(* forward, and an ID is retired only once its claim has ended and nobody who  *)
(* holds its lock works on its cell.                                           *)
THEOREM ForwardSafe == SuiteSpec => OnlyForward
<1>1. ASSUME PartsHold, [SuiteNext]_all
      PROVE  [/\ part = "texts" => LedgerForward
              /\ part = "removals" => Removing!ProgressForward
              /\ part = "space" => Purging!DeletedStays
              /\ part = "creation" => Creating!RetiredWhenAbandoned]_all
  <2>1. CASE UNCHANGED all
    BY <2>1
  <2>2. CASE SuiteNext
    <3>1. ASSUME part = "texts" PROVE LedgerForward
      <4>1. Inv /\ Next
        BY <1>1, <2>2, <3>1 DEF PartsHold, SuiteNext, Run
      <4> QED
        BY <4>1, NextIsStep, StepForward
    <3>2. ASSUME part = "removals" PROVE Removing!ProgressForward
      BY <1>1, <3>2, PartSteps, RemoveForward DEF PartsHold
    <3>3. ASSUME part = "space" PROVE Purging!DeletedStays
      BY <1>1, <3>3, PartSteps, PurgeStays DEF PartsHold
    <3>4. ASSUME part = "creation" PROVE Creating!RetiredWhenAbandoned
      BY <1>1, <2>2, <3>4, CreateRetires DEF PartsHold, SuiteNext, Run
    <3> QED
      BY <3>1, <3>2, <3>3, <3>4
  <2> QED
    BY <1>1, <2>1, <2>2
<1> QED
  BY <1>1, PartsInvariant, PTL DEF SuiteSpec, OnlyForward
=============================================================================
