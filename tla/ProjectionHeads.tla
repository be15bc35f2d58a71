--------------------------- MODULE ProjectionHeads ---------------------------
(***************************************************************************)
(* What the projection outbox promises to the readers of projections: each *)
(* record has at most one projected revision, its head, which only names   *)
(* committed revisions, only moves forward, and is only moved under the    *)
(* space's current placement generation and while the space is open.       *)
(***************************************************************************)
EXTENDS Naturals

CONSTANTS Records, MaxRevision, MaxPlacement

VARIABLES committed, \* each record's latest committed revision, 0 for none
          placement, \* the space's placement generation
          open,      \* the space serves projection work
          head       \* each record's projected [gen, rev], zeros for none

vars == <<committed, placement, open, head>>

Init == /\ committed = [r \in Records |-> 0]
        /\ placement = 1
        /\ open = TRUE
        /\ head = [r \in Records |-> [gen |-> 0, rev |-> 0]]

Commit(r) == /\ open
             /\ committed[r] < MaxRevision
             /\ committed' = [committed EXCEPT ![r] = @ + 1]
             /\ UNCHANGED <<placement, open, head>>

(* Project revision v, or the same revision again under a newer placement. *)
Project(r, v) == /\ open
                 /\ v \in 1 .. committed[r]
                 /\ v >= head[r].rev
                 /\ head[r].gen < placement \/ v > head[r].rev
                 /\ head' = [head EXCEPT ![r] = [gen |-> placement, rev |-> v]]
                 /\ UNCHANGED <<committed, placement, open>>

Fence == /\ placement < MaxPlacement
         /\ placement' = placement + 1
         /\ UNCHANGED <<committed, open, head>>

OpenOrClose == /\ open' = ~open
               /\ UNCHANGED <<committed, placement, head>>

Next == \/ \E r \in Records : Commit(r)
        \/ \E r \in Records : \E v \in 1 .. MaxRevision : Project(r, v)
        \/ Fence
        \/ OpenOrClose

Spec == Init /\ [][Next]_vars
=============================================================================
