------------------------ MODULE MCSpaceProvisioning ------------------------
(* Small instances of SpaceProvisioning: an owner's calls and a listing. *)
EXTENDS SpaceProvisioning, TLC

CONSTANTS c1, c2, l1, alice

MCOwnerOf == [a \in Creators \cup Listers |-> alice]

(* The cell in a database of its own, and control connections that are lost alone. *)
MCSettings ==
    {[callers |-> {c1, c2}, selected |-> TRUE, shared |-> FALSE, breaks |-> TRUE, clock |-> 2, faults |-> 1]}
=============================================================================
