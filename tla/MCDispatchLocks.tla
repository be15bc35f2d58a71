--------------------------- MODULE MCDispatchLocks ---------------------------
(* One claim and one completion against the purge of one space, for TLC. *)
EXTENDS DispatchLocks, TLC

CONSTANTS c1, t1
=============================================================================
