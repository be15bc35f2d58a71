----------------------------- MODULE MCEventFeed -----------------------------
(* Two records that are revised and two clients that read, for TLC. *)
EXTENDS EventFeed, TLC

CONSTANTS r1, r2, c1, c2
=============================================================================
