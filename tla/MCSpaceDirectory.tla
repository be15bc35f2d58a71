-------------------------- MODULE MCSpaceDirectory --------------------------
(* Two callers of one space's transitions, for TLC. *)
EXTENDS SpaceDirectory, TLC

CONSTANTS c1, c2
=============================================================================
