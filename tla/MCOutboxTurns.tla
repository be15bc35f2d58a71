---------------------------- MODULE MCOutboxTurns ----------------------------
(* One dispatcher, three pairs of one space and one of another, for TLC. *)
EXTENDS OutboxTurns, TLC

CONSTANTS d1

OneDispatcher == {d1}
ThreeAndOne == <<1, 1, 1, 2>>
=============================================================================
