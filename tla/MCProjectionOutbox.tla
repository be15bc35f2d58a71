------------------------- MODULE MCProjectionOutbox -------------------------
(* Two workers and a dispatcher of the projection outbox, for TLC. *)
EXTENDS ProjectionOutbox, TLC

CONSTANTS w1, w2, d1

Symmetry == Permutations(Workers)
=============================================================================
