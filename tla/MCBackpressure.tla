--------------------------- MODULE MCBackpressure ---------------------------
(* Instances of Backpressure for TLC. *)
EXTENDS Backpressure

CONSTANTS a, b, c, r1, r2, w1, client
=============================================================================
