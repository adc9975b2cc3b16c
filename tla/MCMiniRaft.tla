----------------------------- MODULE MCMiniRaft -----------------------------
(* Instances of MiniRaft for TLC. *)
EXTENDS Correctness, TLC

CONSTANTS a, b, c, w1

\* Sound where every server is Impatient and the properties are safety.
Symmetry == Permutations(Node)
=============================================================================
