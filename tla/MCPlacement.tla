---------------------------- MODULE MCPlacement ----------------------------
(* Small instances of Placement for TLC. *)
EXTENDS Placement, TLC

CONSTANTS q1, q2, q3

ThreeRequests == {q1, q2, q3}

Symmetric == Permutations(ThreeRequests)
============================================================================
