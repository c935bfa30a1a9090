----------------------------- MODULE MCReturns -----------------------------
(* Small instances of Returns for TLC. *)
EXTENDS Returns, TLC

CONSTANTS q1, q2, w1

TwoRequests == {q1, q2}
OneWorker   == {w1}

Symmetric == Permutations(TwoRequests)
============================================================================
