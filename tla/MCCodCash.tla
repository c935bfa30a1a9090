----------------------------- MODULE MCCodCash -----------------------------
(* Small instances of CodCash for TLC. *)
EXTENDS CodCash

CONSTANTS q1, q2

TwoRequests == {q1, q2}
============================================================================
