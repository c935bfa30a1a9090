------------------------- MODULE MCOrderStatusApi -------------------------
(* Small instances of OrderStatusApi for TLC. *)
EXTENDS OrderStatusApi

CONSTANTS r1, r2, t1, q1, q2

OneRider    == {r1}
TwoRiders   == {r1, r2}
OneTap      == {t1}
OneRequest  == {q1}
TwoRequests == {q1, q2}
===========================================================================
