------------------------- MODULE MCOrderWorkflow -------------------------
(* Small instances of OrderWorkflow for TLC. *)
EXTENDS OrderWorkflow, TLC

CONSTANTS r1, r2, t1, t2

OneRider  == {r1}
TwoRiders == {r1, r2}
NoTaps    == {}
OneTap    == {t1}
TwoTaps   == {t1, t2}

(* Riders and requests are interchangeable: no definition names one.       *)
Symmetry == Permutations({r1, r2}) \cup Permutations({t1, t2})
==========================================================================
