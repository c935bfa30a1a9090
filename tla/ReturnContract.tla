--------------------------- MODULE ReturnContract ---------------------------
(***************************************************************************)
(* The life of a return: nobody loads an order and saves it later, so      *)
(* every step meets the return as it is.  The goods come back before they  *)
(* are checked, by the seller's own hand, a rider or the courier; a rider  *)
(* may give a pickup up; a return ends rejected, failed or refunded.  The  *)
(* customer gets the money once, after the check has passed, the seller    *)
(* loses it once at most, after that, and only a return that was refunded  *)
(* is completed.                                                           *)
(*                                                                         *)
(* Returns, used from the screens, is shown to implement it.               *)
(***************************************************************************)
EXTENDS Naturals

VARIABLES
    phase,          \* of the return
    refunds,        \* how often the customer got the money
    charged         \* how often the seller lost it

lifeVars == <<phase, refunds, charged>>

LifeInit == phase = "none" /\ refunds = 0 /\ charged = 0

Move(from, to) ==
    /\ phase \in from
    /\ phase' = to
    /\ UNCHANGED <<refunds, charged>>

Ask       == Move({"none"}, "asked")
Reject    == Move({"asked"}, "rejected")
Approve   == Move({"asked"}, "approved")
Assign    == Move({"asked", "approved"}, "assigned")
GiveUp    == Move({"assigned"}, "approved")
BringBack == Move({"approved", "assigned"}, "in transit")
Arrive    == Move({"approved", "in transit"}, "back")
Pass      == Move({"back"}, "passed")
Fail      == Move({"back"}, "failed")

Refund ==
    /\ phase = "passed"
    /\ refunds = 0
    /\ refunds' = 1
    /\ UNCHANGED <<phase, charged>>

ChargeSeller ==
    /\ phase = "passed"
    /\ refunds = 1 /\ charged = 0
    /\ charged' = 1
    /\ UNCHANGED <<phase, refunds>>

Complete == refunds = 1 /\ Move({"passed"}, "completed")

LifeNext ==
    \/ Ask \/ Reject \/ Approve
    \/ Assign \/ GiveUp \/ BringBack \/ Arrive
    \/ Pass \/ Fail
    \/ Refund \/ ChargeSeller \/ Complete

LifeSpec == LifeInit /\ [][LifeNext]_lifeVars
============================================================================
