--------------------------- MODULE OrderContract ---------------------------
(***************************************************************************)
(* What one order promises the people involved, whatever handlers, jobs    *)
(* and retries carry it out: the customer's goods are taken from the       *)
(* shelf once and put back at most once, and only if the order was called  *)
(* off; an order can be called off only before its seller has accepted it; *)
(* one rider claims it, keeps it and is the one who delivers it.           *)
(*                                                                         *)
(* OrderWorkflow is shown to implement this specification.                 *)
(***************************************************************************)
EXTENDS Naturals

CONSTANTS
    Riders,     \* the delivery partners that may claim the order
    NoRider     \* the value of rider before a claim

VARIABLES
    phase,      \* how far the order has come
    rider,      \* the delivery partner bound to it
    returned    \* how many times its goods went back to the shelf

contractVars == <<phase, rider, returned>>

Phase == {"unpaid", "offered", "accepted", "claimed", "collected",
          "delivered", "off"}

(* A cash order is offered to its seller at once, an online one when paid. *)
ContractInit ==
    /\ phase \in {"unpaid", "offered"}
    /\ rider = NoRider
    /\ returned = 0

Advance(from, to) ==
    /\ phase = from
    /\ phase' = to
    /\ UNCHANGED <<rider, returned>>

Offer   == Advance("unpaid", "offered")
Accept  == Advance("offered", "accepted")
Collect == Advance("claimed", "collected")
Deliver == Advance("collected", "delivered")

Claim(r) ==
    /\ phase = "accepted"
    /\ rider = NoRider
    /\ phase' = "claimed"
    /\ rider' = r
    /\ UNCHANGED returned

(* Called off; the goods may go back in the same transaction or later. *)
CallOff ==
    /\ phase \in {"unpaid", "offered"}
    /\ phase' = "off"
    /\ returned' \in {0, 1}
    /\ UNCHANGED rider

GiveBack ==
    /\ phase = "off"
    /\ returned = 0
    /\ returned' = 1
    /\ UNCHANGED <<phase, rider>>

ContractNext ==
    \/ Offer \/ Accept \/ Collect \/ Deliver
    \/ CallOff \/ GiveBack
    \/ \E r \in Riders : Claim(r)

ContractSpec == ContractInit /\ [][ContractNext]_contractVars
============================================================================
