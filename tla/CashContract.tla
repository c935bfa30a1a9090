---------------------------- MODULE CashContract ----------------------------
(***************************************************************************)
(* The way of the cash of one cash-on-delivery order.  It starts with the  *)
(* customer, has one holder for every part of it, and only moves towards   *)
(* admin: over the rider and the store, over the store whose own person    *)
(* delivers, or at once when the customer scans admin's code.  The rider's *)
(* earning is credited when the cash has left his hands or never came into *)
(* them, and the order is settled once, when admin has it all.             *)
(*                                                                         *)
(* CodCash, used from the screens, is shown to implement it.               *)
(***************************************************************************)
EXTENDS Naturals

CONSTANT Amount     \* of the order

VARIABLES
    courier,        \* who delivers: "platform" or "self"
    customer, rider, seller, admin,     \* how much of it each of them has
    earned,         \* the rider's earning is credited
    settled

custodyVars == <<courier, customer, rider, seller, admin, earned, settled>>

CustodyInit ==
    /\ courier \in {"platform", "self"}
    /\ customer = Amount
    /\ rider = 0 /\ seller = 0 /\ admin = 0
    /\ earned = FALSE
    /\ settled = FALSE

RiderCollects ==
    /\ courier = "platform"
    /\ customer = Amount
    /\ customer' = 0
    /\ rider' = Amount
    /\ UNCHANGED <<courier, seller, admin, earned, settled>>

StoreCollects ==
    /\ courier = "self"
    /\ customer = Amount
    /\ customer' = 0
    /\ seller' = Amount
    /\ UNCHANGED <<courier, rider, admin, earned, settled>>

CustomerScans ==
    /\ courier = "platform"
    /\ customer = Amount
    /\ customer' = 0
    /\ admin' = Amount
    /\ earned' = TRUE
    /\ UNCHANGED <<courier, rider, seller, settled>>

HandOver ==
    /\ rider = Amount
    /\ rider' = 0
    /\ seller' = Amount
    /\ earned' = TRUE
    /\ UNCHANGED <<courier, customer, admin, settled>>

Remit(n) ==
    /\ n <= seller
    /\ seller' = seller - n
    /\ admin' = admin + n
    /\ UNCHANGED <<courier, customer, rider, earned, settled>>

Settle ==
    /\ admin = Amount
    /\ ~settled
    /\ settled' = TRUE
    /\ UNCHANGED <<courier, customer, rider, seller, admin, earned>>

CustodyNext ==
    \/ RiderCollects \/ StoreCollects \/ CustomerScans \/ HandOver
    \/ \E n \in 1..Amount : Remit(n)
    \/ Settle

CustodySpec == CustodyInit /\ [][CustodyNext]_custodyVars
============================================================================
