------------------------- MODULE CheckoutContract -------------------------
(***************************************************************************)
(* What a checkout promises about the money of each of its orders,         *)
(* whatever payment attempts, webhooks, polls and cancellations carry it   *)
(* out: the price is booked at most once, an order is offered to its       *)
(* seller only when it is booked, an order called off stays off, and only  *)
(* such an order is refunded, once, and never before it was booked.        *)
(*                                                                         *)
(* An order may be booked after it was called off: money that arrives late *)
(* is taken.  Payment is shown to implement this specification.            *)
(***************************************************************************)
EXTENDS Naturals

CONSTANT Orders     \* the orders of one checkout

VARIABLES
    phase,      \* of each order: "unpaid", "offered", "accepted" or "off"
    money       \* of each order: "none", "held" or "returned"

checkoutVars == <<phase, money>>

CheckoutInit ==
    /\ phase = [o \in Orders |-> "unpaid"]
    /\ money = [o \in Orders |-> "none"]

Move(o, from, to) ==
    /\ phase[o] = from
    /\ phase' = [phase EXCEPT ![o] = to]
    /\ UNCHANGED money

Book(o) ==
    /\ money[o] = "none"
    /\ money' = [money EXCEPT ![o] = "held"]
    /\ UNCHANGED phase

Offer(o) == money[o] = "held" /\ Move(o, "unpaid", "offered")

Accept(o) == Move(o, "offered", "accepted")

(* One transaction may call off every order nobody has accepted yet.       *)
CallOff(off) ==
    /\ \A o \in off : phase[o] # "off"
    /\ phase' = [o \in Orders |-> IF o \in off THEN "off" ELSE phase[o]]
    /\ UNCHANGED money

Return(o) ==
    /\ phase[o] = "off"
    /\ money[o] = "held"
    /\ money' = [money EXCEPT ![o] = "returned"]
    /\ UNCHANGED phase

CheckoutNext ==
    \/ \E o \in Orders : Book(o) \/ Offer(o) \/ Accept(o) \/ Return(o)
    \/ \E off \in SUBSET Orders : CallOff(off)

CheckoutSpec == CheckoutInit /\ [][CheckoutNext]_checkoutVars
============================================================================
