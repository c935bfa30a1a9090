------------------------------ MODULE Payment ------------------------------
(***************************************************************************)
(* The online payment of one checkout: its orders, the payment documents   *)
(* (one per gateway order), the gateway, its webhooks, the customer's      *)
(* status checks, the customer who gives up, and the refund of an order    *)
(* that is called off.                                                     *)
(*                                                                         *)
(* The service reads a payment, decides, and saves it, with other handlers *)
(* in between: the last one to save wins.  After the save it goes through  *)
(* the orders one by one.  A handler whose process dies takes no further   *)
(* step: nothing here is fair.  The gateway sends every event at least     *)
(* once, in any order.                                                     *)
(*                                                                         *)
(* Left to OrderWorkflow: the stock and everything past the seller's       *)
(* acceptance.                                                             *)
(***************************************************************************)
EXTENDS Naturals, FiniteSets

CONSTANTS
    GroupSize,      \* number of orders in the checkout group
    MaxPayments,    \* bound: gateway orders the customer may start
    MaxTries,       \* bound: tries of the customer on one gateway order
    MaxEvents,      \* bound: webhook events sent for the checkout
    Handlers,       \* requests and webhooks the API may serve at once
    Funding         \* how the checkouts of an instance are paid

ASSUME GroupSizeAssumption == GroupSize \in Nat \ {0}
ASSUME PaymentsAssumption  == MaxPayments \in Nat \ {0}
ASSUME TriesAssumption     == MaxTries \in Nat \ {0}
ASSUME EventsAssumption    == MaxEvents \in Nat
ASSUME FundingAssumption   == Funding \subseteq {"gateway", "mixed", "wallet"}

Orders   == 1..GroupSize
Payments == 1..MaxPayments

VARIABLES
    funding,        \* paid at the gateway, from the wallet, or from both
    workflow,       \* workflowStatus of each order
    paymentStatus,  \* of each order
    captured,       \* orders whose onlinePaymentCaptured flag is set
    credits,        \* how often each order was credited to the admin wallet
    refunds,        \* how often the gateway refunded each order
    group,          \* status of the checkout group
    payment,        \* status of each Payment document, "none" before it
    gateway,        \* what the gateway knows of each gateway order
    tries,          \* tries of the customer on each gateway order
    events,         \* webhook events sent
    recorded,       \* events in PaymentWebhookEvent
    handler         \* what each handler is doing

orderVars   == <<workflow, paymentStatus, captured, credits>>
gatewayVars == <<gateway, tries, events>>

paymentVars == <<funding, orderVars, refunds, group, payment, gatewayVars,
                 recorded, handler>>

PAYMENT_STATUS ==
    {"PENDING", "AUTHORIZED", "CAPTURED", "FAILED", "CANCELLED", "REFUNDED"}

ORDER_PAYMENT_STATUS ==
    {"CREATED", "PAID", "FAILED", "REFUNDED", "REFUND_FAILED"}

Event == [pay : Payments, try : 1..MaxTries,
          status : {"authorized", "captured", "failed"}]

(* Checks, payments, bookings, and the compensation of a called-off order. *)
STAGE == {"idle", "initiating", "loaded", "asked", "booking", "offering",
          "paidGroup", "failing", "failedGroup", "resetting",
          "abandonedGroup", "abandonedPayments",
          "compensating", "calling", "refunded", "recorded", "refused",
          "closing"}

(* What a handler holds: a payment and the status it had when loaded, the  *)
(* status to give it, the order it is at, and, inside the transaction of a *)
(* refund, what it read of that order.                                     *)
Idle == [stage |-> "idle", pay |-> 1, read |-> "PENDING", next |-> "PENDING",
         order |-> 1, booked |-> FALSE, seen |-> "CREATED"]

HandlerState == [stage : STAGE, pay : Payments, read : PAYMENT_STATUS,
                 next : PAYMENT_STATUS, order : Orders, booked : BOOLEAN,
                 seen : ORDER_PAYMENT_STATUS]

PaymentTypeOK ==
    /\ funding \in Funding
    /\ workflow \in [Orders -> {"CREATED", "SELLER_PENDING", "SELLER_ACCEPTED",
                                "CANCELLED"}]
    /\ paymentStatus \in [Orders -> ORDER_PAYMENT_STATUS]
    /\ captured \in SUBSET Orders
    /\ credits \in [Orders -> Nat]
    /\ refunds \in [Orders -> Nat]
    /\ group \in {"CREATED", "PAID", "CANCELLED"}
    /\ payment \in [Payments -> PAYMENT_STATUS \cup {"none"}]
    /\ gateway \in [Payments -> {"none", "created", "attempted", "paid"}]
    /\ tries \in [Payments -> 0..MaxTries]
    /\ events \in SUBSET Event
    /\ recorded \in SUBSET Event
    /\ handler \in [Handlers -> HandlerState]

(* A checkout paid from the wallet is finalized by placement itself, which *)
(* books and offers the orders as a captured payment does.                 *)
PaymentInit ==
    /\ funding \in Funding
    /\ workflow = [o \in Orders |-> "CREATED"]
    /\ paymentStatus = [o \in Orders |-> "CREATED"]
    /\ captured = {}
    /\ credits = [o \in Orders |-> 0]
    /\ refunds = [o \in Orders |-> 0]
    /\ group = "CREATED"
    /\ payment = [p \in Payments |-> "none"]
    /\ gateway = [p \in Payments |-> "none"]
    /\ tries = [p \in Payments |-> 0]
    /\ events = {}
    /\ recorded = {}
    /\ IF funding = "wallet"
         THEN \E h \in Handlers :
                handler = [i \in Handlers |->
                             IF i = h THEN [Idle EXCEPT !.stage = "booking"]
                                      ELSE Idle]
         ELSE handler = [h \in Handlers |-> Idle]

At(h, stage) == handler[h].stage = stage

Become(h, state)   == handler' = [handler EXCEPT ![h] = state]
Continue(h, stage) == handler' = [handler EXCEPT ![h].stage = stage]
Finish(h)          == Become(h, Idle)

----------------------------------------------------------------------------
(* The gateway and the customer's payment sheet.                           *)

Payable(p) == gateway[p] \in {"created", "attempted"} /\ tries[p] < MaxTries

Notice(p, status) == [pay |-> p, try |-> tries'[p], status |-> status]

(* A try succeeds, and is captured at once, since nothing in the service   *)
(* captures a payment; or it fails, and may be repeated.  The gateway may  *)
(* announce the authorization as well.                                     *)
CustomerPays(p) ==
    /\ Payable(p)
    /\ tries' = [tries EXCEPT ![p] = @ + 1]
    /\ \/ /\ gateway' = [gateway EXCEPT ![p] = "paid"]
          /\ events' \in {events \cup {Notice(p, "captured")},
                         events \cup {Notice(p, "authorized"), Notice(p, "captured")}}
       \/ /\ gateway' = [gateway EXCEPT ![p] = "attempted"]
          /\ events' = events \cup {Notice(p, "failed")}
    /\ Cardinality(events') <= MaxEvents
    /\ UNCHANGED <<funding, orderVars, refunds, group, payment, recorded,
                   handler>>

----------------------------------------------------------------------------
(* createPaymentOrderForOrderRef.                                          *)

(* validatePaymentEligibility *)
Eligible ==
    /\ funding # "wallet"
    /\ \A o \in Orders : /\ workflow[o] # "CANCELLED"
                         /\ paymentStatus[o] \notin {"PAID", "REFUNDED"}

(* An open payment is handed out again. *)
existingOpenPayment == \E p \in Payments : payment[p] = "PENDING"

CheckEligibility(h) ==
    /\ At(h, "idle")
    /\ Eligible
    /\ ~existingOpenPayment
    /\ Continue(h, "initiating")
    /\ UNCHANGED <<funding, orderVars, refunds, group, payment, gatewayVars,
                   recorded>>

(* The gateway order is created first; only then is the payment stored.    *)
(* Nobody knows a gateway order whose payment was never stored.            *)
CreatePayment(h) ==
    /\ At(h, "initiating")
    /\ \E p \in Payments :
          /\ payment[p] = "none"
          /\ \A q \in Payments : q < p => payment[q] # "none"
          /\ payment' = [payment EXCEPT ![p] = "PENDING"]
          /\ gateway' = [gateway EXCEPT ![p] = "created"]
    /\ Finish(h)
    /\ UNCHANGED <<funding, orderVars, refunds, group, tries, events,
                   recorded>>

----------------------------------------------------------------------------
(* processRazorpayWebhook and verifyRazorpayPaymentStatus.                 *)

InternalStatus_Passed(s) ==
    CASE s \in {"paid", "captured"} -> "CAPTURED"
      [] s = "failed"               -> "FAILED"
      [] s = "authorized"           -> "AUTHORIZED"
      [] OTHER                      -> s

(* mapRazorpayStatusToInternal, of a payment event or a gateway order.     *)
InternalStatus(s) ==
    CASE s \in {"paid", "captured"} -> "CAPTURED"
      [] s = "failed"               -> "FAILED"
      [] s = "authorized"           -> "AUTHORIZED"
      [] OTHER                      -> "PENDING"

TRANSITIONS ==
    [ PENDING    |-> {"AUTHORIZED", "CAPTURED", "FAILED", "CANCELLED"},
      AUTHORIZED |-> {"CAPTURED", "FAILED", "REFUNDED"},
      CAPTURED   |-> {"REFUNDED"},
      FAILED     |-> {},
      CANCELLED  |-> {},
      REFUNDED   |-> {} ]

canTransitionPaymentStatus(from, to) == from = to \/ to \in TRANSITIONS[from]

HandlerFrame == UNCHANGED <<funding, orderVars, refunds, group, gatewayVars>>

(* The event is recorded before anything is done about it; one already     *)
(* recorded is accepted and forgotten.  The payment is loaded right after. *)
(* When the events of one gateway payment share an id, more of them are    *)
(* taken for duplicates; here each has its own.                            *)
RecordEvent(h) ==
    /\ At(h, "idle")
    /\ \E e \in events \ recorded :
          /\ recorded' = recorded \cup {e}
          /\ Become(h, [Idle EXCEPT !.stage = "loaded", !.pay = e.pay,
                                    !.read = payment[e.pay],
                                    !.next = InternalStatus(e.status)])
    /\ UNCHANGED payment
    /\ HandlerFrame

(* The customer's app returns with the signature of a payment it has made, *)
(* which counts as captured.                                               *)
VerifySignature(h) ==
    /\ At(h, "idle")
    /\ \E p \in Payments :
          /\ gateway[p] = "paid"
          /\ payment[p] # "CAPTURED"
          /\ Become(h, [Idle EXCEPT !.stage = "loaded", !.pay = p,
                                    !.read = payment[p], !.next = "CAPTURED"])
    /\ UNCHANGED <<payment, recorded>>
    /\ HandlerFrame

(* Without a signature the payment is loaded and the gateway asked.        *)
CheckStatus(h) ==
    /\ At(h, "idle")
    /\ \E p \in Payments :
          /\ payment[p] \notin {"none", "CAPTURED"}
          /\ Become(h, [Idle EXCEPT !.stage = "asked", !.pay = p,
                                    !.read = payment[p]])
    /\ UNCHANGED <<payment, recorded>>
    /\ HandlerFrame

GatewayAnswers(h) ==
    /\ At(h, "asked")
    /\ Become(h, [handler[h] EXCEPT
                    !.stage = "loaded",
                    !.next = InternalStatus(gateway[handler[h].pay])])
    /\ UNCHANGED <<payment, recorded>>
    /\ HandlerFrame

(* What a status means for the orders. *)
EffectOf(status) ==
    CASE status = "CAPTURED" -> "booking"
      [] status = "FAILED"   -> "failing"
      [] OTHER               -> "resetting"

(* transitionPaymentState decides on the document as it was loaded, and    *)
(* saves only a changed status.  An impossible transition ends the request *)
(* with a 409.                                                             *)
SavePayment(h) ==
    /\ At(h, "loaded")
    /\ LET p == handler[h].pay
           read == handler[h].read
           next == handler[h].next
       IN IF canTransitionPaymentStatus(read, next)
            THEN /\ payment' = IF read = next THEN payment
                               ELSE [payment EXCEPT ![p] = next]
                 /\ Become(h, [Idle EXCEPT !.stage = EffectOf(next)])
            ELSE Finish(h) /\ UNCHANGED payment
    /\ UNCHANGED recorded
    /\ HandlerFrame

----------------------------------------------------------------------------
(* handleOrderSideEffectsFromPaymentStatus; the first three actions are    *)
(* finalizeWalletCoveredOnlineCheckout as well.                            *)

EffectFrame == UNCHANGED <<funding, refunds, gatewayVars, payment, recorded>>

AlreadyBooked_PaidStatus(o) == paymentStatus[o] = "PAID"

AlreadyBooked(o) == o \in captured

(* handleOnlineOrderFinance, one transaction.  It asks for nothing but the *)
(* flag, so it books a cancelled order too.                                *)
BookOrder(h) ==
    /\ At(h, "booking")
    /\ LET o == handler[h].order
       IN IF AlreadyBooked(o)
            THEN UNCHANGED <<captured, credits, paymentStatus>>
            ELSE /\ captured' = captured \cup {o}
                 /\ credits' = [credits EXCEPT ![o] = @ + 1]
                 /\ paymentStatus' = [paymentStatus EXCEPT ![o] = "PAID"]
    /\ Continue(h, "offering")
    /\ UNCHANGED <<workflow, group>>
    /\ EffectFrame

IsLast_Early(o) == o + 1 >= GroupSize

(* The orders come by checkoutGroupIndex. *)
IsLast(o) == o = GroupSize

(* moveOrderToSellerPendingAfterPayment; then the next order of the group, *)
(* or the group itself.                                                    *)
OfferOrder(h) ==
    /\ At(h, "offering")
    /\ LET o == handler[h].order
       IN /\ workflow' = IF workflow[o] = "CREATED"
                           THEN [workflow EXCEPT ![o] = "SELLER_PENDING"]
                           ELSE workflow
          /\ IF IsLast(o)
               THEN Continue(h, "paidGroup")
               ELSE Become(h, [Idle EXCEPT !.stage = "booking",
                                           !.order = o + 1])
    /\ UNCHANGED <<paymentStatus, captured, credits, group>>
    /\ EffectFrame

MarkGroupPaid(h) ==
    /\ At(h, "paidGroup")
    /\ group' = "PAID"
    /\ Finish(h)
    /\ UNCHANGED orderVars
    /\ EffectFrame

(* Every order nobody has paid for is given up, in one transaction.  What  *)
(* the customer paid from the wallet is not given back here.               *)
FailOrders(h) ==
    /\ At(h, "failing")
    /\ LET off == {o \in Orders : workflow[o] = "CREATED"}
       IN /\ workflow' = [o \in Orders |->
                            IF o \in off THEN "CANCELLED" ELSE workflow[o]]
          /\ paymentStatus' = [o \in Orders |->
                            IF o \in off THEN "FAILED" ELSE paymentStatus[o]]
    /\ Continue(h, "failedGroup")
    /\ UNCHANGED <<captured, credits, group>>
    /\ EffectFrame

MarkGroupFailed(h) ==
    /\ At(h, "failedGroup")
    /\ group' = "CANCELLED"
    /\ Finish(h)
    /\ UNCHANGED orderVars
    /\ EffectFrame

(* Pending or authorized: the orders are written without looking at them.  *)
ResetOrders(h) ==
    /\ At(h, "resetting")
    /\ paymentStatus' = [o \in Orders |-> "CREATED"]
    /\ Finish(h)
    /\ UNCHANGED <<workflow, captured, credits, group>>
    /\ EffectFrame

----------------------------------------------------------------------------
(* cancelOnlinePaymentAttempt: a transaction over the orders, then the     *)
(* group, then every payment of the group that is not captured.  Giving    *)
(* wallet money back ends in a Transaction whose type its schema does not  *)
(* know, so the transaction aborts when there is any to give back.         *)

Abandonable(o) == paymentStatus[o] # "PAID" /\ workflow[o] # "CANCELLED"

AbandonOrders(h) ==
    /\ At(h, "idle")
    /\ LET off == {o \in Orders : Abandonable(o)}
       IN /\ off = {} \/ funding = "gateway"
          /\ workflow' = [o \in Orders |->
                            IF o \in off THEN "CANCELLED" ELSE workflow[o]]
          /\ paymentStatus' = [o \in Orders |->
                            IF o \in off THEN "FAILED" ELSE paymentStatus[o]]
    /\ Continue(h, "abandonedGroup")
    /\ UNCHANGED <<funding, captured, credits, refunds, group, payment,
                   gatewayVars, recorded>>

AbandonGroup(h) ==
    /\ At(h, "abandonedGroup")
    /\ group' = "CANCELLED"
    /\ Continue(h, "abandonedPayments")
    /\ UNCHANGED orderVars
    /\ EffectFrame

AbandonPayments(h) ==
    /\ At(h, "abandonedPayments")
    /\ payment' = [p \in Payments |->
                     IF payment[p] \in {"none", "CAPTURED"} THEN payment[p]
                                                            ELSE "CANCELLED"]
    /\ Finish(h)
    /\ UNCHANGED <<funding, orderVars, refunds, group, gatewayVars, recorded>>

----------------------------------------------------------------------------
(* The seller, the customer and the sweep, as far as the money sees them.  *)

SellerAccepts(o) ==
    /\ workflow[o] = "SELLER_PENDING"
    /\ paymentStatus[o] = "PAID"
    /\ workflow' = [workflow EXCEPT ![o] = "SELLER_ACCEPTED"]
    /\ UNCHANGED <<funding, paymentStatus, captured, credits, refunds, group,
                   payment, gatewayVars, recorded, handler>>

MayCallOff_PaymentOnly(o) ==
    workflow[o] = "SELLER_PENDING" \/ paymentStatus[o] # "PAID"

(* What sellerRejectAtomic, customerCancelV2 and the sweep ask for in the  *)
(* update that cancels the order.                                          *)
MayCallOff(o) ==
    \/ workflow[o] = "SELLER_PENDING"
    \/ workflow[o] = "CREATED" /\ paymentStatus[o] # "PAID"

(* Whoever made such an update goes on to compensate. *)
CallOffOrder(h, o) ==
    /\ At(h, "idle")
    /\ MayCallOff(o)
    /\ workflow' = [workflow EXCEPT ![o] = "CANCELLED"]
    /\ Become(h, [Idle EXCEPT !.stage = "compensating", !.order = o])
    /\ UNCHANGED <<funding, paymentStatus, captured, credits, refunds, group,
                   payment, gatewayVars, recorded>>

----------------------------------------------------------------------------
(* compensateOrderCancellation with reverseOrderFinanceOnCancellation, a   *)
(* transaction with issueRazorpayRefund's call of the gateway inside.      *)

CapturedPayments == {p \in Payments : payment[p] = "CAPTURED"}

RefundFrame == UNCHANGED <<funding, workflow, captured, credits, gatewayVars,
                           recorded>>

RefundDue(o) == o \in captured /\ funding # "wallet"

(* The duplicate check of issueRazorpayRefund. *)
AlreadyRefunded(o) == paymentStatus[o] = "REFUNDED"

(* What the transaction has read of the order. *)
ReadOrder(h, stage, p) ==
    LET o == handler[h].order
    IN Become(h, [handler[h] EXCEPT !.stage = stage, !.pay = p,
                                    !.booked = o \in captured,
                                    !.seen = paymentStatus[o]])

(* The transaction reads the order; the latest captured payment of the     *)
(* group is looked up, if there is something to refund.                    *)
StartRefund(h) ==
    /\ At(h, "compensating")
    /\ IF ~RefundDue(handler[h].order) \/ AlreadyRefunded(handler[h].order)
         THEN ReadOrder(h, "recorded", 1)
       ELSE IF CapturedPayments = {} THEN ReadOrder(h, "refused", 1)
       ELSE \E p \in CapturedPayments :
               /\ \A q \in CapturedPayments : q <= p
               /\ ReadOrder(h, "calling", p)
    /\ UNCHANGED <<paymentStatus, payment, group, refunds>>
    /\ RefundFrame

(* The gateway refunds the order's share, or refuses. *)
GatewayRefunds(h) ==
    /\ At(h, "calling")
    /\ \/ /\ refunds' = [refunds EXCEPT ![handler[h].order] = @ + 1]
          /\ Continue(h, "refunded")
       \/ /\ Become(h, [handler[h] EXCEPT !.stage = "refused", !.pay = 1])
          /\ UNCHANGED refunds
    /\ UNCHANGED <<paymentStatus, payment, group>>
    /\ RefundFrame

(* The payment is saved outside the transaction; a failure of the save is  *)
(* reported as a failed refund.                                            *)
SaveRefund(h) ==
    /\ At(h, "refunded")
    /\ \E saved \in BOOLEAN :
          /\ payment' = IF saved
                          THEN [payment EXCEPT ![handler[h].pay] = "REFUNDED"]
                          ELSE payment
          /\ Become(h, [handler[h] EXCEPT
                          !.stage = IF saved THEN "recorded" ELSE "refused",
                          !.pay = 1])
    /\ UNCHANGED <<paymentStatus, group, refunds>>
    /\ RefundFrame

RefundOutcome_Optimistic(stage) == "REFUNDED"

RefundOutcome(stage) ==
    IF stage = "recorded" THEN "REFUNDED" ELSE "REFUND_FAILED"

(* The transaction commits only if nobody has written the order since.     *)
(* With wallet money to give back it never does: its ledger entry carries  *)
(* a payment mode the ledger's schema does not know.                       *)
CommitRefund(h) ==
    /\ handler[h].stage \in {"recorded", "refused"}
    /\ funding = "gateway"
    /\ LET o == handler[h].order
       IN /\ handler[h].booked = (o \in captured)
          /\ handler[h].seen = paymentStatus[o]
          /\ paymentStatus' =
                [paymentStatus EXCEPT ![o] =
                    IF handler[h].booked
                      THEN RefundOutcome(handler[h].stage) ELSE @]
    /\ Become(h, [Idle EXCEPT !.stage = "closing"])
    /\ UNCHANGED <<payment, group, refunds>>
    /\ RefundFrame

(* It may abort, and the error is only logged. *)
AbortRefund(h) ==
    /\ handler[h].stage \in {"recorded", "refused"}
    /\ Become(h, [Idle EXCEPT !.stage = "closing"])
    /\ UNCHANGED <<paymentStatus, payment, group, refunds>>
    /\ RefundFrame

(* The group is cancelled with its last order. *)
CloseGroup(h) ==
    /\ At(h, "closing")
    /\ group' = IF \A o \in Orders : workflow[o] = "CANCELLED"
                  THEN "CANCELLED" ELSE group
    /\ Finish(h)
    /\ UNCHANGED <<paymentStatus, payment, refunds>>
    /\ RefundFrame

----------------------------------------------------------------------------
AttemptStep(h) ==
    \/ CheckEligibility(h) \/ CreatePayment(h)
    \/ AbandonOrders(h) \/ AbandonGroup(h) \/ AbandonPayments(h)

StatusStep(h) ==
    \/ RecordEvent(h) \/ VerifySignature(h)
    \/ CheckStatus(h) \/ GatewayAnswers(h) \/ SavePayment(h)

EffectStep(h) ==
    \/ BookOrder(h) \/ OfferOrder(h) \/ MarkGroupPaid(h)
    \/ FailOrders(h) \/ MarkGroupFailed(h) \/ ResetOrders(h)

RefundStep(h) ==
    \/ StartRefund(h) \/ GatewayRefunds(h) \/ SaveRefund(h)
    \/ CommitRefund(h) \/ AbortRefund(h) \/ CloseGroup(h)

PaymentNext ==
    \/ \E p \in Payments : CustomerPays(p)
    \/ \E o \in Orders : SellerAccepts(o)
    \/ \E h \in Handlers, o \in Orders : CallOffOrder(h, o)
    \/ \E h \in Handlers : \/ AttemptStep(h) \/ StatusStep(h) \/ EffectStep(h)
                            \/ RefundStep(h)

PaymentSpec == PaymentInit /\ [][PaymentNext]_paymentVars

----------------------------------------------------------------------------
(* An order credited or refunded more than once is in no state that the    *)
(* contract knows.                                                         *)
MoneyOf(credited, refunded) ==
    CASE refunded > 1 -> "returned again"
      [] credited > 1 -> "booked again"
      [] OTHER        -> IF refunded = 1 THEN "returned"
                         ELSE IF credited = 1 THEN "held" ELSE "none"

(* Each order's phase and money, read off the documents. *)
orderPhase ==
    [o \in Orders |-> CASE workflow[o] = "CREATED"         -> "unpaid"
                        [] workflow[o] = "SELLER_PENDING"  -> "offered"
                        [] workflow[o] = "SELLER_ACCEPTED" -> "accepted"
                        [] OTHER                           -> "off"]

orderMoney == [o \in Orders |-> MoneyOf(credits[o], refunds[o])]

Contract == INSTANCE CheckoutContract WITH
    phase <- orderPhase, money <- orderMoney

(* The payment service keeps the contract of CheckoutContract: no order is *)
(* offered to its seller before its price is booked, no cancelled order    *)
(* comes back, and only a cancelled order is refunded, and only what was   *)
(* booked, whichever webhooks, polls and requests overlap.  The gateway    *)
(* never refunds an order twice: not after a refund whose save failed, nor *)
(* from a second captured payment of the checkout.                         *)
CheckoutKept == Contract!CheckoutSpec

(* However many webhooks, checks and payments report it, the admin wallet  *)
(* is credited once per order, and only if the customer has paid: from the *)
(* wallet, or on some gateway order of the checkout.                       *)
CreditedOnceAndPaidFor ==
    \A o \in Orders :
        /\ credits[o] <= 1
        /\ credits[o] > 0 => \/ funding = "wallet"
                             \/ \E p \in Payments : gateway[p] = "paid"

(* A group says PAID only when every one of its orders is booked, although *)
(* handlers book the orders one by one and may die in between.             *)
PaidGroupIsBooked == group = "PAID" => captured = Orders

(* An order recorded as REFUNDED was refunded by the gateway, once: not    *)
(* when the gateway refused, when the call or the save that follows it     *)
(* failed, or when there was nothing to refund.                            *)
RecordedRefundsWereMade ==
    \A o \in Orders : paymentStatus[o] = "REFUNDED" => refunds[o] = 1
============================================================================
