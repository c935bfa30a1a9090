---------------------------- MODULE PaymentProofs ----------------------------
(***************************************************************************)
(* Proofs about Payment, for any number of orders, payments, tries, events *)
(* and handlers, and any way of paying.                                    *)
(*                                                                         *)
(* Handlers share nothing but the documents, so the invariant says what a  *)
(* handler may rely on at each stage: money was paid before it books       *)
(* (MoneyInv), the orders before its own are booked (GroupInv), and nobody *)
(* else compensates its order (RefundInv).                                 *)
(***************************************************************************)
EXTENDS Payment, TLAPS

(* A gateway order stands behind every event, a payment behind every       *)
(* gateway order.                                                          *)
GatewayInv ==
    /\ \A p \in Payments : gateway[p] # "none" => payment[p] # "none"
    /\ \A e \in events : gateway[e.pay] # "none"
    /\ \A e \in events : e.status = "captured" => gateway[e.pay] = "paid"

Paid == funding = "wallet" \/ \E p \in Payments : gateway[p] = "paid"

Booking == {"booking", "offering", "paidGroup"}

(* Only what was paid is booked, once. *)
MoneyInv ==
    /\ \A o \in Orders : credits[o] = IF o \in captured THEN 1 ELSE 0
    /\ captured # {} => Paid
    /\ \A h \in Handlers :
          At(h, "loaded") /\ handler[h].next = "CAPTURED"
              => gateway[handler[h].pay] = "paid"
    /\ \A h \in Handlers : handler[h].stage \in Booking => Paid

(* A handler has booked the orders before its own. *)
GroupInv ==
    /\ PaidGroupIsBooked
    /\ \A h \in Handlers : \A o \in Orders :
          /\ At(h, "booking") /\ o < handler[h].order => o \in captured
          /\ At(h, "offering") /\ o <= handler[h].order => o \in captured
          /\ At(h, "paidGroup") => o \in captured

Compensation == {"compensating", "calling", "refunded", "recorded", "refused"}

Compensates(h, o) == handler[h].stage \in Compensation /\ handler[h].order = o

(* One handler compensates a cancelled order, and knows whether it was     *)
(* refunded.                                                               *)
RefundInv ==
    /\ \A o \in Orders : refunds[o] # 0 =>
          refunds[o] = 1 /\ workflow[o] = "CANCELLED" /\ o \in captured
    /\ \A h \in Handlers : \A o \in Orders :
          Compensates(h, o) =>
              /\ workflow[o] = "CANCELLED"
              /\ \A g \in Handlers : Compensates(g, o) => g = h
              /\ At(h, "compensating") \/ At(h, "calling") => refunds[o] = 0
              /\ At(h, "calling") => o \in captured
              /\ At(h, "refunded") => refunds[o] = 1
              /\ At(h, "recorded") /\ handler[h].booked /\ funding = "gateway"
                    => refunds[o] = 1
    /\ RecordedRefundsWereMade

PaymentIInv ==
    /\ PaymentTypeOK
    /\ GatewayInv
    /\ MoneyInv
    /\ GroupInv
    /\ RefundInv

----------------------------------------------------------------------------
(* What a handler becomes is a handler again. *)
LEMMA BecomeTypes ==
    ASSUME handler \in [Handlers -> HandlerState], NEW h \in Handlers,
           NEW state \in HandlerState, Become(h, state)
    PROVE  handler' \in [Handlers -> HandlerState]
  BY DEF Become

(* The handler that has offered an order turns to the group, or to the     *)
(* next order.                                                             *)
LEMMA OfferGoesOn ==
    ASSUME handler \in [Handlers -> HandlerState], NEW h \in Handlers,
           OfferOrder(h)
    PROVE  /\ handler'[h].stage \in {"paidGroup", "booking"}
           /\ \A g \in Handlers \ {h} : handler'[g] = handler[g]
<1>1. CASE IsLast(handler[h].order)
  BY <1>1 DEF OfferOrder, Continue, HandlerState
<1>2. CASE ~IsLast(handler[h].order)
  <2>1. Become(h, [Idle EXCEPT !.stage = "booking",
                               !.order = handler[h].order + 1])
    BY <1>2 DEF OfferOrder
  <2>2. [Idle EXCEPT !.stage = "booking",
                     !.order = handler[h].order + 1].stage = "booking"
    BY DEF Idle
  <2> QED BY <2>1, <2>2 DEF Become
<1> QED BY <1>1, <1>2

LEMMA ContinueTypes ==
    ASSUME handler \in [Handlers -> HandlerState], NEW h \in Handlers,
           NEW stage \in STAGE, Continue(h, stage)
    PROVE  handler' \in [Handlers -> HandlerState]
<1>1. [handler[h] EXCEPT !.stage = stage] \in HandlerState
  BY DEF HandlerState
<1> QED BY <1>1 DEF Continue

LEMMA ForgetTypes ==
    ASSUME NEW state \in HandlerState, NEW stage \in STAGE
    PROVE  [state EXCEPT !.stage = stage, !.pay = 1] \in HandlerState
<1>1. 1 \in Payments
  BY PaymentsAssumption DEF Payments
<1> QED BY <1>1 DEF HandlerState

LEMMA ReadTypes ==
    ASSUME NEW state \in HandlerState, NEW stage \in STAGE, NEW p \in Payments,
           NEW booked \in BOOLEAN, NEW seen \in ORDER_PAYMENT_STATUS
    PROVE  [state EXCEPT !.stage = stage, !.pay = p, !.booked = booked,
                         !.seen = seen] \in HandlerState
  BY DEF HandlerState

LEMMA IdleType == Idle \in HandlerState
  BY GroupSizeAssumption, PaymentsAssumption
     DEF Idle, HandlerState, STAGE, PAYMENT_STATUS, ORDER_PAYMENT_STATUS,
         Orders, Payments

(* A step keeps what handlers are. *)
LEMMA HandlerTypes ==
    ASSUME PaymentIInv, [PaymentNext]_paymentVars
    PROVE  handler' \in [Handlers -> HandlerState]
<1> USE DEF PaymentIInv, PaymentTypeOK, orderVars, gatewayVars, At
<1>1. ASSUME NEW p \in Payments, CustomerPays(p)
      PROVE  handler' \in [Handlers -> HandlerState]
  BY <1>1 DEF CustomerPays
<1>2. ASSUME NEW o \in Orders, SellerAccepts(o)
      PROVE  handler' \in [Handlers -> HandlerState]
  BY <1>2 DEF SellerAccepts
<1>3. ASSUME NEW h \in Handlers, NEW o \in Orders, CallOffOrder(h, o)
      PROVE  handler' \in [Handlers -> HandlerState]
  <2>1. [Idle EXCEPT !.stage = "compensating", !.order = o] \in HandlerState
    BY IdleType DEF HandlerState, STAGE
  <2> QED BY <1>3, <2>1, BecomeTypes DEF CallOffOrder
<1>4. ASSUME NEW h \in Handlers, CheckEligibility(h)
      PROVE  handler' \in [Handlers -> HandlerState]
  BY <1>4, ContinueTypes DEF CheckEligibility, STAGE
<1>5. ASSUME NEW h \in Handlers, CreatePayment(h)
      PROVE  handler' \in [Handlers -> HandlerState]
  BY <1>5, IdleType, BecomeTypes DEF CreatePayment, Finish
<1>6. ASSUME NEW h \in Handlers, RecordEvent(h)
      PROVE  handler' \in [Handlers -> HandlerState]
  <2>1. PICK e \in events \ recorded :
          Become(h, [Idle EXCEPT !.stage = "loaded", !.pay = e.pay,
                                 !.read = payment[e.pay],
                                 !.next = InternalStatus(e.status)])
    BY <1>6 DEF RecordEvent
  <2>2. e.pay \in Payments /\ payment[e.pay] \in PAYMENT_STATUS
    BY DEF GatewayInv, Event
  <2>3. InternalStatus(e.status) \in PAYMENT_STATUS
    BY DEF InternalStatus, PAYMENT_STATUS
  <2>4. [Idle EXCEPT !.stage = "loaded", !.pay = e.pay,
                     !.read = payment[e.pay],
                     !.next = InternalStatus(e.status)] \in HandlerState
    BY <2>2, <2>3, IdleType DEF HandlerState, STAGE
  <2> QED BY <2>1, <2>4, BecomeTypes
<1>7. ASSUME NEW h \in Handlers, VerifySignature(h)
      PROVE  handler' \in [Handlers -> HandlerState]
  <2>1. PICK p \in Payments :
          /\ gateway[p] = "paid"
          /\ Become(h, [Idle EXCEPT !.stage = "loaded", !.pay = p,
                                    !.read = payment[p], !.next = "CAPTURED"])
    BY <1>7 DEF VerifySignature
  <2>2. payment[p] \in PAYMENT_STATUS
    BY <2>1 DEF GatewayInv
  <2>3. [Idle EXCEPT !.stage = "loaded", !.pay = p, !.read = payment[p],
                     !.next = "CAPTURED"] \in HandlerState
    BY <2>2, IdleType DEF HandlerState, STAGE, PAYMENT_STATUS
  <2> QED BY <2>1, <2>3, BecomeTypes
<1>8. ASSUME NEW h \in Handlers, CheckStatus(h)
      PROVE  handler' \in [Handlers -> HandlerState]
  <2>1. PICK p \in Payments :
          /\ payment[p] # "none"
          /\ Become(h, [Idle EXCEPT !.stage = "asked", !.pay = p,
                                    !.read = payment[p]])
    BY <1>8 DEF CheckStatus
  <2>2. [Idle EXCEPT !.stage = "asked", !.pay = p, !.read = payment[p]]
           \in HandlerState
    BY <2>1, IdleType DEF HandlerState, STAGE
  <2> QED BY <2>1, <2>2, BecomeTypes
<1>9. ASSUME NEW h \in Handlers, GatewayAnswers(h)
      PROVE  handler' \in [Handlers -> HandlerState]
  <2>1. InternalStatus(gateway[handler[h].pay]) \in PAYMENT_STATUS
    BY DEF InternalStatus, PAYMENT_STATUS, HandlerState
  <2>2. [handler[h] EXCEPT !.stage = "loaded",
                           !.next = InternalStatus(gateway[handler[h].pay])]
           \in HandlerState
    BY <2>1 DEF HandlerState, STAGE
  <2> QED BY <1>9, <2>2, BecomeTypes DEF GatewayAnswers
<1>10. ASSUME NEW h \in Handlers, SavePayment(h)
       PROVE  handler' \in [Handlers -> HandlerState]
  <2>1. [Idle EXCEPT !.stage = EffectOf(handler[h].next)] \in HandlerState
    BY IdleType DEF EffectOf, HandlerState, STAGE
  <2> QED BY <1>10, <2>1, IdleType, BecomeTypes DEF SavePayment, Finish
<1>11. ASSUME NEW h \in Handlers, BookOrder(h)
       PROVE  handler' \in [Handlers -> HandlerState]
  BY <1>11, ContinueTypes DEF BookOrder, STAGE
<1>12. ASSUME NEW h \in Handlers, OfferOrder(h)
       PROVE  handler' \in [Handlers -> HandlerState]
  <2>1. CASE IsLast(handler[h].order)
    BY <1>12, <2>1, ContinueTypes DEF OfferOrder, STAGE
  <2>2. CASE ~IsLast(handler[h].order)
    <3>1. handler[h].order + 1 \in Orders
      BY <2>2, GroupSizeAssumption DEF IsLast, Orders, HandlerState
    <3>2. [Idle EXCEPT !.stage = "booking", !.order = handler[h].order + 1]
             \in HandlerState
      BY <3>1, IdleType DEF HandlerState, STAGE
    <3> QED BY <1>12, <2>2, <3>2, BecomeTypes DEF OfferOrder
  <2> QED BY <2>1, <2>2
<1>13. ASSUME NEW h \in Handlers, MarkGroupPaid(h)
       PROVE  handler' \in [Handlers -> HandlerState]
  BY <1>13, IdleType, BecomeTypes DEF MarkGroupPaid, Finish
<1>14. ASSUME NEW h \in Handlers, FailOrders(h)
       PROVE  handler' \in [Handlers -> HandlerState]
  BY <1>14, ContinueTypes DEF FailOrders, STAGE
<1>15. ASSUME NEW h \in Handlers, MarkGroupFailed(h)
       PROVE  handler' \in [Handlers -> HandlerState]
  BY <1>15, IdleType, BecomeTypes DEF MarkGroupFailed, Finish
<1>16. ASSUME NEW h \in Handlers, ResetOrders(h)
       PROVE  handler' \in [Handlers -> HandlerState]
  BY <1>16, IdleType, BecomeTypes DEF ResetOrders, Finish
<1>17. ASSUME NEW h \in Handlers, AbandonOrders(h)
       PROVE  handler' \in [Handlers -> HandlerState]
  BY <1>17, ContinueTypes DEF AbandonOrders, STAGE
<1>18. ASSUME NEW h \in Handlers, AbandonGroup(h)
       PROVE  handler' \in [Handlers -> HandlerState]
  BY <1>18, ContinueTypes DEF AbandonGroup, STAGE
<1>19. ASSUME NEW h \in Handlers, AbandonPayments(h)
       PROVE  handler' \in [Handlers -> HandlerState]
  BY <1>19, IdleType, BecomeTypes DEF AbandonPayments, Finish
<1>20. ASSUME NEW h \in Handlers, StartRefund(h)
       PROVE  handler' \in [Handlers -> HandlerState]
  <2>1. 1 \in Payments
    BY PaymentsAssumption DEF Payments
  <2>2. PICK stage \in STAGE, p \in Payments : ReadOrder(h, stage, p)
    BY <1>20, <2>1 DEF StartRefund, CapturedPayments, STAGE
  <2>3. handler[h].order \in Orders
    BY DEF HandlerState
  <2>5. (handler[h].order \in captured) \in BOOLEAN
    OBVIOUS
  <2>6. paymentStatus[handler[h].order] \in ORDER_PAYMENT_STATUS
    BY <2>3
  <2>4. [handler[h] EXCEPT !.stage = stage, !.pay = p,
                           !.booked = handler[h].order \in captured,
                           !.seen = paymentStatus[handler[h].order]]
           \in HandlerState
    BY <2>5, <2>6, ReadTypes
  <2> QED BY <2>2, <2>4, BecomeTypes DEF ReadOrder
<1>21. ASSUME NEW h \in Handlers, GatewayRefunds(h)
       PROVE  handler' \in [Handlers -> HandlerState]
  <2>1. [handler[h] EXCEPT !.stage = "refused", !.pay = 1] \in HandlerState
    BY ForgetTypes DEF STAGE
  <2> QED BY <1>21, <2>1, BecomeTypes, ContinueTypes DEF GatewayRefunds, STAGE
<1>22. ASSUME NEW h \in Handlers, SaveRefund(h)
       PROVE  handler' \in [Handlers -> HandlerState]
  <2>1. PICK stage \in STAGE :
          Become(h, [handler[h] EXCEPT !.stage = stage, !.pay = 1])
    BY <1>22 DEF SaveRefund, STAGE
  <2>2. [handler[h] EXCEPT !.stage = stage, !.pay = 1] \in HandlerState
    BY ForgetTypes
  <2> QED BY <2>1, <2>2, BecomeTypes
<1>23. ASSUME NEW h \in Handlers, CommitRefund(h)
       PROVE  handler' \in [Handlers -> HandlerState]
  <2>1. [Idle EXCEPT !.stage = "closing"] \in HandlerState
    BY IdleType DEF HandlerState, STAGE
  <2> QED BY <1>23, <2>1, BecomeTypes DEF CommitRefund
<1>24. ASSUME NEW h \in Handlers, AbortRefund(h)
       PROVE  handler' \in [Handlers -> HandlerState]
  <2>1. [Idle EXCEPT !.stage = "closing"] \in HandlerState
    BY IdleType DEF HandlerState, STAGE
  <2> QED BY <1>24, <2>1, BecomeTypes DEF AbortRefund
<1>25. ASSUME NEW h \in Handlers, CloseGroup(h)
       PROVE  handler' \in [Handlers -> HandlerState]
  BY <1>25, IdleType, BecomeTypes DEF CloseGroup, Finish
<1>26. CASE UNCHANGED paymentVars
  BY <1>26 DEF paymentVars
<1> QED
  BY <1>1, <1>2, <1>3, <1>4, <1>5, <1>6, <1>7, <1>8, <1>9, <1>10, <1>11,
     <1>12, <1>13, <1>14, <1>15, <1>16, <1>17, <1>18, <1>19, <1>20, <1>21,
     <1>22, <1>23, <1>24, <1>25, <1>26
     DEF PaymentNext, AttemptStep, StatusStep, EffectStep, RefundStep

(* What the documents and the gateway hold. *)
DocumentTypes ==
    /\ funding \in Funding
    /\ workflow \in [Orders -> {"CREATED", "SELLER_PENDING", "SELLER_ACCEPTED",
                                "CANCELLED"}]
    /\ paymentStatus \in [Orders -> ORDER_PAYMENT_STATUS]
    /\ captured \in SUBSET Orders
    /\ credits \in [Orders -> Nat]
    /\ refunds \in [Orders -> Nat]
    /\ group \in {"CREATED", "PAID", "CANCELLED"}
    /\ payment \in [Payments -> PAYMENT_STATUS \cup {"none"}]
    /\ gateway \in [Payments -> {"none", "created", "attempted", "paid"}]
    /\ tries \in [Payments -> 0..MaxTries]
    /\ events \in SUBSET Event
    /\ recorded \in SUBSET Event

(* A step keeps the types of documents and gateway. *)
LEMMA DocumentsKeepTypes ==
    ASSUME PaymentIInv, [PaymentNext]_paymentVars
    PROVE  DocumentTypes'
<1> USE DEF PaymentIInv, PaymentTypeOK, orderVars, gatewayVars, At,
            DocumentTypes, ORDER_PAYMENT_STATUS, PAYMENT_STATUS, HandlerState
<1>1. ASSUME NEW p \in Payments, CustomerPays(p) PROVE DocumentTypes'
  <2>1. tries[p] + 1 \in 1..MaxTries
    BY <1>1, TriesAssumption DEF CustomerPays, Payable
  <2>2. tries' \in [Payments -> 0..MaxTries] /\ tries'[p] \in 1..MaxTries
    BY <1>1, <2>1 DEF CustomerPays
  <2>3. \A status \in {"authorized", "captured", "failed"} :
           Notice(p, status) \in Event
    BY <2>2 DEF Notice, Event
  <2>4. events' \in SUBSET Event
    BY <1>1, <2>3 DEF CustomerPays
  <2>5. gateway' \in [Payments -> {"none", "created", "attempted", "paid"}]
    BY <1>1 DEF CustomerPays
  <2> QED BY <1>1, <2>2, <2>4, <2>5 DEF CustomerPays
<1>2. ASSUME NEW o \in Orders, SellerAccepts(o) PROVE DocumentTypes'
  BY <1>2 DEF SellerAccepts
<1>3. ASSUME NEW h \in Handlers, NEW o \in Orders, CallOffOrder(h, o)
      PROVE  DocumentTypes'
  BY <1>3 DEF CallOffOrder, MayCallOff, Become, Idle
<1>4. ASSUME NEW h \in Handlers, CheckEligibility(h) PROVE DocumentTypes'
  BY <1>4 DEF CheckEligibility
<1>5. ASSUME NEW h \in Handlers, CreatePayment(h) PROVE DocumentTypes'
  BY <1>5 DEF CreatePayment
<1>6. ASSUME NEW h \in Handlers, RecordEvent(h) PROVE DocumentTypes'
  BY <1>6 DEF RecordEvent, HandlerFrame
<1>7. ASSUME NEW h \in Handlers, VerifySignature(h) PROVE DocumentTypes'
  BY <1>7 DEF VerifySignature, HandlerFrame
<1>8. ASSUME NEW h \in Handlers, CheckStatus(h) PROVE DocumentTypes'
  BY <1>8 DEF CheckStatus, HandlerFrame
<1>9. ASSUME NEW h \in Handlers, GatewayAnswers(h) PROVE DocumentTypes'
  BY <1>9 DEF GatewayAnswers, HandlerFrame
<1>10. ASSUME NEW h \in Handlers, SavePayment(h) PROVE DocumentTypes'
  BY <1>10 DEF SavePayment, HandlerFrame
<1>11. ASSUME NEW h \in Handlers, BookOrder(h) PROVE DocumentTypes'
  BY <1>11 DEF BookOrder, EffectFrame
<1>12. ASSUME NEW h \in Handlers, OfferOrder(h) PROVE DocumentTypes'
  BY <1>12 DEF OfferOrder, EffectFrame
<1>13. ASSUME NEW h \in Handlers, MarkGroupPaid(h) PROVE DocumentTypes'
  BY <1>13 DEF MarkGroupPaid, EffectFrame
<1>14. ASSUME NEW h \in Handlers, FailOrders(h) PROVE DocumentTypes'
  BY <1>14 DEF FailOrders, EffectFrame
<1>15. ASSUME NEW h \in Handlers, MarkGroupFailed(h) PROVE DocumentTypes'
  BY <1>15 DEF MarkGroupFailed, EffectFrame
<1>16. ASSUME NEW h \in Handlers, ResetOrders(h) PROVE DocumentTypes'
  BY <1>16 DEF ResetOrders, EffectFrame
<1>17. ASSUME NEW h \in Handlers, AbandonOrders(h) PROVE DocumentTypes'
  BY <1>17 DEF AbandonOrders
<1>18. ASSUME NEW h \in Handlers, AbandonGroup(h) PROVE DocumentTypes'
  BY <1>18 DEF AbandonGroup, EffectFrame
<1>19. ASSUME NEW h \in Handlers, AbandonPayments(h) PROVE DocumentTypes'
  BY <1>19 DEF AbandonPayments
<1>20. ASSUME NEW h \in Handlers, StartRefund(h) PROVE DocumentTypes'
  BY <1>20 DEF StartRefund, RefundFrame
<1>21. ASSUME NEW h \in Handlers, GatewayRefunds(h) PROVE DocumentTypes'
  BY <1>21 DEF GatewayRefunds, RefundFrame
<1>22. ASSUME NEW h \in Handlers, SaveRefund(h) PROVE DocumentTypes'
  BY <1>22 DEF SaveRefund, RefundFrame
<1>23. ASSUME NEW h \in Handlers, CommitRefund(h) PROVE DocumentTypes'
  <2>1. handler[h].order \in Orders
    OBVIOUS
  <2>2. RefundOutcome(handler[h].stage) \in ORDER_PAYMENT_STATUS
    BY DEF RefundOutcome
  <2>3. paymentStatus' \in [Orders -> ORDER_PAYMENT_STATUS]
    BY <1>23, <2>1, <2>2 DEF CommitRefund
  <2> QED BY <1>23, <2>3 DEF CommitRefund, RefundFrame
<1>24. ASSUME NEW h \in Handlers, AbortRefund(h) PROVE DocumentTypes'
  BY <1>24 DEF AbortRefund, RefundFrame
<1>25. ASSUME NEW h \in Handlers, CloseGroup(h) PROVE DocumentTypes'
  BY <1>25 DEF CloseGroup, RefundFrame
<1>26. CASE UNCHANGED paymentVars
  BY <1>26 DEF paymentVars
<1> QED
  BY <1>1, <1>2, <1>3, <1>4, <1>5, <1>6, <1>7, <1>8, <1>9, <1>10, <1>11,
     <1>12, <1>13, <1>14, <1>15, <1>16, <1>17, <1>18, <1>19, <1>20, <1>21,
     <1>22, <1>23, <1>24, <1>25, <1>26
     DEF PaymentNext, AttemptStep, StatusStep, EffectStep, RefundStep

(* Payments stay behind gateway orders, gateway orders behind events. *)
LEMMA GatewayStep ==
    ASSUME PaymentIInv, [PaymentNext]_paymentVars
    PROVE  GatewayInv'
<1> USE DEF PaymentIInv, PaymentTypeOK, gatewayVars, orderVars, GatewayInv
<1>1. ASSUME NEW p \in Payments, CustomerPays(p) PROVE GatewayInv'
  <2>1. /\ gateway[p] \in {"created", "attempted"}
        /\ payment[p] # "none" /\ payment' = payment
        /\ \A q \in Payments : q # p => gateway'[q] = gateway[q]
        /\ gateway'[p] \in {"paid", "attempted"}
    BY <1>1 DEF CustomerPays, Payable
  <2>2. ASSUME NEW e \in events' \ events
        PROVE  e.pay = p /\ (e.status = "captured" => gateway'[p] = "paid")
    BY <1>1, <2>2 DEF CustomerPays, Notice
  <2>3. ASSUME NEW e \in events
        PROVE  /\ gateway'[e.pay] # "none"
               /\ e.status = "captured" => gateway'[e.pay] = "paid"
    BY <2>1 DEF Event
  <2> QED BY <2>1, <2>2, <2>3
<1>2. ASSUME NEW o \in Orders, SellerAccepts(o) PROVE GatewayInv'
  BY <1>2 DEF SellerAccepts
<1>3. ASSUME NEW h \in Handlers, NEW o \in Orders, CallOffOrder(h, o)
      PROVE  GatewayInv'
  BY <1>3 DEF CallOffOrder, MayCallOff, Become, Idle
<1>4. ASSUME NEW h \in Handlers, CheckEligibility(h) PROVE GatewayInv'
  BY <1>4 DEF CheckEligibility
<1>5. ASSUME NEW h \in Handlers, CreatePayment(h) PROVE GatewayInv'
  BY <1>5 DEF CreatePayment
<1>6. ASSUME NEW h \in Handlers, RecordEvent(h) PROVE GatewayInv'
  BY <1>6 DEF RecordEvent, HandlerFrame
<1>7. ASSUME NEW h \in Handlers, VerifySignature(h) PROVE GatewayInv'
  BY <1>7 DEF VerifySignature, HandlerFrame
<1>8. ASSUME NEW h \in Handlers, CheckStatus(h) PROVE GatewayInv'
  BY <1>8 DEF CheckStatus, HandlerFrame
<1>9. ASSUME NEW h \in Handlers, GatewayAnswers(h) PROVE GatewayInv'
  BY <1>9 DEF GatewayAnswers, HandlerFrame
<1>10. ASSUME NEW h \in Handlers, SavePayment(h) PROVE GatewayInv'
  <2>1. handler[h].next \in PAYMENT_STATUS
    BY DEF HandlerState
  <2>2. \A p \in Payments : payment[p] # "none" => payment'[p] # "none"
    BY <1>10, <2>1 DEF SavePayment, PAYMENT_STATUS
  <2> QED BY <1>10, <2>2 DEF SavePayment, HandlerFrame
<1>11. ASSUME NEW h \in Handlers, BookOrder(h) PROVE GatewayInv'
  BY <1>11 DEF BookOrder, EffectFrame
<1>12. ASSUME NEW h \in Handlers, OfferOrder(h) PROVE GatewayInv'
  BY <1>12 DEF OfferOrder, EffectFrame
<1>13. ASSUME NEW h \in Handlers, MarkGroupPaid(h) PROVE GatewayInv'
  BY <1>13 DEF MarkGroupPaid, EffectFrame
<1>14. ASSUME NEW h \in Handlers, FailOrders(h) PROVE GatewayInv'
  BY <1>14 DEF FailOrders, EffectFrame
<1>15. ASSUME NEW h \in Handlers, MarkGroupFailed(h) PROVE GatewayInv'
  BY <1>15 DEF MarkGroupFailed, EffectFrame
<1>16. ASSUME NEW h \in Handlers, ResetOrders(h) PROVE GatewayInv'
  BY <1>16 DEF ResetOrders, EffectFrame
<1>17. ASSUME NEW h \in Handlers, AbandonOrders(h) PROVE GatewayInv'
  BY <1>17 DEF AbandonOrders
<1>18. ASSUME NEW h \in Handlers, AbandonGroup(h) PROVE GatewayInv'
  BY <1>18 DEF AbandonGroup, EffectFrame
<1>19. ASSUME NEW h \in Handlers, AbandonPayments(h) PROVE GatewayInv'
  BY <1>19 DEF AbandonPayments
<1>20. ASSUME NEW h \in Handlers, StartRefund(h) PROVE GatewayInv'
  BY <1>20 DEF StartRefund, RefundFrame
<1>21. ASSUME NEW h \in Handlers, GatewayRefunds(h) PROVE GatewayInv'
  BY <1>21 DEF GatewayRefunds, RefundFrame
<1>22. ASSUME NEW h \in Handlers, SaveRefund(h) PROVE GatewayInv'
  BY <1>22 DEF SaveRefund, RefundFrame
<1>23. ASSUME NEW h \in Handlers, CommitRefund(h) PROVE GatewayInv'
  BY <1>23 DEF CommitRefund, RefundFrame
<1>24. ASSUME NEW h \in Handlers, AbortRefund(h) PROVE GatewayInv'
  BY <1>24 DEF AbortRefund, RefundFrame
<1>25. ASSUME NEW h \in Handlers, CloseGroup(h) PROVE GatewayInv'
  BY <1>25 DEF CloseGroup, RefundFrame
<1>26. CASE UNCHANGED paymentVars
  BY <1>26 DEF paymentVars
<1> QED
  BY <1>1, <1>2, <1>3, <1>4, <1>5, <1>6, <1>7, <1>8, <1>9, <1>10, <1>11,
     <1>12, <1>13, <1>14, <1>15, <1>16, <1>17, <1>18, <1>19, <1>20, <1>21,
     <1>22, <1>23, <1>24, <1>25, <1>26
     DEF PaymentNext, AttemptStep, StatusStep, EffectStep, RefundStep

(* Only what was paid is booked, once. *)
LEMMA MoneyStep ==
    ASSUME PaymentIInv, [PaymentNext]_paymentVars
    PROVE  MoneyInv'
<1> USE DEF PaymentIInv, PaymentTypeOK, orderVars, gatewayVars, At,
            GatewayInv, HandlerState, Become, Continue, Finish, Idle,
            MoneyInv, Paid, Booking
<1>1. ASSUME NEW p \in Payments, CustomerPays(p) PROVE MoneyInv'
  BY <1>1 DEF CustomerPays, Payable, Notice
<1>2. ASSUME NEW o \in Orders, SellerAccepts(o) PROVE MoneyInv'
  BY <1>2 DEF SellerAccepts
<1>3. ASSUME NEW h \in Handlers, NEW o \in Orders, CallOffOrder(h, o)
      PROVE  MoneyInv'
  BY <1>3 DEF CallOffOrder, MayCallOff, Become, Idle
<1>4. ASSUME NEW h \in Handlers, CheckEligibility(h) PROVE MoneyInv'
  BY <1>4 DEF CheckEligibility
<1>5. ASSUME NEW h \in Handlers, CreatePayment(h) PROVE MoneyInv'
  BY <1>5 DEF CreatePayment
<1>6. ASSUME NEW h \in Handlers, RecordEvent(h) PROVE MoneyInv'
  <2>1. PICK e \in events :
          handler' = [handler EXCEPT ![h] =
             [Idle EXCEPT !.stage = "loaded", !.pay = e.pay,
                          !.read = payment[e.pay],
                          !.next = InternalStatus(e.status)]]
    BY <1>6 DEF RecordEvent
  <2>2. InternalStatus(e.status) = "CAPTURED" => gateway[e.pay] = "paid"
    BY DEF InternalStatus, Event
  <2> QED BY <1>6, <2>1, <2>2 DEF RecordEvent, HandlerFrame
<1>7. ASSUME NEW h \in Handlers, VerifySignature(h) PROVE MoneyInv'
  BY <1>7 DEF VerifySignature, HandlerFrame
<1>8. ASSUME NEW h \in Handlers, CheckStatus(h) PROVE MoneyInv'
  BY <1>8 DEF CheckStatus, HandlerFrame
<1>9. ASSUME NEW h \in Handlers, GatewayAnswers(h) PROVE MoneyInv'
  <2>1. InternalStatus(gateway[handler[h].pay]) = "CAPTURED"
           => gateway[handler[h].pay] = "paid"
    BY DEF InternalStatus
  <2> QED BY <1>9, <2>1 DEF GatewayAnswers, HandlerFrame
<1>10. ASSUME NEW h \in Handlers, SavePayment(h) PROVE MoneyInv'
  <2>1. EffectOf(handler[h].next) \in Booking => Paid
    BY <1>10 DEF SavePayment, EffectOf
  <2>2. EffectOf(handler[h].next) # "loaded"
    BY DEF EffectOf
  <2> QED BY <1>10, <2>1, <2>2 DEF SavePayment, HandlerFrame
<1>11. ASSUME NEW h \in Handlers, BookOrder(h) PROVE MoneyInv'
  <2>1. Paid /\ Paid'
    BY <1>11 DEF BookOrder, EffectFrame
  <2>2. \A o \in Orders : credits'[o] = IF o \in captured' THEN 1 ELSE 0
    BY <1>11 DEF BookOrder, AlreadyBooked
  <2>3. \A g \in Handlers : At(g, "loaded")' =>
          At(g, "loaded") /\ handler'[g] = handler[g]
    BY <1>11 DEF BookOrder
  <2> QED BY <1>11, <2>1, <2>2, <2>3 DEF BookOrder, EffectFrame
<1>12. ASSUME NEW h \in Handlers, OfferOrder(h) PROVE MoneyInv'
  <2>1. Paid /\ Paid'
    BY <1>12 DEF OfferOrder, EffectFrame
  <2>2. \A g \in Handlers : At(g, "loaded")' =>
          At(g, "loaded") /\ handler'[g] = handler[g]
    <3>1. /\ handler'[h].stage \in {"paidGroup", "booking"}
          /\ \A g \in Handlers \ {h} : handler'[g] = handler[g]
      BY <1>12, OfferGoesOn
    <3>2. ASSUME NEW g \in Handlers, g # h PROVE handler'[g] = handler[g]
      BY <3>1, <3>2
    <3> QED BY <3>1, <3>2
  <2> QED BY <1>12, <2>1, <2>2 DEF OfferOrder, EffectFrame
<1>13. ASSUME NEW h \in Handlers, MarkGroupPaid(h) PROVE MoneyInv'
  BY <1>13 DEF MarkGroupPaid, EffectFrame
<1>14. ASSUME NEW h \in Handlers, FailOrders(h) PROVE MoneyInv'
  BY <1>14 DEF FailOrders, EffectFrame
<1>15. ASSUME NEW h \in Handlers, MarkGroupFailed(h) PROVE MoneyInv'
  BY <1>15 DEF MarkGroupFailed, EffectFrame
<1>16. ASSUME NEW h \in Handlers, ResetOrders(h) PROVE MoneyInv'
  BY <1>16 DEF ResetOrders, EffectFrame
<1>17. ASSUME NEW h \in Handlers, AbandonOrders(h) PROVE MoneyInv'
  BY <1>17 DEF AbandonOrders
<1>18. ASSUME NEW h \in Handlers, AbandonGroup(h) PROVE MoneyInv'
  BY <1>18 DEF AbandonGroup, EffectFrame
<1>19. ASSUME NEW h \in Handlers, AbandonPayments(h) PROVE MoneyInv'
  BY <1>19 DEF AbandonPayments
<1>20. ASSUME NEW h \in Handlers, StartRefund(h) PROVE MoneyInv'
  <2>1. PICK stage \in {"recorded", "refused", "calling"}, p \in Payments :
          ReadOrder(h, stage, p)
    BY <1>20, PaymentsAssumption DEF StartRefund, CapturedPayments, Payments
  <2>2. \A g \in Handlers :
          handler'[g].stage \in {"loaded", "booking", "offering", "paidGroup"}
            => handler'[g] = handler[g]
    BY <2>1 DEF ReadOrder
  <2> QED BY <1>20, <2>2 DEF StartRefund, RefundFrame
<1>21. ASSUME NEW h \in Handlers, GatewayRefunds(h) PROVE MoneyInv'
  <2>1. \A g \in Handlers :
          handler'[g].stage \in {"loaded", "booking", "offering", "paidGroup"}
            => handler'[g] = handler[g]
    <3>1. ASSUME NEW g \in Handlers, g # h PROVE handler'[g] = handler[g]
      BY <1>21, <3>1 DEF GatewayRefunds
    <3>2. CASE Continue(h, "refunded")
      BY <3>1, <3>2
    <3>3. CASE Become(h, [handler[h] EXCEPT !.stage = "refused", !.pay = 1])
      BY <3>1, <3>3
    <3> QED BY <1>21, <3>2, <3>3 DEF GatewayRefunds
  <2> QED BY <1>21, <2>1 DEF GatewayRefunds, RefundFrame
<1>22. ASSUME NEW h \in Handlers, SaveRefund(h) PROVE MoneyInv'
  BY <1>22 DEF SaveRefund, RefundFrame
<1>23. ASSUME NEW h \in Handlers, CommitRefund(h) PROVE MoneyInv'
  BY <1>23 DEF CommitRefund, RefundFrame
<1>24. ASSUME NEW h \in Handlers, AbortRefund(h) PROVE MoneyInv'
  BY <1>24 DEF AbortRefund, RefundFrame
<1>25. ASSUME NEW h \in Handlers, CloseGroup(h) PROVE MoneyInv'
  BY <1>25 DEF CloseGroup, RefundFrame
<1>26. CASE UNCHANGED paymentVars
  BY <1>26 DEF paymentVars
<1> QED
  BY <1>1, <1>2, <1>3, <1>4, <1>5, <1>6, <1>7, <1>8, <1>9, <1>10, <1>11,
     <1>12, <1>13, <1>14, <1>15, <1>16, <1>17, <1>18, <1>19, <1>20, <1>21,
     <1>22, <1>23, <1>24, <1>25, <1>26
     DEF PaymentNext, AttemptStep, StatusStep, EffectStep, RefundStep

(* A handler has booked the orders before its own. *)
LEMMA GroupStep ==
    ASSUME PaymentIInv, [PaymentNext]_paymentVars
    PROVE  GroupInv'
<1> USE DEF PaymentIInv, PaymentTypeOK, orderVars, gatewayVars, At,
            GatewayInv, HandlerState, Become, Continue, Finish, Idle,
            GroupInv, PaidGroupIsBooked
<1>1. ASSUME NEW p \in Payments, CustomerPays(p) PROVE GroupInv'
  BY <1>1 DEF CustomerPays, Payable, Notice
<1>2. ASSUME NEW o \in Orders, SellerAccepts(o) PROVE GroupInv'
  BY <1>2 DEF SellerAccepts
<1>3. ASSUME NEW h \in Handlers, NEW o \in Orders, CallOffOrder(h, o)
      PROVE  GroupInv'
  BY <1>3 DEF CallOffOrder, MayCallOff, Become, Idle
<1>4. ASSUME NEW h \in Handlers, CheckEligibility(h) PROVE GroupInv'
  BY <1>4 DEF CheckEligibility
<1>5. ASSUME NEW h \in Handlers, CreatePayment(h) PROVE GroupInv'
  BY <1>5 DEF CreatePayment
<1>6. ASSUME NEW h \in Handlers, RecordEvent(h) PROVE GroupInv'
  BY <1>6 DEF RecordEvent, HandlerFrame
<1>7. ASSUME NEW h \in Handlers, VerifySignature(h) PROVE GroupInv'
  BY <1>7 DEF VerifySignature, HandlerFrame
<1>8. ASSUME NEW h \in Handlers, CheckStatus(h) PROVE GroupInv'
  BY <1>8 DEF CheckStatus, HandlerFrame
<1>9. ASSUME NEW h \in Handlers, GatewayAnswers(h) PROVE GroupInv'
  BY <1>9 DEF GatewayAnswers, HandlerFrame
<1>10. ASSUME NEW h \in Handlers, SavePayment(h) PROVE GroupInv'
  <2>1. EffectOf(handler[h].next) \notin {"offering", "paidGroup"}
    BY DEF EffectOf
  <2>2. \A o \in Orders : ~(o < 1)
    BY DEF Orders
  <2> QED BY <1>10, <2>1, <2>2 DEF SavePayment, HandlerFrame
<1>11. ASSUME NEW h \in Handlers, BookOrder(h) PROVE GroupInv'
  <2>1. captured \subseteq captured' /\ handler[h].order \in captured'
    BY <1>11 DEF BookOrder, AlreadyBooked
  <2>2. ASSUME NEW g \in Handlers, g # h PROVE handler'[g] = handler[g]
    BY <1>11, <2>2 DEF BookOrder
  <2>3. handler'[h].stage = "offering" /\ handler'[h].order = handler[h].order
    BY <1>11 DEF BookOrder
  <2>4. \A o \in Orders : o <= handler[h].order => o \in captured'
    <3>1. \A o \in Orders : o < handler[h].order => o \in captured
      BY <1>11 DEF BookOrder
    <3>2. \A o \in Orders : o <= handler[h].order =>
             o < handler[h].order \/ o = handler[h].order
      BY DEF Orders
    <3> QED BY <2>1, <3>1, <3>2
  <2>5. group' = group /\ captured' \subseteq Orders
    BY <1>11 DEF BookOrder
  <2> QED BY <2>1, <2>2, <2>3, <2>4, <2>5
<1>12. ASSUME NEW h \in Handlers, OfferOrder(h) PROVE GroupInv'
  <2>1. captured' = captured /\ group' = group
    BY <1>12 DEF OfferOrder
  <2>2. ASSUME NEW g \in Handlers, g # h PROVE handler'[g] = handler[g]
    BY <1>12, <2>2 DEF OfferOrder
  <2>3. \A o \in Orders : o <= handler[h].order => o \in captured
    BY <1>12 DEF OfferOrder
  <2>4. CASE IsLast(handler[h].order)
    <3>1. handler'[h].stage = "paidGroup"
      BY <1>12, <2>4 DEF OfferOrder
    <3>2. \A o \in Orders : o \in captured
      BY <2>3, <2>4 DEF IsLast, Orders
    <3> QED BY <2>1, <2>2, <3>1, <3>2
  <2>5. CASE ~IsLast(handler[h].order)
    <3>1. /\ handler'[h].stage = "booking"
          /\ handler'[h].order = handler[h].order + 1
      BY <1>12, <2>5 DEF OfferOrder
    <3>2. \A o \in Orders : o < handler[h].order + 1 => o \in captured
      BY <2>3 DEF Orders
    <3> QED BY <2>1, <2>2, <3>1, <3>2
  <2> QED BY <2>4, <2>5
<1>13. ASSUME NEW h \in Handlers, MarkGroupPaid(h) PROVE GroupInv'
  BY <1>13 DEF MarkGroupPaid, EffectFrame
<1>14. ASSUME NEW h \in Handlers, FailOrders(h) PROVE GroupInv'
  BY <1>14 DEF FailOrders, EffectFrame
<1>15. ASSUME NEW h \in Handlers, MarkGroupFailed(h) PROVE GroupInv'
  BY <1>15 DEF MarkGroupFailed, EffectFrame
<1>16. ASSUME NEW h \in Handlers, ResetOrders(h) PROVE GroupInv'
  BY <1>16 DEF ResetOrders, EffectFrame
<1>17. ASSUME NEW h \in Handlers, AbandonOrders(h) PROVE GroupInv'
  BY <1>17 DEF AbandonOrders
<1>18. ASSUME NEW h \in Handlers, AbandonGroup(h) PROVE GroupInv'
  BY <1>18 DEF AbandonGroup, EffectFrame
<1>19. ASSUME NEW h \in Handlers, AbandonPayments(h) PROVE GroupInv'
  BY <1>19 DEF AbandonPayments
<1>20. ASSUME NEW h \in Handlers, StartRefund(h) PROVE GroupInv'
  <2>1. PICK stage \in {"recorded", "refused", "calling"}, p \in Payments :
          ReadOrder(h, stage, p)
    BY <1>20, PaymentsAssumption DEF StartRefund, CapturedPayments, Payments
  <2>2. \A g \in Handlers :
          handler'[g].stage \in {"loaded", "booking", "offering", "paidGroup"}
            => handler'[g] = handler[g]
    BY <2>1 DEF ReadOrder
  <2> QED BY <1>20, <2>2 DEF StartRefund, RefundFrame
<1>21. ASSUME NEW h \in Handlers, GatewayRefunds(h) PROVE GroupInv'
  <2>1. \A g \in Handlers :
          handler'[g].stage \in {"loaded", "booking", "offering", "paidGroup"}
            => handler'[g] = handler[g]
    <3>1. ASSUME NEW g \in Handlers, g # h PROVE handler'[g] = handler[g]
      BY <1>21, <3>1 DEF GatewayRefunds
    <3>2. CASE Continue(h, "refunded")
      BY <3>1, <3>2
    <3>3. CASE Become(h, [handler[h] EXCEPT !.stage = "refused", !.pay = 1])
      BY <3>1, <3>3
    <3> QED BY <1>21, <3>2, <3>3 DEF GatewayRefunds
  <2> QED BY <1>21, <2>1 DEF GatewayRefunds, RefundFrame
<1>22. ASSUME NEW h \in Handlers, SaveRefund(h) PROVE GroupInv'
  BY <1>22 DEF SaveRefund, RefundFrame
<1>23. ASSUME NEW h \in Handlers, CommitRefund(h) PROVE GroupInv'
  BY <1>23 DEF CommitRefund, RefundFrame
<1>24. ASSUME NEW h \in Handlers, AbortRefund(h) PROVE GroupInv'
  BY <1>24 DEF AbortRefund, RefundFrame
<1>25. ASSUME NEW h \in Handlers, CloseGroup(h) PROVE GroupInv'
  BY <1>25 DEF CloseGroup, RefundFrame
<1>26. CASE UNCHANGED paymentVars
  BY <1>26 DEF paymentVars
<1> QED
  BY <1>1, <1>2, <1>3, <1>4, <1>5, <1>6, <1>7, <1>8, <1>9, <1>10, <1>11,
     <1>12, <1>13, <1>14, <1>15, <1>16, <1>17, <1>18, <1>19, <1>20, <1>21,
     <1>22, <1>23, <1>24, <1>25, <1>26
     DEF PaymentNext, AttemptStep, StatusStep, EffectStep, RefundStep

(* One handler at a time compensates an order. *)
LEMMA RefundInvStep ==
    ASSUME PaymentIInv, [PaymentNext]_paymentVars
    PROVE  RefundInv'
<1> USE DEF PaymentIInv, PaymentTypeOK, orderVars, gatewayVars, At,
            GatewayInv, HandlerState, Become, Continue, Finish, Idle,
            RefundInv, Compensates, Compensation, RecordedRefundsWereMade
<1>1. ASSUME NEW p \in Payments, CustomerPays(p) PROVE RefundInv'
  BY <1>1 DEF CustomerPays, Payable, Notice
<1>2. ASSUME NEW o \in Orders, SellerAccepts(o) PROVE RefundInv'
  BY <1>2 DEF SellerAccepts
<1>3. ASSUME NEW h \in Handlers, NEW o \in Orders, CallOffOrder(h, o)
      PROVE  RefundInv'
  BY <1>3 DEF CallOffOrder, MayCallOff, Become, Idle
<1>4. ASSUME NEW h \in Handlers, CheckEligibility(h) PROVE RefundInv'
  BY <1>4 DEF CheckEligibility
<1>5. ASSUME NEW h \in Handlers, CreatePayment(h) PROVE RefundInv'
  BY <1>5 DEF CreatePayment
<1>6. ASSUME NEW h \in Handlers, RecordEvent(h) PROVE RefundInv'
  BY <1>6 DEF RecordEvent, HandlerFrame
<1>7. ASSUME NEW h \in Handlers, VerifySignature(h) PROVE RefundInv'
  BY <1>7 DEF VerifySignature, HandlerFrame
<1>8. ASSUME NEW h \in Handlers, CheckStatus(h) PROVE RefundInv'
  BY <1>8 DEF CheckStatus, HandlerFrame
<1>9. ASSUME NEW h \in Handlers, GatewayAnswers(h) PROVE RefundInv'
  BY <1>9 DEF GatewayAnswers, HandlerFrame
<1>10. ASSUME NEW h \in Handlers, SavePayment(h) PROVE RefundInv'
  <2>1. EffectOf(handler[h].next) \notin Compensation
    BY DEF EffectOf
  <2> QED BY <1>10, <2>1 DEF SavePayment, HandlerFrame
<1>11. ASSUME NEW h \in Handlers, BookOrder(h) PROVE RefundInv'
  BY <1>11 DEF BookOrder, EffectFrame
<1>12. ASSUME NEW h \in Handlers, OfferOrder(h) PROVE RefundInv'
  <2>1. handler'[h].stage \in {"paidGroup", "booking"}
    <3>1. CASE IsLast(handler[h].order)
      BY <1>12, <3>1 DEF OfferOrder
    <3>2. CASE ~IsLast(handler[h].order)
      <4>1. Become(h, [Idle EXCEPT !.stage = "booking",
                                   !.order = handler[h].order + 1])
        BY <1>12, <3>2 DEF OfferOrder
      <4> QED BY <4>1
    <3> QED BY <3>1, <3>2
  <2>2. ASSUME NEW g \in Handlers, g # h PROVE handler'[g] = handler[g]
    BY <1>12, <2>2 DEF OfferOrder
  <2>3. ASSUME NEW o \in Orders, workflow[o] = "CANCELLED"
        PROVE  workflow'[o] = "CANCELLED"
    BY <1>12, <2>3 DEF OfferOrder
  <2>4. UNCHANGED <<funding, paymentStatus, captured, refunds>>
    BY <1>12 DEF OfferOrder, EffectFrame
  <2>5. ASSUME NEW g \in Handlers, NEW o \in Orders, Compensates(g, o)'
        PROVE  Compensates(g, o) /\ handler'[g] = handler[g]
    BY <2>1, <2>2, <2>5
  <2> QED BY <2>3, <2>4, <2>5
<1>13. ASSUME NEW h \in Handlers, MarkGroupPaid(h) PROVE RefundInv'
  BY <1>13 DEF MarkGroupPaid, EffectFrame
<1>14. ASSUME NEW h \in Handlers, FailOrders(h) PROVE RefundInv'
  BY <1>14 DEF FailOrders, EffectFrame
<1>15. ASSUME NEW h \in Handlers, MarkGroupFailed(h) PROVE RefundInv'
  BY <1>15 DEF MarkGroupFailed, EffectFrame
<1>16. ASSUME NEW h \in Handlers, ResetOrders(h) PROVE RefundInv'
  BY <1>16 DEF ResetOrders, EffectFrame
<1>17. ASSUME NEW h \in Handlers, AbandonOrders(h) PROVE RefundInv'
  BY <1>17 DEF AbandonOrders
<1>18. ASSUME NEW h \in Handlers, AbandonGroup(h) PROVE RefundInv'
  BY <1>18 DEF AbandonGroup, EffectFrame
<1>19. ASSUME NEW h \in Handlers, AbandonPayments(h) PROVE RefundInv'
  BY <1>19 DEF AbandonPayments
<1>20. ASSUME NEW h \in Handlers, StartRefund(h) PROVE RefundInv'
  <2>1. PICK stage \in {"recorded", "refused", "calling"}, p \in Payments :
          /\ ReadOrder(h, stage, p)
          /\ stage = "calling" => RefundDue(handler[h].order)
          /\ stage = "recorded" => \/ ~RefundDue(handler[h].order)
                                   \/ AlreadyRefunded(handler[h].order)
    BY <1>20, PaymentsAssumption DEF StartRefund, CapturedPayments, Payments
  <2>2. /\ handler'[h].stage = stage
        /\ handler'[h].order = handler[h].order
        /\ handler'[h].booked = (handler[h].order \in captured)
    BY <2>1 DEF ReadOrder
  <2>3. ASSUME NEW g \in Handlers, g # h PROVE handler'[g] = handler[g]
    BY <2>1, <2>3 DEF ReadOrder
  <2>4. UNCHANGED <<funding, workflow, paymentStatus, captured, refunds>>
    BY <1>20 DEF StartRefund, RefundFrame
  <2>5. \A g \in Handlers, o \in Orders :
           Compensates(g, o)' => Compensates(g, o)
    BY <1>20, <2>2, <2>3 DEF StartRefund
  <2>6. ASSUME NEW g \in Handlers, NEW o \in Orders, Compensates(g, o)'
        PROVE  /\ At(g, "compensating")' \/ At(g, "calling")' => refunds[o] = 0
               /\ At(g, "calling")' => o \in captured
               /\ At(g, "refunded")' => refunds[o] = 1
               /\ /\ At(g, "recorded")'
                  /\ handler'[g].booked /\ funding = "gateway"
                  => refunds[o] = 1
    <3>1. CASE g = h
      <4>1. o = handler[h].order /\ refunds[o] = 0
        BY <1>20, <2>2, <2>6, <3>1 DEF StartRefund
      <4>2. ~AlreadyRefunded(o)
        BY <4>1 DEF AlreadyRefunded
      <4> QED
        BY <1>20, <2>1, <2>2, <2>6, <3>1, <4>1, <4>2 DEF RefundDue
    <3>2. CASE g # h
      BY <2>3, <2>5, <2>6, <3>2
    <3> QED BY <3>1, <3>2
  <2> QED BY <2>4, <2>5, <2>6
<1>21. ASSUME NEW h \in Handlers, GatewayRefunds(h) PROVE RefundInv'
  <2>1. /\ handler'[h].stage \in {"refunded", "refused"}
        /\ handler'[h].order = handler[h].order
        /\ handler'[h].stage = "refunded"
              => refunds' = [refunds EXCEPT ![handler[h].order] = @ + 1]
        /\ handler'[h].stage = "refused" => refunds' = refunds
    <3>1. CASE /\ refunds' = [refunds EXCEPT ![handler[h].order] = @ + 1]
               /\ Continue(h, "refunded")
      BY <3>1
    <3>2. CASE /\ Become(h, [handler[h] EXCEPT !.stage = "refused", !.pay = 1])
               /\ UNCHANGED refunds
      BY <3>2
    <3> QED BY <1>21, <3>1, <3>2 DEF GatewayRefunds
  <2>2. ASSUME NEW g \in Handlers, g # h PROVE handler'[g] = handler[g]
    BY <1>21, <2>2 DEF GatewayRefunds
  <2>3. UNCHANGED <<funding, workflow, paymentStatus, captured>>
    BY <1>21 DEF GatewayRefunds, RefundFrame
  <2>4. Compensates(h, handler[h].order) /\ handler[h].order \in Orders
    BY <1>21 DEF GatewayRefunds
  <2>5. \A g \in Handlers, o \in Orders :
           Compensates(g, o)' => Compensates(g, o)
    BY <2>1, <2>2, <2>4
  <2>6. /\ refunds[handler[h].order] = 0 /\ handler[h].order \in captured
        /\ workflow[handler[h].order] = "CANCELLED"
    BY <1>21, <2>4 DEF GatewayRefunds
  <2>7. ASSUME NEW g \in Handlers, g # h, NEW o \in Orders, Compensates(g, o)
        PROVE  refunds'[o] = refunds[o]
    BY <2>1, <2>4, <2>7
  <2>8. /\ refunds'[handler[h].order] =
              IF handler'[h].stage = "refunded" THEN 1 ELSE 0
        /\ \A o \in Orders : o # handler[h].order => refunds'[o] = refunds[o]
    BY <2>1, <2>4, <2>6
  <2> QED BY <2>1, <2>2, <2>3, <2>4, <2>5, <2>6, <2>7, <2>8
<1>22. ASSUME NEW h \in Handlers, SaveRefund(h) PROVE RefundInv'
  BY <1>22 DEF SaveRefund, RefundFrame
<1>23. ASSUME NEW h \in Handlers, CommitRefund(h) PROVE RefundInv'
  <2>1. handler'[h].stage = "closing"
    BY <1>23 DEF CommitRefund
  <2>2. ASSUME NEW g \in Handlers, g # h PROVE handler'[g] = handler[g]
    BY <1>23, <2>2 DEF CommitRefund
  <2>3. UNCHANGED <<funding, workflow, captured, refunds>>
    BY <1>23 DEF CommitRefund, RefundFrame
  <2>4. ASSUME NEW g \in Handlers, NEW o \in Orders, Compensates(g, o)'
        PROVE  Compensates(g, o) /\ handler'[g] = handler[g]
    BY <2>1, <2>2, <2>4
  <2>5. ASSUME NEW o \in Orders, paymentStatus'[o] = "REFUNDED"
        PROVE  refunds[o] = 1
    <3>1. CASE o = handler[h].order
      BY <1>23, <2>5, <3>1 DEF CommitRefund, RefundOutcome
    <3>2. CASE o # handler[h].order
      BY <1>23, <2>5, <3>2 DEF CommitRefund
    <3> QED BY <3>1, <3>2
  <2> QED BY <2>3, <2>4, <2>5
<1>24. ASSUME NEW h \in Handlers, AbortRefund(h) PROVE RefundInv'
  BY <1>24 DEF AbortRefund, RefundFrame
<1>25. ASSUME NEW h \in Handlers, CloseGroup(h) PROVE RefundInv'
  BY <1>25 DEF CloseGroup, RefundFrame
<1>26. CASE UNCHANGED paymentVars
  BY <1>26 DEF paymentVars
<1> QED
  BY <1>1, <1>2, <1>3, <1>4, <1>5, <1>6, <1>7, <1>8, <1>9, <1>10, <1>11,
     <1>12, <1>13, <1>14, <1>15, <1>16, <1>17, <1>18, <1>19, <1>20, <1>21,
     <1>22, <1>23, <1>24, <1>25, <1>26
     DEF PaymentNext, AttemptStep, StatusStep, EffectStep, RefundStep

----------------------------------------------------------------------------
LEMMA PaymentInitInductive == PaymentInit => PaymentIInv
<1> SUFFICES ASSUME PaymentInit PROVE PaymentIInv
  OBVIOUS
<1> USE DEF PaymentInit
<1>1. [Idle EXCEPT !.stage = "booking"] \in HandlerState
  BY IdleType DEF HandlerState, STAGE
<1>2. /\ handler \in [Handlers -> HandlerState]
      /\ \A h \in Handlers :
            \/ handler[h] = Idle
            \/ handler[h] = [Idle EXCEPT !.stage = "booking"] /\ funding = "wallet"
  BY <1>1, IdleType
<1>3. PaymentTypeOK
  <2>1. tries \in [Payments -> 0..MaxTries]
    BY TriesAssumption
  <2>2. /\ workflow \in [Orders -> {"CREATED", "SELLER_PENDING",
                                    "SELLER_ACCEPTED", "CANCELLED"}]
        /\ paymentStatus \in [Orders -> ORDER_PAYMENT_STATUS]
        /\ credits \in [Orders -> Nat] /\ refunds \in [Orders -> Nat]
    BY DEF ORDER_PAYMENT_STATUS
  <2>3. /\ payment \in [Payments -> PAYMENT_STATUS \cup {"none"}]
        /\ gateway \in [Payments -> {"none", "created", "attempted", "paid"}]
    OBVIOUS
  <2> QED BY <1>2, <2>1, <2>2, <2>3 DEF PaymentTypeOK
<1>4. GatewayInv
  BY DEF GatewayInv
<1>5. MoneyInv
  BY <1>2 DEF MoneyInv, Paid, Booking, At, Idle
<1>6. GroupInv
  BY <1>2 DEF GroupInv, PaidGroupIsBooked, At, Idle, Orders
<1>7. RefundInv
  BY <1>2 DEF RefundInv, Compensates, Compensation, RecordedRefundsWereMade,
       At, Idle
<1> QED BY <1>3, <1>4, <1>5, <1>6, <1>7 DEF PaymentIInv

(* The inductive invariant holds in every reachable state. *)
THEOREM PaymentInductive == PaymentSpec => []PaymentIInv
<1>1. PaymentIInv /\ [PaymentNext]_paymentVars => PaymentIInv'
  <2> SUFFICES ASSUME PaymentIInv, [PaymentNext]_paymentVars PROVE PaymentIInv'
    OBVIOUS
  <2>1. PaymentTypeOK'
    BY HandlerTypes, DocumentsKeepTypes DEF PaymentTypeOK, DocumentTypes
  <2> QED BY <2>1, GatewayStep, MoneyStep, GroupStep,
  RefundInvStep DEF PaymentIInv
<1> QED BY <1>1, PaymentInitInductive, PTL DEF PaymentSpec

(* Documents, gateway and handlers keep their types; in particular no      *)
(* webhook, check or refund gives a payment a status it cannot have.       *)
THEOREM PaymentTypeCorrect == PaymentSpec => []PaymentTypeOK
<1>1. PaymentIInv => PaymentTypeOK
  BY DEF PaymentIInv
<1> QED BY <1>1, PaymentInductive, PTL

(* However many webhooks, checks and gateway orders there are, the admin   *)
(* wallet is credited once per order, and only for money that was paid.    *)
THEOREM OrdersAreCreditedOnce == PaymentSpec => []CreditedOnceAndPaidFor
<1>1. PaymentIInv => CreditedOnceAndPaidFor
  BY DEF PaymentIInv, MoneyInv, Paid, CreditedOnceAndPaidFor
<1> QED BY <1>1, PaymentInductive, PTL

(* A group, of any size, says PAID only when each of its orders is booked, *)
(* wherever the handlers that book them stop.                              *)
THEOREM PaidGroupsAreBooked == PaymentSpec => []PaidGroupIsBooked
<1>1. PaymentIInv => PaidGroupIsBooked
  BY DEF PaymentIInv, GroupInv
<1> QED BY <1>1, PaymentInductive, PTL

(* No order is recorded as REFUNDED that the gateway did not refund.       *)
THEOREM RecordedRefundsAreReal == PaymentSpec => []RecordedRefundsWereMade
<1>1. PaymentIInv => RecordedRefundsWereMade
  BY DEF PaymentIInv, RefundInv
<1> QED BY <1>1, PaymentInductive, PTL

----------------------------------------------------------------------------
(* The contract: what an order's documents mean for it.                    *)

(* The counts an order may have. *)
LEMMA MoneyValues ==
    /\ MoneyOf(0, 0) = "none"
    /\ MoneyOf(1, 0) = "held"
    /\ MoneyOf(1, 1) = "returned"
  BY DEF MoneyOf

LEMMA ContractStart == PaymentInit => Contract!CheckoutInit
  BY MoneyValues DEF PaymentInit, Contract!CheckoutInit, orderPhase, orderMoney

(* Only a credit, a refund or a workflow status means anything to it.      *)
LEMMA ContractStutters ==
    UNCHANGED <<workflow, credits, refunds>> => UNCHANGED Contract!checkoutVars
  BY DEF Contract!checkoutVars, orderPhase, orderMoney

LEMMA MoneyMoves ==
    ASSUME NEW o \in Orders, NEW kind, orderMoney'[o] = kind,
           \A x \in Orders : x # o => orderMoney'[x] = orderMoney[x]
    PROVE  orderMoney' = [orderMoney EXCEPT ![o] = kind]
<1>1. orderMoney = [x \in Orders |-> orderMoney[x]]
  BY DEF orderMoney
<1>2. orderMoney' = [x \in Orders |-> orderMoney'[x]]
  BY DEF orderMoney
<1> HIDE DEF orderMoney
<1> QED BY <1>1, <1>2

(* Every step is one of the contract's, or means nothing to it. *)
LEMMA ContractStep ==
    ASSUME PaymentIInv, [PaymentNext]_paymentVars
    PROVE  Contract!CheckoutNext \/ UNCHANGED Contract!checkoutVars
<1> USE DEF PaymentIInv, PaymentTypeOK, orderVars, gatewayVars,
            Contract!CheckoutNext
<1>1. ASSUME NEW p \in Payments, CustomerPays(p)
      PROVE  Contract!CheckoutNext \/ UNCHANGED Contract!checkoutVars
  BY <1>1, ContractStutters DEF CustomerPays
<1>2. ASSUME NEW o \in Orders, SellerAccepts(o)
      PROVE  Contract!CheckoutNext \/ UNCHANGED Contract!checkoutVars
  <2>1. /\ workflow[o] = "SELLER_PENDING"
        /\ workflow' = [workflow EXCEPT ![o] = "SELLER_ACCEPTED"]
        /\ UNCHANGED <<credits, refunds>>
    BY <1>2 DEF SellerAccepts
  <2>2. Contract!Accept(o)
    BY <2>1 DEF Contract!Accept, Contract!Move, orderPhase, orderMoney
  <2> QED BY <2>2
<1>3. ASSUME NEW h \in Handlers, NEW o \in Orders, CallOffOrder(h, o)
      PROVE  Contract!CheckoutNext \/ UNCHANGED Contract!checkoutVars
  <2>1. /\ workflow[o] # "CANCELLED"
        /\ workflow' = [workflow EXCEPT ![o] = "CANCELLED"]
        /\ UNCHANGED <<credits, refunds>>
    BY <1>3 DEF CallOffOrder, MayCallOff
  <2>2. Contract!CallOff({o})
    BY <2>1 DEF Contract!CallOff, orderPhase, orderMoney
  <2> QED BY <2>2
<1>4. ASSUME NEW h \in Handlers, CheckEligibility(h)
      PROVE  Contract!CheckoutNext \/ UNCHANGED Contract!checkoutVars
  BY <1>4, ContractStutters DEF CheckEligibility
<1>5. ASSUME NEW h \in Handlers, CreatePayment(h)
      PROVE  Contract!CheckoutNext \/ UNCHANGED Contract!checkoutVars
  BY <1>5, ContractStutters DEF CreatePayment
<1>6. ASSUME NEW h \in Handlers, RecordEvent(h)
      PROVE  Contract!CheckoutNext \/ UNCHANGED Contract!checkoutVars
  BY <1>6, ContractStutters DEF RecordEvent, HandlerFrame
<1>7. ASSUME NEW h \in Handlers, VerifySignature(h)
      PROVE  Contract!CheckoutNext \/ UNCHANGED Contract!checkoutVars
  BY <1>7, ContractStutters DEF VerifySignature, HandlerFrame
<1>8. ASSUME NEW h \in Handlers, CheckStatus(h)
      PROVE  Contract!CheckoutNext \/ UNCHANGED Contract!checkoutVars
  BY <1>8, ContractStutters DEF CheckStatus, HandlerFrame
<1>9. ASSUME NEW h \in Handlers, GatewayAnswers(h)
      PROVE  Contract!CheckoutNext \/ UNCHANGED Contract!checkoutVars
  BY <1>9, ContractStutters DEF GatewayAnswers, HandlerFrame
<1>10. ASSUME NEW h \in Handlers, SavePayment(h)
       PROVE  Contract!CheckoutNext \/ UNCHANGED Contract!checkoutVars
  BY <1>10, ContractStutters DEF SavePayment, HandlerFrame
<1>11. ASSUME NEW h \in Handlers, BookOrder(h)
       PROVE  Contract!CheckoutNext \/ UNCHANGED Contract!checkoutVars
  <2> DEFINE o == handler[h].order
  <2>1. o \in Orders /\ UNCHANGED <<workflow, refunds>>
    BY <1>11 DEF BookOrder, EffectFrame, HandlerState
  <2>2. CASE AlreadyBooked(o)
    BY <1>11, <2>1, <2>2, ContractStutters DEF BookOrder
  <2>3. CASE ~AlreadyBooked(o)
    <3>1. credits' = [credits EXCEPT ![o] = @ + 1] /\ o \notin captured
      BY <1>11, <2>3 DEF BookOrder, AlreadyBooked
    <3>2. credits[o] = 0 /\ refunds[o] = 0
      BY <2>1, <3>1 DEF MoneyInv, RefundInv
    <3> HIDE DEF o
    <3>3. Contract!Book(o)
      <4>1. orderMoney[o] = "none" /\ UNCHANGED orderPhase
        BY <2>1, <3>2, MoneyValues DEF orderMoney, orderPhase
      <4>2. orderMoney' = [orderMoney EXCEPT ![o] = "held"]
        <5>1. credits'[o] = 1 /\ refunds'[o] = 0
          BY <2>1, <3>1, <3>2
        <5>2. \A x \in Orders : x # o => credits'[x] = credits[x] /\ refunds'[x] = refunds[x]
          BY <2>1, <3>1
        <5>3. orderMoney'[o] = "held"
          BY <2>1, <5>1, MoneyValues DEF orderMoney
        <5>4. \A x \in Orders : x # o => orderMoney'[x] = orderMoney[x]
          BY <5>2 DEF orderMoney
        <5> QED BY <2>1, <5>3, <5>4, MoneyMoves
      <4> QED BY <4>1, <4>2 DEF Contract!Book
    <3> QED BY <2>1, <3>3
  <2> QED BY <2>2, <2>3
<1>12. ASSUME NEW h \in Handlers, OfferOrder(h)
       PROVE  Contract!CheckoutNext \/ UNCHANGED Contract!checkoutVars
  <2> DEFINE o == handler[h].order
  <2>1. o \in Orders /\ UNCHANGED <<credits, refunds>>
    BY <1>12 DEF OfferOrder, EffectFrame, HandlerState
  <2>2. CASE workflow[o] = "CREATED"
    <3>1. workflow' = [workflow EXCEPT ![o] = "SELLER_PENDING"]
      BY <1>12, <2>2 DEF OfferOrder
    <3>2. o \in captured
      BY <1>12, <2>1 DEF OfferOrder, GroupInv, At, Orders
    <3>3. credits[o] = 1 /\ refunds[o] = 0
      BY <2>1, <2>2, <3>2 DEF MoneyInv, RefundInv
    <3> HIDE DEF o
    <3>4. Contract!Offer(o)
      <4>1. /\ orderMoney[o] = "held" /\ UNCHANGED orderMoney
            /\ orderPhase[o] = "unpaid"
        BY <2>1, <2>2, <3>3, MoneyValues DEF orderMoney, orderPhase
      <4>2. orderPhase' = [orderPhase EXCEPT ![o] = "offered"]
        BY <2>1, <3>1 DEF orderPhase
      <4> QED BY <4>1, <4>2 DEF Contract!Offer, Contract!Move
    <3> QED BY <2>1, <3>4
  <2>3. CASE workflow[o] # "CREATED"
    BY <1>12, <2>1, <2>3, ContractStutters DEF OfferOrder
  <2> QED BY <2>2, <2>3
<1>13. ASSUME NEW h \in Handlers, MarkGroupPaid(h)
       PROVE  Contract!CheckoutNext \/ UNCHANGED Contract!checkoutVars
  BY <1>13, ContractStutters DEF MarkGroupPaid, EffectFrame
<1>14. ASSUME NEW h \in Handlers, FailOrders(h)
       PROVE  Contract!CheckoutNext \/ UNCHANGED Contract!checkoutVars
  <2> DEFINE off == {o \in Orders : workflow[o] = "CREATED"}
  <2>1. /\ off \in SUBSET Orders
        /\ \A o \in off : workflow[o] # "CANCELLED"
        /\ workflow' = [o \in Orders |->
                          IF o \in off THEN "CANCELLED" ELSE workflow[o]]
        /\ UNCHANGED <<credits, refunds>>
    BY <1>14 DEF FailOrders, EffectFrame
  <2> HIDE DEF off
  <2>2. Contract!CallOff(off)
    BY <2>1 DEF Contract!CallOff, orderPhase, orderMoney
  <2> QED BY <2>1, <2>2
<1>15. ASSUME NEW h \in Handlers, MarkGroupFailed(h)
       PROVE  Contract!CheckoutNext \/ UNCHANGED Contract!checkoutVars
  BY <1>15, ContractStutters DEF MarkGroupFailed, EffectFrame
<1>16. ASSUME NEW h \in Handlers, ResetOrders(h)
       PROVE  Contract!CheckoutNext \/ UNCHANGED Contract!checkoutVars
  BY <1>16, ContractStutters DEF ResetOrders, EffectFrame
<1>17. ASSUME NEW h \in Handlers, AbandonOrders(h)
       PROVE  Contract!CheckoutNext \/ UNCHANGED Contract!checkoutVars
  <2> DEFINE off == {o \in Orders : Abandonable(o)}
  <2>1. /\ off \in SUBSET Orders
        /\ \A o \in off : workflow[o] # "CANCELLED"
        /\ workflow' = [o \in Orders |->
                          IF o \in off THEN "CANCELLED" ELSE workflow[o]]
        /\ UNCHANGED <<credits, refunds>>
    BY <1>17 DEF AbandonOrders, Abandonable
  <2> HIDE DEF off
  <2>2. Contract!CallOff(off)
    BY <2>1 DEF Contract!CallOff, orderPhase, orderMoney
  <2> QED BY <2>1, <2>2
<1>18. ASSUME NEW h \in Handlers, AbandonGroup(h)
       PROVE  Contract!CheckoutNext \/ UNCHANGED Contract!checkoutVars
  BY <1>18, ContractStutters DEF AbandonGroup, EffectFrame
<1>19. ASSUME NEW h \in Handlers, AbandonPayments(h)
       PROVE  Contract!CheckoutNext \/ UNCHANGED Contract!checkoutVars
  BY <1>19, ContractStutters DEF AbandonPayments
<1>20. ASSUME NEW h \in Handlers, StartRefund(h)
       PROVE  Contract!CheckoutNext \/ UNCHANGED Contract!checkoutVars
  BY <1>20, ContractStutters DEF StartRefund, RefundFrame
<1>21. ASSUME NEW h \in Handlers, GatewayRefunds(h)
       PROVE  Contract!CheckoutNext \/ UNCHANGED Contract!checkoutVars
  <2> DEFINE o == handler[h].order
  <2>1. o \in Orders /\ UNCHANGED <<workflow, credits>>
    BY <1>21 DEF GatewayRefunds, RefundFrame, HandlerState
  <2>2. CASE UNCHANGED refunds
    BY <2>1, <2>2, ContractStutters
  <2>3. CASE refunds' = [refunds EXCEPT ![o] = @ + 1]
    <3>1. Compensates(h, o) /\ At(h, "calling")
      BY <1>21 DEF GatewayRefunds, Compensates, Compensation, At
    <3>2. refunds[o] = 0 /\ credits[o] = 1 /\ workflow[o] = "CANCELLED"
      BY <2>1, <3>1 DEF RefundInv, MoneyInv
    <3> HIDE DEF o
    <3>3. Contract!Return(o)
      <4>1. /\ orderMoney[o] = "held" /\ orderPhase[o] = "off"
            /\ UNCHANGED orderPhase
        BY <2>1, <3>2, MoneyValues DEF orderMoney, orderPhase
      <4>2. orderMoney' = [orderMoney EXCEPT ![o] = "returned"]
        <5>1. credits'[o] = 1 /\ refunds'[o] = 1
          BY <2>1, <2>3, <3>2
        <5>2. \A x \in Orders : x # o => credits'[x] = credits[x] /\ refunds'[x] = refunds[x]
          BY <2>1, <2>3
        <5>3. orderMoney'[o] = "returned"
          BY <2>1, <5>1, MoneyValues DEF orderMoney
        <5>4. \A x \in Orders : x # o => orderMoney'[x] = orderMoney[x]
          BY <5>2 DEF orderMoney
        <5> QED BY <2>1, <5>3, <5>4, MoneyMoves
      <4> QED BY <4>1, <4>2 DEF Contract!Return
    <3> QED BY <2>1, <3>3
  <2> QED BY <1>21, <2>2, <2>3 DEF GatewayRefunds
<1>22. ASSUME NEW h \in Handlers, SaveRefund(h)
       PROVE  Contract!CheckoutNext \/ UNCHANGED Contract!checkoutVars
  BY <1>22, ContractStutters DEF SaveRefund, RefundFrame
<1>23. ASSUME NEW h \in Handlers, CommitRefund(h)
       PROVE  Contract!CheckoutNext \/ UNCHANGED Contract!checkoutVars
  BY <1>23, ContractStutters DEF CommitRefund, RefundFrame
<1>24. ASSUME NEW h \in Handlers, AbortRefund(h)
       PROVE  Contract!CheckoutNext \/ UNCHANGED Contract!checkoutVars
  BY <1>24, ContractStutters DEF AbortRefund, RefundFrame
<1>25. ASSUME NEW h \in Handlers, CloseGroup(h)
       PROVE  Contract!CheckoutNext \/ UNCHANGED Contract!checkoutVars
  BY <1>25, ContractStutters DEF CloseGroup, RefundFrame
<1>26. CASE UNCHANGED paymentVars
  BY <1>26, ContractStutters DEF paymentVars
<1> QED
  BY <1>1, <1>2, <1>3, <1>4, <1>5, <1>6, <1>7, <1>8, <1>9, <1>10, <1>11,
     <1>12, <1>13, <1>14, <1>15, <1>16, <1>17, <1>18, <1>19, <1>20, <1>21,
     <1>22, <1>23, <1>24, <1>25, <1>26
     DEF PaymentNext, AttemptStep, StatusStep, EffectStep, RefundStep

(* The payment service implements CheckoutContract, for any number of      *)
(* orders, payments, events and handlers, wherever they stop.              *)
THEOREM CheckoutContractHolds == PaymentSpec => CheckoutKept
<1>1. PaymentIInv /\ [PaymentNext]_paymentVars
         => [Contract!CheckoutNext]_(Contract!checkoutVars)
  BY ContractStep
<1> QED BY <1>1, PaymentInductive, ContractStart, PTL
        DEF PaymentSpec, CheckoutKept, Contract!CheckoutSpec
=============================================================================
