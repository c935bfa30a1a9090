------------------------ MODULE OrderProgressProofs ------------------------
(* What keeps an order moving, for any number of riders, verify requests,  *)
(* search attempts and, where nothing else is said, crashes.               *)
(*                                                                         *)
(* WF_vars(A) speaks of ENABLED <<A>>_vars, which the prover leaves alone. *)
(* GuardsEnable is all the theorems are told about it: an action whose     *)
(* guards hold can be taken.  It is no assumption about the order.         *)
EXTENDS OrderWorkflowProofs

----------------------------------------------------------------------------
(* An online order whose stock is to be taken back.                        *)
Abandoned ==
    /\ workflowStatus = "CREATED" /\ paymentMode = "ONLINE" /\ NeverPaid
    /\ stockReservation # "RELEASED" /\ "reservation" \in expired

(* Once the guards of a fair step hold it can be taken.  A fact about the  *)
(* formulas of OrderWorkflow, which says nothing of the order.             *)
GuardsEnable ==
    /\ "capture" \in inFlight => ENABLED <<MoveOrderToSellerPending>>_vars
    /\ paymentMode = "ONLINE" /\ "reservation" \notin expired
          => ENABLED <<ReservationEnds>>_vars
    /\ Abandoned => ENABLED <<PaymentTimeoutSweep>>_vars
    /\ workflowStatus = "SELLER_PENDING" /\ "seller" \notin expired
          => ENABLED <<SellerWindowEnds>>_vars
    /\ SellerIsLate /\ "sellerTimeoutAlert" \notin alerts
          => ENABLED <<SweepSellerTimeout>>_vars
    /\ searchStarted /\ "search" \notin expired
          => ENABLED <<SearchWindowEnds>>_vars
    /\ searchStarted /\ "search" \in expired /\ timeoutRead["sweep"] = 0
          => ENABLED <<SweepDeliveryTimeout>>_vars
    /\ timeoutRead["sweep"] # 0 => ENABLED <<FinishDeliveryTimeout("sweep")>>_vars
    /\ compensation = "cancelled" => ENABLED <<ReleaseReservedStock>>_vars
    /\ compensation = "restocked" => ENABLED <<SaveRelease>>_vars
    /\ \A t \in Taps : verifying[t] = "delivered"
                          => ENABLED <<ApplyDeliveredSettlement(t)>>_vars
    /\ (\E t \in Taps : verifying[t] = "delivered") => ENABLED <<SomeoneSettles>>_vars

----------------------------------------------------------------------------
(* What no step takes back.  A capture stays; a reservation that has ended *)
(* has ended; the seller's window opens again only with a new offer; no    *)
(* order becomes unpaid again, and only a capture makes one PAID.          *)
NothingTakenBack ==
    /\ captured => captured'
    /\ "reservation" \in expired => "reservation" \in expired'
    /\ workflowStatus = "SELLER_PENDING" /\ "seller" \in expired
          => "seller" \in expired'
    /\ alerts \subseteq alerts'
    /\ workflowStatus' = "CREATED" => workflowStatus = "CREATED"
    /\ paymentMode' = paymentMode
    /\ paymentStatus' = "PAID" => paymentStatus = "PAID" \/ captured'

LEMMA StepTakesNothingBack ==
  ASSUME TypeOK, [Next]_vars
  PROVE  NothingTakenBack
<1> USE DEF NothingTakenBack, captured, TypeOK, orderVars
<1>1. CASE AfterPlaceOrder \/ SellerAcceptJobs \/ DeliveryAcceptJobs \/ PollRead \/ PollWrite
  BY <1>1 DEF AfterPlaceOrder, SellerAcceptJobs, DeliveryAcceptJobs, PollRead, PollWrite
<1>2. CASE HandleOnlineOrderFinance \/ MoveOrderToSellerPending
  BY <1>2 DEF HandleOnlineOrderFinance, MoveOrderToSellerPending, AwaitsPayment
<1>3. CASE PaymentFailed \/ CancelOnlinePaymentAttempt
  BY <1>3 DEF PaymentFailed, CancelOnlinePaymentAttempt, CancelUnpaidOrder, WriteCancelled
<1>4. CASE SellerReject \/ CustomerCancel \/ PaymentTimeoutSweep
  BY <1>4 DEF SellerReject, CustomerCancel, CancelPendingOrder, PaymentTimeoutSweep,
     WriteCancelled
<1>5. CASE SellerAccept
  BY <1>5 DEF SellerAccept
<1>6. CASE ReleaseReservedStock \/ SaveRelease \/ ReverseOrderFinance
  BY <1>6 DEF ReleaseReservedStock, SaveRelease, ReverseOrderFinance, CompensationFrame
<1>7. CASE BullSellerTimeout \/ SweepSellerTimeout
  BY <1>7 DEF BullSellerTimeout, SweepSellerTimeout, RaiseSellerDelay
<1>8. CASE BullDeliveryTimeout \/ SweepDeliveryTimeout
  BY <1>8 DEF BullDeliveryTimeout, SweepDeliveryTimeout, ReadDeliveryTimeout
<1>9. CASE \E w \in TimeoutWorkers : FinishDeliveryTimeout(w)
  <2>1. /\ expired' \in {expired, expired \ {"search"}}
        /\ alerts \subseteq alerts'
        /\ UNCHANGED <<orderVars, paymentStatus>>
    BY <1>9 DEF FinishDeliveryTimeout, SearchIsOver
  <2> QED BY <2>1
<1>10. CASE \E r \in Riders : \/ DeliveryAccept(r) \/ SkipOrder(r)
                             \/ MarkArrivedAtStore(r) \/ ConfirmPickup(r)
                             \/ RequestHandoffOtp(r)
                             \/ \E t \in Taps : VerifyOtp(t, r)
  BY <1>10 DEF DeliveryAccept, SkipOrder, MarkArrivedAtStore, ConfirmPickup, RiderMoves,
     RequestHandoffOtp, VerifyOtp
<1>11. CASE \E t \in Taps : \/ ConsumeOtp(t) \/ FinalizeDelivery(t)
                           \/ ApplyDeliveredSettlement(t)
  BY <1>11 DEF ConsumeOtp, FinalizeDelivery, ApplyDeliveredSettlement
<1>12. CASE SellerWindowEnds \/ SearchWindowEnds \/ ReservationEnds
  BY <1>12 DEF SellerWindowEnds, SearchWindowEnds, ReservationEnds, WindowEnds
<1>13. CASE Crash
  BY <1>13 DEF Crash
<1>14. CASE UNCHANGED vars
  BY <1>14 DEF vars
<1> QED
  BY <1>1, <1>2, <1>3, <1>4, <1>5, <1>6, <1>7, <1>8, <1>9, <1>10, <1>11,
     <1>12, <1>13, <1>14 DEF Next

----------------------------------------------------------------------------
(* An unpaid order is an online order, and only a capture makes it PAID.   *)
UnpaidInv ==
    /\ workflowStatus = "CREATED" => paymentMode = "ONLINE"
    /\ paymentStatus = "PAID" => captured

LEMMA UnpaidInvInit == Init => UnpaidInv
  BY DEF Init, UnpaidInv, PlacedStatus

LEMMA UnpaidInvNext == TypeOK /\ UnpaidInv /\ [Next]_vars => UnpaidInv'
  BY StepTakesNothingBack DEF NothingTakenBack, UnpaidInv

(* Where no handler dies, whatever has to follow a status is under way: a  *)
(* cancellation is compensated, a captured order is being offered, and a   *)
(* delivered order is settled or about to be.                              *)
FollowedUp ==
    /\ workflowStatus = "CANCELLED" =>
          \/ stockReservation = "RELEASED"
          \/ compensation \in {"cancelled", "restocked"}
    /\ captured /\ workflowStatus = "CREATED" => "capture" \in inFlight
    /\ workflowStatus = "DELIVERED" =>
          settlements = 1 \/ \E t \in Taps : verifying[t] = "delivered"

LEMMA FollowedUpInit == Init => FollowedUp
  BY DEF Init, FollowedUp, PlacedStatus, captured

(* What is under way goes on. *)
GoesOn ==
    /\ FollowedUp'
    /\ compensation = "cancelled" =>
          \/ compensation' \in {"cancelled", "restocked"}
          \/ stockReservation' = "RELEASED"
    /\ compensation = "restocked" =>
          compensation' = "restocked" \/ stockReservation' = "RELEASED"
    /\ \A t \in Taps : verifying[t] = "delivered" =>
          verifying'[t] = "delivered" \/ settlements' = 1

LEMMA StepGoesOn ==
  ASSUME MaxCrashes = 0, IInv, FollowedUp, [Next]_vars
  PROVE  GoesOn
<1> USE DEF GoesOn, FollowedUp, captured, IInv, TypeOK, StockInv, HandoffInv,
            orderVars, stockVars, verifyVars
<1>1. CASE AfterPlaceOrder \/ SellerAcceptJobs \/ DeliveryAcceptJobs \/ PollRead \/ PollWrite
  BY <1>1 DEF AfterPlaceOrder, SellerAcceptJobs, DeliveryAcceptJobs, PollRead, PollWrite,
     Begin, End
<1>2. CASE HandleOnlineOrderFinance \/ MoveOrderToSellerPending
  BY <1>2 DEF HandleOnlineOrderFinance, MoveOrderToSellerPending, AwaitsPayment, Begin
<1>3. CASE PaymentFailed \/ CancelOnlinePaymentAttempt
  BY <1>3 DEF PaymentFailed, CancelOnlinePaymentAttempt, CancelUnpaidOrder, WriteCancelled,
     ReleaseInTransaction
<1>4. CASE SellerReject \/ CustomerCancel \/ PaymentTimeoutSweep
  BY <1>4 DEF SellerReject, CustomerCancel, CancelPendingOrder, Cancellable,
     PaymentTimeoutSweep, WriteCancelled
<1>5. CASE SellerAccept
  BY <1>5 DEF SellerAccept, Begin
<1>6. CASE ReleaseReservedStock \/ SaveRelease \/ ReverseOrderFinance
  BY <1>6 DEF ReleaseReservedStock, SaveRelease, ReverseOrderFinance, CompensationFrame
<1>7. CASE BullSellerTimeout \/ SweepSellerTimeout
  BY <1>7 DEF BullSellerTimeout, SweepSellerTimeout, RaiseSellerDelay
<1>8. CASE BullDeliveryTimeout \/ SweepDeliveryTimeout
  BY <1>8 DEF BullDeliveryTimeout, SweepDeliveryTimeout, ReadDeliveryTimeout
<1>9. CASE \E w \in TimeoutWorkers : FinishDeliveryTimeout(w)
  BY <1>9 DEF FinishDeliveryTimeout
<1>10. CASE \E r \in Riders : \/ DeliveryAccept(r) \/ SkipOrder(r)
                             \/ MarkArrivedAtStore(r) \/ ConfirmPickup(r)
                             \/ RequestHandoffOtp(r)
                             \/ \E t \in Taps : VerifyOtp(t, r)
  BY <1>10 DEF DeliveryAccept, SkipOrder, MarkArrivedAtStore, ConfirmPickup, RiderMoves,
     RequestHandoffOtp, VerifyOtp, VerifyStep, Begin
<1>11. ASSUME NEW t \in Taps, ConsumeOtp(t) PROVE GoesOn
  BY <1>11 DEF ConsumeOtp, VerifyStep
<1>12. ASSUME NEW t \in Taps, FinalizeDelivery(t) PROVE GoesOn
  BY <1>12 DEF FinalizeDelivery, VerifyStep
<1>13. ASSUME NEW t \in Taps, ApplyDeliveredSettlement(t) PROVE GoesOn
  BY <1>13 DEF ApplyDeliveredSettlement, VerifyStep
<1>14. CASE SellerWindowEnds \/ SearchWindowEnds \/ ReservationEnds
  BY <1>14 DEF SellerWindowEnds, SearchWindowEnds, ReservationEnds, WindowEnds
<1>15. ~Crash
  BY DEF Crash
<1>16. CASE UNCHANGED vars
  BY <1>16 DEF vars
<1> QED
  BY <1>1, <1>2, <1>3, <1>4, <1>5, <1>6, <1>7, <1>8, <1>9, <1>10, <1>11,
     <1>12, <1>13, <1>14, <1>15, <1>16 DEF Next

(* Unless a handler dies, what has to follow a status is always under way. *)
THEOREM NothingIsForgotten == MaxCrashes = 0 => (Spec => []FollowedUp)
<1> SUFFICES ASSUME MaxCrashes = 0 PROVE Spec => []FollowedUp
  OBVIOUS
<1>1. IInv /\ FollowedUp /\ [Next]_vars => FollowedUp'
  BY StepGoesOn DEF GoesOn
<1> QED BY <1>1, FollowedUpInit, Inductive, PTL DEF Spec

----------------------------------------------------------------------------
(* The sweep sees to it that no online order keeps its stock without being *)
(* paid, whatever crashes and status polls come in between.                *)
THEOREM UnpaidOrdersEnd == FairSpec /\ []GuardsEnable => UnpaidOrderIsResolved
<1> DEFINE P == workflowStatus = "CREATED" /\ ~captured
           Q == workflowStatus # "CREATED" \/ captured
           Over == "reservation" \in expired
<1>1. P /\ [Next]_vars => P' \/ Q'
  OBVIOUS
<1>2. TypeOK /\ Over /\ [Next]_vars => Over'
  BY StepTakesNothingBack DEF NothingTakenBack
<1>3. P /\ <<ReservationEnds>>_vars => Over'
  BY DEF ReservationEnds, WindowEnds
<1>4. P /\ ~Over /\ UnpaidInv /\ GuardsEnable => ENABLED <<ReservationEnds>>_vars
  BY DEF GuardsEnable, UnpaidInv
<1>5. <<PaymentTimeoutSweep>>_vars => Q'
  BY DEF PaymentTimeoutSweep, WriteCancelled
<1>6. P /\ Over /\ IInv /\ UnpaidInv /\ GuardsEnable => ENABLED <<PaymentTimeoutSweep>>_vars
  BY DEF GuardsEnable, Abandoned, UnpaidInv, NeverPaid, IInv, StockInv
<1>7. P \/ Q
  OBVIOUS
<1>8. Spec => []UnpaidInv
  <2>1. IInv /\ UnpaidInv /\ [Next]_vars => UnpaidInv'
    BY UnpaidInvNext DEF IInv
  <2> QED BY <2>1, UnpaidInvInit, Inductive, PTL DEF Spec
<1>9. IInv => TypeOK
  BY DEF IInv
<1>10. FairSpec => Spec /\ WF_vars(ReservationEnds) /\ WF_vars(PaymentTimeoutSweep)
  BY PTL DEF FairSpec, Fairness
<1>11. FairSpec /\ []GuardsEnable => (workflowStatus = "CREATED" ~> Q)
  BY <1>1, <1>2, <1>3, <1>4, <1>5, <1>6, <1>7, <1>8, <1>9, <1>10, Inductive, PTL DEF Spec
<1> QED BY <1>11 DEF UnpaidOrderIsResolved

(* A seller who does not answer is reported: the order leaves the seller,  *)
(* or its window ends and the sweep raises the alert, although Bull's job  *)
(* may be lost and handlers may die.                                       *)
THEOREM SellerDelaysAreRaised == FairSpec /\ []GuardsEnable => SellerDelayIsRaised
<1> DEFINE P == workflowStatus = "SELLER_PENDING" /\ "sellerTimeoutAlert" \notin alerts
           Q == workflowStatus # "SELLER_PENDING" \/ "sellerTimeoutAlert" \in alerts
           Over == "seller" \in expired
<1>1. P /\ [Next]_vars => P' \/ Q'
  OBVIOUS
<1>2. TypeOK /\ P /\ Over /\ [Next]_vars => Over'
  BY StepTakesNothingBack DEF NothingTakenBack
<1>3. <<SellerWindowEnds>>_vars => Over'
  BY DEF SellerWindowEnds, WindowEnds
<1>4. P /\ ~Over /\ GuardsEnable => ENABLED <<SellerWindowEnds>>_vars
  BY DEF GuardsEnable
<1>5. <<SweepSellerTimeout>>_vars => Q'
  BY DEF SweepSellerTimeout, RaiseSellerDelay
<1>6. P /\ Over /\ GuardsEnable => ENABLED <<SweepSellerTimeout>>_vars
  BY DEF GuardsEnable, SellerIsLate
<1>7. P \/ Q
  OBVIOUS
<1>8. IInv => TypeOK
  BY DEF IInv
<1>9. FairSpec => Spec /\ WF_vars(SellerWindowEnds) /\ WF_vars(SweepSellerTimeout)
  BY PTL DEF FairSpec, Fairness
<1>10. FairSpec /\ []GuardsEnable => (workflowStatus = "SELLER_PENDING" ~> Q)
  BY <1>1, <1>2, <1>3, <1>4, <1>5, <1>6, <1>7, <1>8, <1>9, Inductive, PTL DEF Spec
<1> QED BY <1>10 DEF SellerDelayIsRaised

(* Unless its handler dies, a capture carries the order to its seller.     *)
THEOREM CapturedOrdersReachSellers ==
  MaxCrashes = 0 => (FairSpec /\ []GuardsEnable => CapturedReachesSeller)
<1> SUFFICES ASSUME MaxCrashes = 0
             PROVE  FairSpec /\ []GuardsEnable => CapturedReachesSeller
  OBVIOUS
<1> DEFINE P == captured /\ workflowStatus = "CREATED"
           Q == workflowStatus # "CREATED"
<1>1. TypeOK /\ P /\ [Next]_vars => P' \/ Q'
  BY StepTakesNothingBack DEF NothingTakenBack
<1>2. <<MoveOrderToSellerPending>>_vars => Q'
  BY DEF MoveOrderToSellerPending, AwaitsPayment
<1>3. P /\ FollowedUp /\ GuardsEnable => ENABLED <<MoveOrderToSellerPending>>_vars
  BY DEF FollowedUp, GuardsEnable
<1>4. Spec => []FollowedUp
  BY NothingIsForgotten
<1>5. IInv => TypeOK
  BY DEF IInv
<1>6. FairSpec => Spec /\ WF_vars(MoveOrderToSellerPending)
  BY PTL DEF FairSpec, Fairness
<1>7. FairSpec /\ []GuardsEnable => (P ~> Q)
  BY <1>1, <1>2, <1>3, <1>4, <1>5, <1>6, Inductive, PTL DEF Spec
<1> QED BY <1>7 DEF CapturedReachesSeller

(* Unless its handler dies, a cancellation brings the stock back: the      *)
(* compensation first returns the items and then saves RELEASED.           *)
THEOREM CancelledOrdersReturnStock ==
  MaxCrashes = 0 => (FairSpec /\ []GuardsEnable => CancelledStockReturns)
<1> SUFFICES ASSUME MaxCrashes = 0
             PROVE  FairSpec /\ []GuardsEnable => CancelledStockReturns
  OBVIOUS
<1> DEFINE P == workflowStatus = "CANCELLED"
           Called == compensation = "cancelled"
           Back == compensation = "restocked"
           Q == stockReservation = "RELEASED"
<1>1. IInv /\ FollowedUp /\ Called /\ [Next]_vars => Called' \/ Back' \/ Q'
  BY StepGoesOn DEF GoesOn
<1>2. IInv /\ FollowedUp /\ Back /\ [Next]_vars => Back' \/ Q'
  BY StepGoesOn DEF GoesOn
<1>3. <<ReleaseReservedStock>>_vars => Back' \/ Q'
  BY DEF ReleaseReservedStock
<1>4. <<SaveRelease>>_vars => Q'
  BY DEF SaveRelease
<1>5. Called /\ GuardsEnable => ENABLED <<ReleaseReservedStock>>_vars
  BY DEF GuardsEnable
<1>6. Back /\ GuardsEnable => ENABLED <<SaveRelease>>_vars
  BY DEF GuardsEnable
<1>7. P /\ FollowedUp => Q \/ Called \/ Back
  BY DEF FollowedUp
<1>8. Spec => []FollowedUp
  BY NothingIsForgotten
<1>9. FairSpec => Spec /\ WF_vars(ReleaseReservedStock) /\ WF_vars(SaveRelease)
  BY PTL DEF FairSpec, Fairness
<1>10. FairSpec /\ []GuardsEnable => (P ~> Q)
  BY <1>1, <1>2, <1>3, <1>4, <1>5, <1>6, <1>7, <1>8, <1>9, Inductive, PTL DEF Spec
<1> QED BY <1>10 DEF CancelledStockReturns

(* Unless it dies, the one verify request that delivers the order settles  *)
(* it.                                                                     *)
THEOREM DeliveringRequestSettles ==
  ASSUME MaxCrashes = 0, NEW t \in Taps
  PROVE  Spec /\ WF_vars(ApplyDeliveredSettlement(t)) /\ []GuardsEnable
            => (verifying[t] = "delivered" ~> settlements = 1)
<1> DEFINE P == verifying[t] = "delivered"
           Q == settlements = 1
<1>1. IInv /\ FollowedUp /\ P /\ [Next]_vars => P' \/ Q'
  BY StepGoesOn DEF GoesOn
<1>2. IInv /\ <<ApplyDeliveredSettlement(t)>>_vars => Q'
  BY DEF ApplyDeliveredSettlement, VerifyStep, IInv, HandoffInv
<1>3. P /\ GuardsEnable => ENABLED <<ApplyDeliveredSettlement(t)>>_vars
  BY DEF GuardsEnable
<1>4. Spec => []FollowedUp
  BY NothingIsForgotten
<1> QED BY <1>1, <1>2, <1>3, <1>4, Inductive, PTL DEF Spec

(* Nobody else does: at any time one request at most has delivered the     *)
(* order and not settled it yet, so fairness towards whichever it is       *)
(* settles every delivered order.                                          *)
THEOREM DeliveredOrdersSettle ==
  ASSUME MaxCrashes = 0
  PROVE  Spec /\ WF_vars(SomeoneSettles) /\ []GuardsEnable => DeliveredIsSettled
<1> DEFINE P == \E t \in Taps : verifying[t] = "delivered"
           Q == settlements = 1
           D == workflowStatus = "DELIVERED"
<1>1. IInv /\ FollowedUp /\ P /\ [Next]_vars => P' \/ Q'
  BY StepGoesOn DEF GoesOn
<1>2. IInv /\ <<SomeoneSettles>>_vars => Q'
  BY DEF SomeoneSettles, ApplyDeliveredSettlement, VerifyStep, IInv, HandoffInv
<1>3. D /\ FollowedUp => P \/ Q
  BY DEF FollowedUp
<1>4. Spec => []FollowedUp
  BY NothingIsForgotten
<1>5. P /\ GuardsEnable => ENABLED <<SomeoneSettles>>_vars
  BY DEF GuardsEnable
<1>6. Spec /\ WF_vars(SomeoneSettles) /\ []GuardsEnable => (D ~> Q)
  BY <1>1, <1>2, <1>3, <1>4, <1>5, Inductive, PTL DEF Spec
<1> QED BY <1>6, PTL DEF DeliveredIsSettled

============================================================================
