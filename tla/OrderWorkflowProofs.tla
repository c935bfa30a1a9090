------------------------ MODULE OrderWorkflowProofs ------------------------
(* What OrderWorkflow guarantees for any number of riders, concurrent      *)
(* verify requests, search attempts and crashes.                           *)
EXTENDS OrderWorkflow, FiniteSetTheorems, TLAPS

USE DEF WORKFLOW_STATUS, LEGACY_STATUS, ORDER_PAYMENT_STATUS, VERIFY_STAGE,
        TimeoutWorkers, Handlers, Windows, ALERT

LEMMA TypeInit == Init => TypeOK
  BY AttemptsAssumption, CrashesAssumption DEF Init, TypeOK, PlacedStatus

LEMMA TypeNext == TypeOK /\ [Next]_vars => TypeOK'
<1> SUFFICES ASSUME TypeOK, [Next]_vars PROVE TypeOK'
  OBVIOUS
<1> USE AttemptsAssumption, CrashesAssumption
<1> USE DEF TypeOK, orderVars, stockVars, riderVars, jobVars, verifyVars,
            Begin, End
<1>1. CASE AfterPlaceOrder
  BY <1>1, SMTT(30) DEF AfterPlaceOrder
<1>2. CASE HandleOnlineOrderFinance
  BY <1>2, SMTT(30) DEF HandleOnlineOrderFinance
<1>3. CASE MoveOrderToSellerPending
  <2>1. /\ workflowStatus' \in WORKFLOW_STATUS
        /\ expired' \in SUBSET Windows
    BY <1>3 DEF MoveOrderToSellerPending, AwaitsPayment
  <2>2. inFlight' \in SUBSET Handlers
    BY <1>3 DEF MoveOrderToSellerPending, AwaitsPayment
  <2>3. QED BY <1>3, <2>1, <2>2 DEF MoveOrderToSellerPending, AwaitsPayment
<1>4. CASE PollRead
  BY <1>4, SMTT(30) DEF PollRead
<1>5. CASE PollWrite
  BY <1>5, SMTT(30) DEF PollWrite
<1>6. CASE PaymentFailed
  BY <1>6, SMTT(30) DEF PaymentFailed, CancelUnpaidOrder,
     ReleaseInTransaction, WriteCancelled
<1>7. CASE CancelOnlinePaymentAttempt
  BY <1>7, SMTT(30) DEF CancelOnlinePaymentAttempt, CancelUnpaidOrder,
     ReleaseInTransaction, WriteCancelled
<1>8. CASE SellerAccept
  <2>1. /\ workflowStatus' \in WORKFLOW_STATUS
        /\ inFlight' \in SUBSET Handlers
    BY <1>8 DEF SellerAccept
  <2>2. attempt' \in {attempt, 1} BY <1>8 DEF SellerAccept
  <2>3. expired' \in {expired, expired \ {"search"}} BY <1>8 DEF SellerAccept
  <2>4. QED BY <1>8, <2>1, <2>2, <2>3 DEF SellerAccept
<1>9. CASE SellerAcceptJobs
  BY <1>9, SMTT(30) DEF SellerAcceptJobs
<1>10. CASE SellerReject
  BY <1>10, SMTT(30) DEF SellerReject, CancelPendingOrder, WriteCancelled
<1>11. CASE CustomerCancel
  BY <1>11, SMTT(30) DEF CustomerCancel, CancelPendingOrder, WriteCancelled
<1>12. CASE PaymentTimeoutSweep
  BY <1>12, SMTT(30) DEF PaymentTimeoutSweep, NeverPaid, WriteCancelled
<1>13. CASE ReleaseReservedStock
  BY <1>13, SMTT(30) DEF ReleaseReservedStock, CompensationFrame
<1>14. CASE SaveRelease
  BY <1>14, SMTT(30) DEF SaveRelease, CompensationFrame
<1>15. CASE ReverseOrderFinance
  BY <1>15, SMTT(30) DEF ReverseOrderFinance, CompensationFrame
<1>16. CASE BullSellerTimeout
  BY <1>16, SMTT(30) DEF BullSellerTimeout, RaiseSellerDelay, SellerIsLate
<1>17. CASE SweepSellerTimeout
  BY <1>17, SMTT(30) DEF SweepSellerTimeout, RaiseSellerDelay, SellerIsLate
<1>18. CASE BullDeliveryTimeout
  BY <1>18, SMTT(30) DEF BullDeliveryTimeout, ReadDeliveryTimeout
<1>19. CASE SweepDeliveryTimeout
  BY <1>19, SMTT(30) DEF SweepDeliveryTimeout, ReadDeliveryTimeout
<1>20. CASE \E w \in TimeoutWorkers : FinishDeliveryTimeout(w)
  <2>1. PICK w \in TimeoutWorkers : FinishDeliveryTimeout(w) BY <1>20
  <2>2. timeoutRead[w] \in 1..MaxAttempts BY <2>1 DEF FinishDeliveryTimeout
  <2>3. timeoutRead' \in [TimeoutWorkers -> 0..MaxAttempts]
    BY <2>1 DEF FinishDeliveryTimeout
  <2>4. CASE timeoutRead[w] < MaxAttempts
    <3>1. attempt' \in 0..MaxAttempts /\ alerts' = alerts
      BY <2>1, <2>2, <2>4 DEF FinishDeliveryTimeout, MoreAttempts
    <3>2. expired' \in SUBSET Windows
      BY <2>1, <2>4 DEF FinishDeliveryTimeout, MoreAttempts
    <3>3. deliveryJobs' \in {deliveryJobs, deliveryJobs \cup {timeoutRead[w] + 1}}
      BY <2>1, <2>4 DEF FinishDeliveryTimeout, MoreAttempts
    <3>4. timeoutRead[w] + 1 \in 1..MaxAttempts BY <2>2, <2>4
    <3>5. deliveryJobs' \in SUBSET (1..MaxAttempts) BY <3>3, <3>4
    <3>6. QED BY <2>1, <2>3, <3>1, <3>2, <3>5 DEF FinishDeliveryTimeout
  <2>5. CASE ~(timeoutRead[w] < MaxAttempts)
    <3>1. /\ alerts' \in SUBSET ALERT
          /\ UNCHANGED <<attempt, expired, deliveryJobs>>
      BY <2>1, <2>5 DEF FinishDeliveryTimeout, MoreAttempts, SearchIsOver
    <3>2. QED BY <2>1, <2>3, <3>1 DEF FinishDeliveryTimeout
  <2>6. QED BY <2>4, <2>5
<1>21. CASE DeliveryAcceptJobs
  BY <1>21, SMTT(30) DEF DeliveryAcceptJobs
<1>22. CASE \E r \in Riders : DeliveryAccept(r)
  BY <1>22, SMTT(30) DEF DeliveryAccept
<1>23. CASE \E r \in Riders : SkipOrder(r)
  BY <1>23, SMTT(30) DEF SkipOrder
<1>24. CASE \E r \in Riders : MarkArrivedAtStore(r)
  BY <1>24, SMTT(30) DEF MarkArrivedAtStore, RiderMoves, legacyStatusFromWorkflow
<1>25. CASE \E r \in Riders : ConfirmPickup(r)
  BY <1>25, SMTT(30) DEF ConfirmPickup, RiderMoves, legacyStatusFromWorkflow
<1>26. CASE \E r \in Riders : RequestHandoffOtp(r)
  BY <1>26, SMTT(30) DEF RequestHandoffOtp
<1>27. CASE \E r \in Riders, t \in Taps : VerifyOtp(t, r)
  BY <1>27, SMTT(30) DEF VerifyOtp, VerifyStep
<1>28. CASE \E t \in Taps : ConsumeOtp(t)
  BY <1>28, SMTT(30) DEF ConsumeOtp, VerifyStep
<1>29. CASE \E t \in Taps : FinalizeDelivery(t)
  BY <1>29, SMTT(30) DEF FinalizeDelivery, VerifyStep
<1>30. CASE \E t \in Taps : ApplyDeliveredSettlement(t)
  BY <1>30, SMTT(30) DEF ApplyDeliveredSettlement, VerifyStep
<1>31. CASE SellerWindowEnds
  BY <1>31, SMTT(30) DEF SellerWindowEnds, WindowEnds
<1>32. CASE SearchWindowEnds
  BY <1>32, SMTT(30) DEF SearchWindowEnds, WindowEnds
<1>33. CASE ReservationEnds
  BY <1>33, SMTT(30) DEF ReservationEnds, WindowEnds
<1>34. CASE Crash
  <2>1. crashes' \in 0..MaxCrashes BY <1>34 DEF Crash
  <2>2. CASE CrashHandler BY <1>34, <2>1, <2>2 DEF Crash, CrashHandler
  <2>3. CASE CrashCompensation BY <1>34, <2>1, <2>3 DEF Crash, CrashCompensation
  <2>4. ASSUME NEW w \in TimeoutWorkers, CrashTimeoutWorker(w) PROVE TypeOK'
    <3>1. /\ timeoutRead' \in [TimeoutWorkers -> 0..MaxAttempts]
          /\ deliveryJobs' \in SUBSET (1..MaxAttempts)
      BY <2>4 DEF CrashTimeoutWorker
    <3>2. QED BY <1>34, <2>1, <2>4, <3>1 DEF Crash, CrashTimeoutWorker
  <2>5. ASSUME NEW t \in Taps, CrashVerify(t) PROVE TypeOK'
    BY <1>34, <2>1, <2>5 DEF Crash, CrashVerify
  <2>6. QED BY <1>34, <2>2, <2>3, <2>4, <2>5 DEF Crash
<1>35. CASE UNCHANGED vars
  BY <1>35 DEF vars
<1>36. QED
  BY <1>1, <1>2, <1>3, <1>4, <1>5, <1>6, <1>7, <1>8, <1>9, <1>10, <1>11,
     <1>12, <1>13, <1>14, <1>15, <1>16, <1>17, <1>18, <1>19, <1>20, <1>21,
     <1>22, <1>23, <1>24, <1>25, <1>26, <1>27, <1>28, <1>29, <1>30, <1>31,
     <1>32, <1>33, <1>34, <1>35
     DEF Next

(* Every reachable state is well typed: in particular no attempt ever      *)
(* exceeds MaxAttempts, whatever stale attempt a worker acts on.           *)
THEOREM TypeCorrect == Spec => []TypeOK
<1>1. Init => TypeOK BY TypeInit
<1>2. TypeOK /\ [Next]_vars => TypeOK' BY TypeNext
<1>3. QED BY <1>1, <1>2, PTL DEF Spec

----------------------------------------------------------------------------
(* The inductive invariant.  Its parts say what is known of an order while *)
(* a handler stands between two of its writes.                             *)

(* A compensation in progress belongs to a cancelled order, and how far it *)
(* has come says whether the items are back.                               *)
StockInv ==
    /\ restocked \in {0, 1}
    /\ restocked = 1 => workflowStatus = "CANCELLED"
    /\ stockReservation = "RELEASED" => restocked = 1
    /\ compensation # "idle" => workflowStatus = "CANCELLED"
    /\ compensation = "cancelled" => restocked = 0
    /\ compensation = "restocked" => restocked = 1
    /\ compensation = "saved" => stockReservation = "RELEASED"

(* The second write of a capture comes after the money. *)
PaymentInv ==
    /\ "capture" \in inFlight => captured
    /\ OfferedOnlineIsCaptured
    /\ RefundIsJustified

RiderInv ==
    /\ workflowStatus \in {"CREATED", "SELLER_PENDING", "SELLER_ACCEPTED",
                          "DELIVERY_SEARCH"} => deliveryBoy = NoRider
    /\ workflowStatus \in {"DELIVERY_ASSIGNED", "PICKUP_READY",
                          "OUT_FOR_DELIVERY", "DELIVERED"} => deliveryBoy \in Riders

(* One verify request at most got through, and before it settles nobody    *)
(* has.                                                                    *)
HandoffInv ==
    /\ \A t \in Taps : verifying[t] = "delivered" =>
          /\ workflowStatus \in {"DELIVERED", "CANCELLED"}
          /\ settlements = 0
          /\ deliveryBoy # NoRider
    /\ \A t, u \in Taps :
          verifying[t] = "delivered" /\ verifying[u] = "delivered" => t = u
    /\ settlements \in {0, 1}
    /\ settlements = 1 => /\ workflowStatus \in {"DELIVERED", "CANCELLED"}
                          /\ deliveryBoy # NoRider

IInv == TypeOK /\ StockInv /\ LegacyStatusInSync /\ PaymentInv /\ RiderInv
               /\ HandoffInv

----------------------------------------------------------------------------
(* Steps that leave the order itself alone. *)
Background ==
    \/ AfterPlaceOrder \/ PollRead \/ SellerAcceptJobs \/ DeliveryAcceptJobs
    \/ BullSellerTimeout \/ SweepSellerTimeout
    \/ BullDeliveryTimeout \/ SweepDeliveryTimeout
    \/ \E w \in TimeoutWorkers : FinishDeliveryTimeout(w)
    \/ \E r \in Riders : SkipOrder(r)
    \/ SellerWindowEnds \/ SearchWindowEnds \/ ReservationEnds
    \/ UNCHANGED vars

LEMMA BackgroundFrame ==
  ASSUME Background
  PROVE  /\ UNCHANGED <<workflowStatus, status, paymentMode, financeFlags,
                        paymentStatus, stockReservation, restocked, deliveryBoy,
                        compensation, verifying, verifier, settlements>>
         /\ "capture" \in inFlight' => "capture" \in inFlight
         /\ "poll" \in inFlight' => "poll" \in inFlight \/ Polling
<1> USE DEF orderVars, stockVars, riderVars, verifyVars, jobVars, Begin, End
<1>1. CASE AfterPlaceOrder
  BY <1>1 DEF AfterPlaceOrder
<1>2. CASE PollRead
  BY <1>2 DEF PollRead
<1>3. CASE SellerAcceptJobs
  BY <1>3 DEF SellerAcceptJobs
<1>4. CASE DeliveryAcceptJobs
  BY <1>4 DEF DeliveryAcceptJobs
<1>5. CASE BullSellerTimeout
  BY <1>5 DEF BullSellerTimeout, RaiseSellerDelay, SellerIsLate
<1>6. CASE SweepSellerTimeout
  BY <1>6 DEF SweepSellerTimeout, RaiseSellerDelay, SellerIsLate
<1>7. CASE BullDeliveryTimeout
  BY <1>7 DEF BullDeliveryTimeout, ReadDeliveryTimeout
<1>8. CASE SweepDeliveryTimeout
  BY <1>8 DEF SweepDeliveryTimeout, ReadDeliveryTimeout
<1>9. CASE \E w \in TimeoutWorkers : FinishDeliveryTimeout(w)
  BY <1>9 DEF FinishDeliveryTimeout
<1>10. CASE \E r \in Riders : SkipOrder(r)
  BY <1>10 DEF SkipOrder
<1>11. CASE SellerWindowEnds
  BY <1>11 DEF SellerWindowEnds, WindowEnds
<1>12. CASE SearchWindowEnds
  BY <1>12 DEF SearchWindowEnds, WindowEnds
<1>13. CASE ReservationEnds
  BY <1>13 DEF ReservationEnds, WindowEnds
<1>14. CASE UNCHANGED vars
  BY <1>14 DEF vars
<1>15. QED
  BY <1>1, <1>2, <1>3, <1>4, <1>5, <1>6, <1>7, <1>8, <1>9, <1>10, <1>11,
     <1>12, <1>13, <1>14 DEF Background

(* Who cancels tells both fields; this much holds beside status requests   *)
(* too (OrderStatusApiProofs).                                             *)
CancelledInBoth == workflowStatus = "CANCELLED" => status = "cancelled"

LEMMA SyncCancels == LegacyStatusInSync => CancelledInBoth
  BY DEF LegacyStatusInSync, CancelledInBoth, legacyStatusFromWorkflow

(* Only a cancelled order is compensated. *)
CompensatesCancelled == compensation # "idle" => workflowStatus = "CANCELLED"

LEMMA StockCompensates == StockInv => CompensatesCancelled
  BY DEF StockInv, CompensatesCancelled

LEMMA StockInvNext ==
  TypeOK /\ StockInv /\ CancelledInBoth /\ [Next]_vars => StockInv'
<1> SUFFICES ASSUME TypeOK, StockInv, CancelledInBoth, [Next]_vars
             PROVE  StockInv'
  OBVIOUS
<1> USE DEF TypeOK, orderVars, stockVars, riderVars, verifyVars,
            StockInv, CancelledInBoth
<1>1. CASE Background
  BY <1>1, BackgroundFrame
<1>2. CASE HandleOnlineOrderFinance
  BY <1>2 DEF HandleOnlineOrderFinance
<1>3. CASE MoveOrderToSellerPending
  BY <1>3 DEF MoveOrderToSellerPending, AwaitsPayment
<1>4. CASE PollWrite
  BY <1>4 DEF PollWrite, End
<1>5. CASE PaymentFailed
  BY <1>5 DEF PaymentFailed, CancelUnpaidOrder, ReleaseInTransaction,
     WriteCancelled
<1>6. CASE CancelOnlinePaymentAttempt
  BY <1>6 DEF CancelOnlinePaymentAttempt, PaymentAbandonable,
     CancelUnpaidOrder, ReleaseInTransaction, WriteCancelled,
     legacyStatusFromWorkflow
<1>7. CASE SellerAccept
  BY <1>7 DEF SellerAccept
<1>8. CASE SellerReject
  BY <1>8 DEF SellerReject, CancelPendingOrder, Cancellable, WriteCancelled
<1>9. CASE CustomerCancel
  BY <1>9 DEF CustomerCancel, CancelPendingOrder, Cancellable, WriteCancelled
<1>10. CASE PaymentTimeoutSweep
  BY <1>10 DEF PaymentTimeoutSweep, NeverPaid, WriteCancelled
<1>11. CASE ReleaseReservedStock
  BY <1>11 DEF ReleaseReservedStock, CompensationFrame
<1>12. CASE SaveRelease
  BY <1>12 DEF SaveRelease, CompensationFrame
<1>13. CASE ReverseOrderFinance
  BY <1>13 DEF ReverseOrderFinance, RefundDue, CompensationFrame
<1>14. CASE \E r \in Riders : DeliveryAccept(r)
  BY <1>14 DEF DeliveryAccept, Claimable
<1>15. CASE \E r \in Riders : MarkArrivedAtStore(r)
  BY <1>15 DEF MarkArrivedAtStore, RiderMoves
<1>16. CASE \E r \in Riders : ConfirmPickup(r)
  BY <1>16 DEF ConfirmPickup, RiderMoves
<1>17. CASE \E r \in Riders : RequestHandoffOtp(r)
  BY <1>17 DEF RequestHandoffOtp
<1>18. CASE \E r \in Riders, t \in Taps : VerifyOtp(t, r)
  BY <1>18 DEF VerifyOtp, VerifyStep
<1>19. CASE \E t \in Taps : ConsumeOtp(t)
  BY <1>19 DEF ConsumeOtp, VerifyStep
<1>20. CASE \E t \in Taps : FinalizeDelivery(t)
  BY <1>20 DEF FinalizeDelivery, VerifyStep, MayFinalize
<1>21. CASE \E t \in Taps : ApplyDeliveredSettlement(t)
  BY <1>21 DEF ApplyDeliveredSettlement, VerifyStep
<1>22. CASE Crash
  BY <1>22 DEF Crash, CrashHandler, CrashCompensation, CrashTimeoutWorker,
     CrashVerify
<1>23. QED
  BY <1>1, <1>2, <1>3, <1>4, <1>5, <1>6, <1>7, <1>8, <1>9, <1>10, <1>11,
     <1>12, <1>13, <1>14, <1>15, <1>16, <1>17, <1>18, <1>19, <1>20, <1>21,
     <1>22 DEF Next, Background

LEMMA LegacyStatusNext ==
  TypeOK /\ LegacyStatusInSync /\ [Next]_vars => LegacyStatusInSync'
<1> SUFFICES ASSUME TypeOK, LegacyStatusInSync, [Next]_vars
             PROVE  LegacyStatusInSync'
  OBVIOUS
<1> USE DEF TypeOK, orderVars, stockVars, riderVars, verifyVars,
            LegacyStatusInSync, legacyStatusFromWorkflow
<1>1. CASE Background
  BY <1>1, BackgroundFrame
<1>2. CASE HandleOnlineOrderFinance
  BY <1>2 DEF HandleOnlineOrderFinance
<1>3. CASE MoveOrderToSellerPending
  BY <1>3 DEF MoveOrderToSellerPending, AwaitsPayment
<1>4. CASE PollWrite
  BY <1>4 DEF PollWrite, End
<1>5. CASE PaymentFailed
  BY <1>5 DEF PaymentFailed, CancelUnpaidOrder, ReleaseInTransaction,
     WriteCancelled
<1>6. CASE CancelOnlinePaymentAttempt
  BY <1>6 DEF CancelOnlinePaymentAttempt, PaymentAbandonable,
     CancelUnpaidOrder, ReleaseInTransaction, WriteCancelled
<1>7. CASE SellerAccept
  BY <1>7 DEF SellerAccept
<1>8. CASE SellerReject
  BY <1>8 DEF SellerReject, CancelPendingOrder, Cancellable, WriteCancelled
<1>9. CASE CustomerCancel
  BY <1>9 DEF CustomerCancel, CancelPendingOrder, Cancellable, WriteCancelled
<1>10. CASE PaymentTimeoutSweep
  BY <1>10 DEF PaymentTimeoutSweep, NeverPaid, WriteCancelled
<1>11. CASE ReleaseReservedStock
  BY <1>11 DEF ReleaseReservedStock, CompensationFrame
<1>12. CASE SaveRelease
  BY <1>12 DEF SaveRelease, CompensationFrame
<1>13. CASE ReverseOrderFinance
  BY <1>13 DEF ReverseOrderFinance, RefundDue, CompensationFrame
<1>14. CASE \E r \in Riders : DeliveryAccept(r)
  BY <1>14 DEF DeliveryAccept, Claimable
<1>15. CASE \E r \in Riders : MarkArrivedAtStore(r)
  BY <1>15 DEF MarkArrivedAtStore, RiderMoves
<1>16. CASE \E r \in Riders : ConfirmPickup(r)
  BY <1>16 DEF ConfirmPickup, RiderMoves
<1>17. CASE \E r \in Riders : RequestHandoffOtp(r)
  BY <1>17 DEF RequestHandoffOtp
<1>18. CASE \E r \in Riders, t \in Taps : VerifyOtp(t, r)
  BY <1>18 DEF VerifyOtp, VerifyStep
<1>19. CASE \E t \in Taps : ConsumeOtp(t)
  BY <1>19 DEF ConsumeOtp, VerifyStep
<1>20. CASE \E t \in Taps : FinalizeDelivery(t)
  BY <1>20 DEF FinalizeDelivery, VerifyStep, MayFinalize
<1>21. CASE \E t \in Taps : ApplyDeliveredSettlement(t)
  BY <1>21 DEF ApplyDeliveredSettlement, VerifyStep
<1>22. CASE Crash
  BY <1>22 DEF Crash, CrashHandler, CrashCompensation, CrashTimeoutWorker,
     CrashVerify
<1>23. QED
  BY <1>1, <1>2, <1>3, <1>4, <1>5, <1>6, <1>7, <1>8, <1>9, <1>10, <1>11,
     <1>12, <1>13, <1>14, <1>15, <1>16, <1>17, <1>18, <1>19, <1>20, <1>21,
     <1>22 DEF Next, Background

LEMMA PaymentInvNext ==
  TypeOK /\ StockInv /\ LegacyStatusInSync /\ PaymentInv /\ [Next]_vars
      => PaymentInv'
<1> SUFFICES ASSUME TypeOK, StockInv, LegacyStatusInSync, PaymentInv,
                    [Next]_vars
             PROVE  PaymentInv'
  OBVIOUS
<1> USE DEF TypeOK, orderVars, stockVars, riderVars, verifyVars,
            StockInv, LegacyStatusInSync, PaymentInv, captured, Begin,
            OfferedOnlineIsCaptured, RefundIsJustified
<1>1. CASE Background
  BY <1>1, BackgroundFrame
<1>2. CASE HandleOnlineOrderFinance
  BY <1>2 DEF HandleOnlineOrderFinance
<1>3. CASE MoveOrderToSellerPending
  BY <1>3 DEF MoveOrderToSellerPending, AwaitsPayment
<1>4. CASE PollWrite
  BY <1>4 DEF PollWrite, End
<1>5. CASE PaymentFailed
  BY <1>5 DEF PaymentFailed, CancelUnpaidOrder, ReleaseInTransaction,
     WriteCancelled
<1>6. CASE CancelOnlinePaymentAttempt
  BY <1>6 DEF CancelOnlinePaymentAttempt, PaymentAbandonable,
     CancelUnpaidOrder, ReleaseInTransaction, WriteCancelled,
     legacyStatusFromWorkflow
<1>7. CASE SellerAccept
  BY <1>7 DEF SellerAccept
<1>8. CASE SellerReject
  BY <1>8 DEF SellerReject, CancelPendingOrder, Cancellable, WriteCancelled
<1>9. CASE CustomerCancel
  BY <1>9 DEF CustomerCancel, CancelPendingOrder, Cancellable, WriteCancelled
<1>10. CASE PaymentTimeoutSweep
  BY <1>10 DEF PaymentTimeoutSweep, NeverPaid, WriteCancelled
<1>11. CASE ReleaseReservedStock
  BY <1>11 DEF ReleaseReservedStock, CompensationFrame
<1>12. CASE SaveRelease
  BY <1>12 DEF SaveRelease, CompensationFrame
<1>13. CASE ReverseOrderFinance
  BY <1>13 DEF ReverseOrderFinance, RefundDue, CompensationFrame
<1>14. CASE \E r \in Riders : DeliveryAccept(r)
  BY <1>14 DEF DeliveryAccept, Claimable
<1>15. CASE \E r \in Riders : MarkArrivedAtStore(r)
  BY <1>15 DEF MarkArrivedAtStore, RiderMoves
<1>16. CASE \E r \in Riders : ConfirmPickup(r)
  BY <1>16 DEF ConfirmPickup, RiderMoves
<1>17. CASE \E r \in Riders : RequestHandoffOtp(r)
  BY <1>17 DEF RequestHandoffOtp
<1>18. CASE \E r \in Riders, t \in Taps : VerifyOtp(t, r)
  BY <1>18 DEF VerifyOtp, VerifyStep
<1>19. CASE \E t \in Taps : ConsumeOtp(t)
  BY <1>19 DEF ConsumeOtp, VerifyStep
<1>20. CASE \E t \in Taps : FinalizeDelivery(t)
  BY <1>20 DEF FinalizeDelivery, VerifyStep, MayFinalize
<1>21. CASE \E t \in Taps : ApplyDeliveredSettlement(t)
  BY <1>21 DEF ApplyDeliveredSettlement, VerifyStep
<1>22. CASE Crash
  BY <1>22 DEF Crash, CrashHandler, CrashCompensation, CrashTimeoutWorker,
     CrashVerify
<1>23. QED
  BY <1>1, <1>2, <1>3, <1>4, <1>5, <1>6, <1>7, <1>8, <1>9, <1>10, <1>11,
     <1>12, <1>13, <1>14, <1>15, <1>16, <1>17, <1>18, <1>19, <1>20, <1>21,
     <1>22 DEF Next, Background

LEMMA RiderInvNext == TypeOK /\ RiderInv /\ [Next]_vars => RiderInv'
<1> SUFFICES ASSUME TypeOK, RiderInv, [Next]_vars PROVE RiderInv'
  OBVIOUS
<1> USE DEF TypeOK, orderVars, stockVars, riderVars, verifyVars, RiderInv
<1>1. CASE Background
  BY <1>1, BackgroundFrame
<1>2. CASE HandleOnlineOrderFinance
  BY <1>2 DEF HandleOnlineOrderFinance
<1>3. CASE MoveOrderToSellerPending
  BY <1>3 DEF MoveOrderToSellerPending, AwaitsPayment
<1>4. CASE PollWrite
  BY <1>4 DEF PollWrite, End
<1>5. CASE PaymentFailed
  BY <1>5 DEF PaymentFailed, CancelUnpaidOrder, ReleaseInTransaction,
     WriteCancelled
<1>6. CASE CancelOnlinePaymentAttempt
  BY <1>6 DEF CancelOnlinePaymentAttempt, PaymentAbandonable,
     CancelUnpaidOrder, ReleaseInTransaction, WriteCancelled
<1>7. CASE SellerAccept
  BY <1>7 DEF SellerAccept
<1>8. CASE SellerReject
  BY <1>8 DEF SellerReject, CancelPendingOrder, Cancellable, WriteCancelled
<1>9. CASE CustomerCancel
  BY <1>9 DEF CustomerCancel, CancelPendingOrder, Cancellable, WriteCancelled
<1>10. CASE PaymentTimeoutSweep
  BY <1>10 DEF PaymentTimeoutSweep, NeverPaid, WriteCancelled
<1>11. CASE ReleaseReservedStock
  BY <1>11 DEF ReleaseReservedStock, CompensationFrame
<1>12. CASE SaveRelease
  BY <1>12 DEF SaveRelease, CompensationFrame
<1>13. CASE ReverseOrderFinance
  BY <1>13 DEF ReverseOrderFinance, RefundDue, CompensationFrame
<1>14. CASE \E r \in Riders : DeliveryAccept(r)
  BY <1>14 DEF DeliveryAccept, Claimable
<1>15. CASE \E r \in Riders : MarkArrivedAtStore(r)
  BY <1>15 DEF MarkArrivedAtStore, RiderMoves
<1>16. CASE \E r \in Riders : ConfirmPickup(r)
  BY <1>16 DEF ConfirmPickup, RiderMoves
<1>17. CASE \E r \in Riders : RequestHandoffOtp(r)
  BY <1>17 DEF RequestHandoffOtp
<1>18. CASE \E r \in Riders, t \in Taps : VerifyOtp(t, r)
  BY <1>18 DEF VerifyOtp, VerifyStep
<1>19. CASE \E t \in Taps : ConsumeOtp(t)
  BY <1>19 DEF ConsumeOtp, VerifyStep
<1>20. CASE \E t \in Taps : FinalizeDelivery(t)
  BY <1>20 DEF FinalizeDelivery, VerifyStep, MayFinalize
<1>21. CASE \E t \in Taps : ApplyDeliveredSettlement(t)
  BY <1>21 DEF ApplyDeliveredSettlement, VerifyStep
<1>22. CASE Crash
  BY <1>22 DEF Crash, CrashHandler, CrashCompensation, CrashTimeoutWorker,
     CrashVerify
<1>23. QED
  BY <1>1, <1>2, <1>3, <1>4, <1>5, <1>6, <1>7, <1>8, <1>9, <1>10, <1>11,
     <1>12, <1>13, <1>14, <1>15, <1>16, <1>17, <1>18, <1>19, <1>20, <1>21,
     <1>22 DEF Next, Background

LEMMA HandoffInvNext ==
  TypeOK /\ RiderInv /\ HandoffInv /\ [Next]_vars => HandoffInv'
<1> SUFFICES ASSUME TypeOK, RiderInv, HandoffInv, [Next]_vars PROVE HandoffInv'
  OBVIOUS
<1> USE DEF TypeOK, orderVars, stockVars, riderVars, verifyVars, RiderInv, HandoffInv
<1>1. CASE Background
  BY <1>1, BackgroundFrame
<1>2. CASE HandleOnlineOrderFinance
  BY <1>2 DEF HandleOnlineOrderFinance
<1>3. CASE MoveOrderToSellerPending
  BY <1>3 DEF MoveOrderToSellerPending, AwaitsPayment
<1>4. CASE PollWrite
  BY <1>4 DEF PollWrite, End
<1>5. CASE PaymentFailed
  BY <1>5 DEF PaymentFailed, CancelUnpaidOrder, ReleaseInTransaction,
     WriteCancelled
<1>6. CASE CancelOnlinePaymentAttempt
  BY <1>6 DEF CancelOnlinePaymentAttempt, PaymentAbandonable,
     CancelUnpaidOrder, ReleaseInTransaction, WriteCancelled
<1>7. CASE SellerAccept
  BY <1>7 DEF SellerAccept
<1>8. CASE SellerReject
  BY <1>8 DEF SellerReject, CancelPendingOrder, Cancellable, WriteCancelled
<1>9. CASE CustomerCancel
  BY <1>9 DEF CustomerCancel, CancelPendingOrder, Cancellable, WriteCancelled
<1>10. CASE PaymentTimeoutSweep
  BY <1>10 DEF PaymentTimeoutSweep, NeverPaid, WriteCancelled
<1>11. CASE ReleaseReservedStock
  BY <1>11 DEF ReleaseReservedStock, CompensationFrame
<1>12. CASE SaveRelease
  BY <1>12 DEF SaveRelease, CompensationFrame
<1>13. CASE ReverseOrderFinance
  BY <1>13 DEF ReverseOrderFinance, RefundDue, CompensationFrame
<1>14. CASE \E r \in Riders : DeliveryAccept(r)
  BY <1>14 DEF DeliveryAccept, Claimable
<1>15. CASE \E r \in Riders : MarkArrivedAtStore(r)
  BY <1>15 DEF MarkArrivedAtStore, RiderMoves
<1>16. CASE \E r \in Riders : ConfirmPickup(r)
  BY <1>16 DEF ConfirmPickup, RiderMoves
<1>17. CASE \E r \in Riders : RequestHandoffOtp(r)
  BY <1>17 DEF RequestHandoffOtp
<1>18. CASE \E r \in Riders, t \in Taps : VerifyOtp(t, r)
  BY <1>18 DEF VerifyOtp, VerifyStep
<1>19. CASE \E t \in Taps : ConsumeOtp(t)
  BY <1>19 DEF ConsumeOtp, VerifyStep
<1>20. CASE \E t \in Taps : FinalizeDelivery(t)
  <2>1. PICK t \in Taps : FinalizeDelivery(t) BY <1>20
  <2>2. CASE MayFinalize(t)
    <3>1. /\ workflowStatus' = "DELIVERED"
          /\ UNCHANGED <<deliveryBoy, settlements>>
          /\ \A u \in Taps : verifying'[u] = "delivered" =>
                             u = t \/ verifying[u] = "delivered"
      BY <2>1, <2>2 DEF FinalizeDelivery, VerifyStep
    <3>2. /\ deliveryBoy \in Riders /\ settlements = 0
          /\ \A u \in Taps : verifying[u] # "delivered"
      BY <2>2 DEF MayFinalize
    <3>3. QED BY <3>1, <3>2, RidersAssumption
  <2>3. CASE ~MayFinalize(t)
    BY <2>1, <2>3 DEF FinalizeDelivery, VerifyStep
  <2>4. QED BY <2>2, <2>3
<1>21. CASE \E t \in Taps : ApplyDeliveredSettlement(t)
  BY <1>21 DEF ApplyDeliveredSettlement, VerifyStep
<1>22. CASE Crash
  BY <1>22 DEF Crash, CrashHandler, CrashCompensation, CrashTimeoutWorker,
     CrashVerify
<1>23. QED
  BY <1>1, <1>2, <1>3, <1>4, <1>5, <1>6, <1>7, <1>8, <1>9, <1>10, <1>11,
     <1>12, <1>13, <1>14, <1>15, <1>16, <1>17, <1>18, <1>19, <1>20, <1>21,
     <1>22 DEF Next, Background

LEMMA IInvInit == Init => IInv
<1> SUFFICES ASSUME Init PROVE IInv
  OBVIOUS
<1>1. TypeOK BY TypeInit
<1>2. StockInv BY DEF Init, StockInv
<1>3. LegacyStatusInSync
  BY DEF Init, LegacyStatusInSync, legacyStatusFromWorkflow, PlacedStatus
<1>4. PaymentInv
  BY DEF Init, PaymentInv, OfferedOnlineIsCaptured, RefundIsJustified, PlacedStatus
<1>5. RiderInv BY DEF Init, RiderInv, PlacedStatus
<1>6. HandoffInv BY DEF Init, HandoffInv
<1>7. QED BY <1>1, <1>2, <1>3, <1>4, <1>5, <1>6 DEF IInv

LEMMA IInvNext == IInv /\ [Next]_vars => IInv'
  BY TypeNext, StockInvNext, SyncCancels, LegacyStatusNext, PaymentInvNext, RiderInvNext,
     HandoffInvNext DEF IInv

(* The inductive invariant holds in every reachable state. *)
THEOREM Inductive == Spec => []IInv
<1>1. Init => IInv BY IInvInit
<1>2. IInv /\ [Next]_vars => IInv' BY IInvNext
<1>3. QED BY <1>1, <1>2, PTL DEF Spec

----------------------------------------------------------------------------
(* Whatever cancels an order, and wherever its handlers die, the items go  *)
(* back to the shelf at most once and only for a cancelled order.          *)
THEOREM StockIsReturnedOnce == Spec => []StockReturnedOnce
<1>1. IInv => StockReturnedOnce BY DEF IInv, StockInv, StockReturnedOnce
<1>2. QED BY <1>1, Inductive, PTL

(* No online order reaches its seller before its money was captured.       *)
THEOREM OnlineOrdersArePaid == Spec => []OfferedOnlineIsCaptured
<1>1. IInv => OfferedOnlineIsCaptured BY DEF IInv, PaymentInv
<1>2. QED BY <1>1, Inductive, PTL

(* A refund follows a capture, a cancellation and the return of the stock. *)
THEOREM RefundsAreJustified == Spec => []RefundIsJustified
<1>1. IInv => RefundIsJustified BY DEF IInv, PaymentInv
<1>2. QED BY <1>1, Inductive, PTL

(* The two status fields of the order never disagree.                      *)
THEOREM LegacyStatusFollows == Spec => []LegacyStatusInSync
<1>1. IInv => LegacyStatusInSync BY DEF IInv
<1>2. QED BY <1>1, Inductive, PTL

(* However many verify requests run at once, one at most settles.          *)
THEOREM OrderIsSettledOnce == Spec => []SettledOnce
<1>1. IInv => SettledOnce
  <2> SUFFICES ASSUME IInv PROVE SettledOnce
    OBVIOUS
  <2> DEFINE D == {t \in Taps : verifying[t] = "delivered"}
  <2>1. settlements = 1 => deliveryBoy # NoRider
    BY DEF IInv, HandoffInv
  <2>2. CASE D = {}
    <3>1. Cardinality(D) = 0 BY <2>2, FS_EmptySet
    <3>2. settlements \in {0, 1} BY DEF IInv, HandoffInv
    <3>3. settlements + Cardinality(D) <= 1 BY <3>1, <3>2
    <3>4. QED BY <2>1, <3>3 DEF SettledOnce
  <2>3. CASE D # {}
    <3>1. PICK t \in Taps : verifying[t] = "delivered" BY <2>3
    <3>2. D = {t} BY <3>1 DEF IInv, HandoffInv
    <3>3. Cardinality(D) = 1 BY <3>2, FS_Singleton
    <3>4. settlements = 0 BY <3>1 DEF IInv, HandoffInv
    <3>5. settlements + Cardinality(D) <= 1 BY <3>3, <3>4
    <3>6. QED BY <2>1, <3>5 DEF SettledOnce
  <2>4. QED BY <2>2, <2>3
<1>2. QED BY <1>1, Inductive, PTL

LEMMA RiderKept ==
  [Next]_vars => [deliveryBoy # NoRider => deliveryBoy' = deliveryBoy]_vars
<1> SUFFICES ASSUME [Next]_vars, deliveryBoy # NoRider
             PROVE  deliveryBoy' = deliveryBoy
  OBVIOUS
<1>1. CASE Background BY <1>1, BackgroundFrame
<1>2. CASE \E r \in Riders : DeliveryAccept(r)
  BY <1>2 DEF DeliveryAccept, Claimable
<1>3. ASSUME ~Background, ~\E r \in Riders : DeliveryAccept(r)
      PROVE  deliveryBoy' = deliveryBoy
  BY <1>3 DEF Background, Next, riderVars, HandleOnlineOrderFinance,
     MoveOrderToSellerPending, AwaitsPayment, PollWrite, PaymentFailed,
     CancelOnlinePaymentAttempt, CancelUnpaidOrder, SellerAccept, SellerReject,
     CustomerCancel, CancelPendingOrder, PaymentTimeoutSweep, NeverPaid,
     ReleaseReservedStock, SaveRelease, ReverseOrderFinance, CompensationFrame,
     MarkArrivedAtStore, ConfirmPickup, RiderMoves, RequestHandoffOtp, VerifyOtp,
     ConsumeOtp, FinalizeDelivery, ApplyDeliveredSettlement, Crash
<1>4. QED BY <1>1, <1>2, <1>3

(* "First delivery partner to accept wins", for good.                      *)
THEOREM FirstRiderWins == Spec => RiderNeverReplaced
<1>1. QED BY RiderKept, PTL DEF Spec, RiderNeverReplaced

----------------------------------------------------------------------------
(* The contract.  As long as no status poll overlaps a capture, an order   *)
(* whose money has arrived stays PAID until it is cancelled, so it cannot  *)
(* be abandoned any more.                                                  *)
PaidInv ==
    /\ "poll" \notin inFlight
    /\ captured /\ workflowStatus # "CANCELLED" => paymentStatus = "PAID"

LEMMA PaidInvNext ==
  ~Polling /\ TypeOK /\ CompensatesCancelled /\ CancelledInBoth /\ PaidInv
    /\ [Next]_vars => PaidInv'
<1> SUFFICES ASSUME ~Polling, TypeOK, CompensatesCancelled, CancelledInBoth, PaidInv,
                    [Next]_vars
             PROVE  PaidInv'
  OBVIOUS
<1> USE DEF TypeOK, orderVars, stockVars, riderVars, verifyVars,
            CompensatesCancelled, CancelledInBoth, PaidInv, captured, Begin, End
<1>1. CASE Background
  BY <1>1, BackgroundFrame
<1>2. CASE HandleOnlineOrderFinance
  BY <1>2 DEF HandleOnlineOrderFinance
<1>3. CASE MoveOrderToSellerPending
  BY <1>3 DEF MoveOrderToSellerPending, AwaitsPayment
<1>4. CASE PollWrite
  BY <1>4 DEF PollWrite, End
<1>5. CASE PaymentFailed
  BY <1>5 DEF PaymentFailed, CancelUnpaidOrder, ReleaseInTransaction,
     WriteCancelled
<1>6. CASE CancelOnlinePaymentAttempt
  BY <1>6 DEF CancelOnlinePaymentAttempt, PaymentAbandonable,
     CancelUnpaidOrder, ReleaseInTransaction, WriteCancelled,
     legacyStatusFromWorkflow
<1>7. CASE SellerAccept
  BY <1>7 DEF SellerAccept
<1>8. CASE SellerReject
  BY <1>8 DEF SellerReject, CancelPendingOrder, Cancellable, WriteCancelled
<1>9. CASE CustomerCancel
  BY <1>9 DEF CustomerCancel, CancelPendingOrder, Cancellable, WriteCancelled
<1>10. CASE PaymentTimeoutSweep
  BY <1>10 DEF PaymentTimeoutSweep, NeverPaid, WriteCancelled
<1>11. CASE ReleaseReservedStock
  BY <1>11 DEF ReleaseReservedStock, CompensationFrame
<1>12. CASE SaveRelease
  BY <1>12 DEF SaveRelease, CompensationFrame
<1>13. CASE ReverseOrderFinance
  BY <1>13 DEF ReverseOrderFinance, RefundDue, CompensationFrame
<1>14. CASE \E r \in Riders : DeliveryAccept(r)
  BY <1>14 DEF DeliveryAccept, Claimable
<1>15. CASE \E r \in Riders : MarkArrivedAtStore(r)
  BY <1>15 DEF MarkArrivedAtStore, RiderMoves
<1>16. CASE \E r \in Riders : ConfirmPickup(r)
  BY <1>16 DEF ConfirmPickup, RiderMoves
<1>17. CASE \E r \in Riders : RequestHandoffOtp(r)
  BY <1>17 DEF RequestHandoffOtp
<1>18. CASE \E r \in Riders, t \in Taps : VerifyOtp(t, r)
  BY <1>18 DEF VerifyOtp, VerifyStep
<1>19. CASE \E t \in Taps : ConsumeOtp(t)
  BY <1>19 DEF ConsumeOtp, VerifyStep
<1>20. CASE \E t \in Taps : FinalizeDelivery(t)
  BY <1>20 DEF FinalizeDelivery, VerifyStep, MayFinalize
<1>21. CASE \E t \in Taps : ApplyDeliveredSettlement(t)
  BY <1>21 DEF ApplyDeliveredSettlement, VerifyStep
<1>22. CASE Crash
  BY <1>22 DEF Crash, CrashHandler, CrashCompensation, CrashTimeoutWorker,
     CrashVerify
<1>23. QED
  BY <1>1, <1>2, <1>3, <1>4, <1>5, <1>6, <1>7, <1>8, <1>9, <1>10, <1>11,
     <1>12, <1>13, <1>14, <1>15, <1>16, <1>17, <1>18, <1>19, <1>20, <1>21,
     <1>22 DEF Next, Background

LEMMA ContractStep ==
  IInv /\ PaidInv /\ [Next]_vars => [Contract!ContractNext]_(Contract!contractVars)
<1> SUFFICES ASSUME IInv, PaidInv, [Next]_vars
             PROVE  Contract!ContractNext \/ UNCHANGED Contract!contractVars
  OBVIOUS
<1> USE DEF IInv, TypeOK, orderVars, stockVars, riderVars, verifyVars, StockInv,
            RiderInv, LegacyStatusInSync, contractPhase, Contract!contractVars
<1>0. CASE Background BY <1>0, BackgroundFrame
<1>1. CASE HandleOnlineOrderFinance
  BY <1>1 DEF HandleOnlineOrderFinance
<1>2. CASE MoveOrderToSellerPending
  BY <1>2 DEF MoveOrderToSellerPending, AwaitsPayment, Contract!ContractNext,
     Contract!Offer, Contract!Advance
<1>3. CASE PollWrite
  BY <1>3 DEF PollWrite, End
<1>4. CASE PaymentFailed
  BY <1>4 DEF PaymentFailed, CancelUnpaidOrder, ReleaseInTransaction,
     WriteCancelled, Contract!ContractNext, Contract!CallOff
<1>5. CASE CancelOnlinePaymentAttempt
  BY <1>5 DEF CancelOnlinePaymentAttempt, PaymentAbandonable,
     CancelUnpaidOrder, ReleaseInTransaction, WriteCancelled,
     legacyStatusFromWorkflow, PaymentInv, PaidInv, OfferedOnlineIsCaptured,
     Contract!ContractNext, Contract!CallOff
<1>6. CASE SellerAccept
  BY <1>6 DEF SellerAccept, Contract!ContractNext, Contract!Accept,
     Contract!Advance
<1>7. CASE SellerReject
  BY <1>7 DEF SellerReject, CancelPendingOrder, Cancellable, WriteCancelled,
     Contract!ContractNext, Contract!CallOff
<1>8. CASE CustomerCancel
  BY <1>8 DEF CustomerCancel, CancelPendingOrder, Cancellable,
     WriteCancelled, Contract!ContractNext, Contract!CallOff
<1>9. CASE PaymentTimeoutSweep
  BY <1>9 DEF PaymentTimeoutSweep, NeverPaid, WriteCancelled, Contract!ContractNext,
     Contract!CallOff
<1>10. CASE ReleaseReservedStock
  BY <1>10 DEF ReleaseReservedStock, CompensationFrame,
     Contract!ContractNext, Contract!GiveBack
<1>11. CASE SaveRelease
  BY <1>11 DEF SaveRelease, CompensationFrame
<1>12. CASE ReverseOrderFinance
  BY <1>12 DEF ReverseOrderFinance, RefundDue, CompensationFrame
<1>13. CASE \E r \in Riders : DeliveryAccept(r)
  BY <1>13 DEF DeliveryAccept, Claimable, Contract!ContractNext,
     Contract!Claim
<1>14. CASE \E r \in Riders : MarkArrivedAtStore(r)
  BY <1>14 DEF MarkArrivedAtStore, RiderMoves
<1>15. CASE \E r \in Riders : ConfirmPickup(r)
  BY <1>15 DEF ConfirmPickup, RiderMoves, Contract!ContractNext,
     Contract!Collect, Contract!Advance
<1>16. CASE \E r \in Riders : RequestHandoffOtp(r)
  BY <1>16 DEF RequestHandoffOtp
<1>17. CASE \E r \in Riders, t \in Taps : VerifyOtp(t, r)
  BY <1>17 DEF VerifyOtp, VerifyStep
<1>18. CASE \E t \in Taps : ConsumeOtp(t)
  BY <1>18 DEF ConsumeOtp, VerifyStep
<1>19. CASE \E t \in Taps : FinalizeDelivery(t)
  BY <1>19 DEF FinalizeDelivery, VerifyStep, MayFinalize,
     Contract!ContractNext, Contract!Deliver, Contract!Advance
<1>20. CASE \E t \in Taps : ApplyDeliveredSettlement(t)
  BY <1>20 DEF ApplyDeliveredSettlement, VerifyStep
<1>21. CASE Crash
  BY <1>21 DEF Crash, CrashHandler, CrashCompensation, CrashTimeoutWorker,
     CrashVerify
<1>22. QED
  BY <1>0, <1>1, <1>2, <1>3, <1>4, <1>5, <1>6, <1>7, <1>8, <1>9, <1>10, <1>11,
     <1>12, <1>13, <1>14, <1>15, <1>16, <1>17, <1>18, <1>19, <1>20, <1>21 DEF
     Next, Background

LEMMA ContractStart == Init => Contract!ContractInit
  BY DEF Init, PlacedStatus, contractPhase, Contract!ContractInit

(* Unless a status poll overlaps a capture, the workflow service           *)
(* implements the contract: goods go back once and only for an order that  *)
(* was called off before its seller accepted it, and one rider claims,     *)
(* keeps and delivers it.                                                  *)
THEOREM ContractHolds == ~Polling => (Spec => ContractKept)
<1> SUFFICES ASSUME ~Polling PROVE Spec => ContractKept
  OBVIOUS
<1>1. Init => PaidInv BY DEF Init, PaidInv, captured
<1>2. IInv /\ PaidInv /\ [Next]_vars => PaidInv'
  BY PaidInvNext, StockCompensates, SyncCancels DEF IInv
<1>3. Spec => []PaidInv BY <1>1, <1>2, Inductive, PTL DEF Spec
<1>4. QED
  BY <1>3, Inductive, ContractStart, ContractStep, PTL
  DEF Spec, ContractKept, Contract!ContractSpec

(* "Order cannot be cancelled after confirmation": without a poll that     *)
(* overlaps the capture nothing cancels a confirmed order, so the stale    *)
(* poll is the only way to what the run late_poll shows.  It follows from  *)
(* the contract.                                                           *)
THEOREM OnlyPollsCancelLate == ~Polling => (Spec => NotCancelledAfterConfirmation)
<1> SUFFICES ASSUME ~Polling PROVE Spec => NotCancelledAfterConfirmation
  OBVIOUS
<1>1. IInv /\ IInv' /\ [Contract!ContractNext]_(Contract!contractVars) =>
        [workflowStatus \notin {"CREATED", "SELLER_PENDING"}
            => (workflowStatus' = "CANCELLED" => workflowStatus = "CANCELLED")]_vars
  <2> SUFFICES ASSUME IInv, IInv', [Contract!ContractNext]_(Contract!contractVars),
                      workflowStatus \notin {"CREATED", "SELLER_PENDING"},
                      workflowStatus' = "CANCELLED"
               PROVE  workflowStatus = "CANCELLED"
    OBVIOUS
  <2>1. contractPhase' = "off" /\ contractPhase \notin {"unpaid", "offered"}
    BY DEF contractPhase, IInv, TypeOK
  <2>2. contractPhase = "off"
    BY <2>1 DEF Contract!ContractNext, Contract!contractVars, Contract!Advance,
       Contract!Offer, Contract!Accept, Contract!Claim, Contract!Collect,
       Contract!Deliver, Contract!CallOff, Contract!GiveBack
  <2> QED BY <2>2 DEF contractPhase, IInv, TypeOK
<1> QED
  BY <1>1, ContractHolds, Inductive, PTL
  DEF ContractKept, Contract!ContractSpec, NotCancelledAfterConfirmation
============================================================================
