------------------------ MODULE OrderStatusApiProofs ------------------------
(***************************************************************************)
(* What holds of status requests beside the workflow service, for any      *)
(* number of requests, riders, verify requests, attempts and crashes:      *)
(* types always, the rest when nothing comes between a request's read and  *)
(* its last save, or, where that is enough, if no save is stale.           *)
(*                                                                         *)
(* The two status fields no longer determine each other, as in             *)
(* OrderWorkflowProofs: an order that was packed and then given to a rider *)
(* is DELIVERY_ASSIGNED and "packed".  StatusAgrees is what is left.       *)
(***************************************************************************)
EXTENDS OrderStatusApi, OrderWorkflowProofs, SequenceTheorems

(* The legacy statuses an order in a workflow status may show. *)
LegacyOf(ws) ==
    [ CREATED           |-> {"pending"},
      SELLER_PENDING    |-> {"pending"},
      SELLER_ACCEPTED   |-> {"confirmed"},
      DELIVERY_SEARCH   |-> {"confirmed"},
      DELIVERY_ASSIGNED |-> {"confirmed", "packed"},
      PICKUP_READY      |-> {"packed"},
      OUT_FOR_DELIVERY  |-> {"out_for_delivery"},
      DELIVERED         |-> {"delivered"},
      CANCELLED         |-> {"cancelled"} ][ws]

StatusAgrees == status \in LegacyOf(workflowStatus)

(* One of the OTP handoff and the requests settles the order. *)
OneSettles ==
    /\ \A t \in Taps : verifying[t] = "delivered" =>
          /\ workflowStatus \in {"DELIVERED", "CANCELLED"}
          /\ settlements = 0
    /\ \A t, u \in Taps :
          verifying[t] = "delivered" /\ verifying[u] = "delivered" => t = u
    /\ settlements \in {0, 1}
    /\ settlements = 1 => workflowStatus \in {"DELIVERED", "CANCELLED"}

WillRestock(q) ==
    todo[q] \in {<<"restock", "save">>, <<"save", "restock", "save">>}

WillSettle(q) ==
    todo[q] \in {<<"settle">>, <<"save", "settle">>, <<"save", "save", "settle">>}

NothingRestocked ==
    restocked = 0 /\ compensation = "idle" /\ stockReservation # "RELEASED"

(* What a request at work may rely on: the order is as it has loaded or    *)
(* saved it, its edit moves the order forward, and what it still has to do *)
(* has not been done.                                                      *)
AtWork(q) ==
    /\ seen[q] = loaded
    /\ edited[q].status \in LegacyOf(edited[q].workflowStatus)
    /\ STATUS_RANK_MAP[edited[q].status] >= STATUS_RANK_MAP[status]
    /\ workflowStatus \in {"DELIVERED", "CANCELLED"} =>
          edited[q].workflowStatus = workflowStatus
    /\ WillRestock(q) =>
          NothingRestocked /\ edited[q].workflowStatus = "CANCELLED"
    /\ WillSettle(q) =>
          /\ edited[q].workflowStatus = "DELIVERED"
          /\ settlements = 0
          /\ \A t \in Taps : verifying[t] # "delivered"
    /\ todo[q] = <<"settle">> => workflowStatus = "DELIVERED"

(* A request has put the items back and not yet saved that the order is    *)
(* cancelled.                                                              *)
HalfCancelled(q) ==
    /\ todo[q] = <<"save">>
    /\ edited[q].workflowStatus = "CANCELLED"
    /\ workflowStatus # "CANCELLED"
    /\ restocked = 1 /\ compensation = "idle" /\ stockReservation # "RELEASED"

ApiIInv ==
    /\ ApiTypeOK
    /\ StatusAgrees
    /\ OneSettles
    /\ \A p, q \in Requests : Busy(p) /\ Busy(q) => p = q
    /\ \A q \in Requests : Busy(q) => AtWork(q)
    /\ StockInv \/ \E q \in Requests : HalfCancelled(q)

USE DEF STATUS_RANK_MAP, LegacyOf

----------------------------------------------------------------------------
(* Plans.                                                                  *)

(* Putting a save before what one or two steps do.                         *)
LEMMA Prepend1 ==
    ASSUME NEW a, NEW b
    PROVE  <<a>> \o <<b>> = <<a, b>>
<1> DEFINE S == {a, b}
<1>1. <<a>> \in Seq(S) /\ <<b>> \in Seq(S) /\ <<a, b>> \in Seq(S)
  OBVIOUS
<1>2. Len(<<a>>) = 1 /\ Len(<<b>>) = 1 /\ Len(<<a, b>>) = 2
  OBVIOUS
<1>3. Len(<<a>> \o <<b>>) = 2 /\ <<a>> \o <<b>> \in Seq(S)
  BY <1>1, <1>2, ConcatProperties
<1>4. ASSUME NEW i \in 1..2 PROVE (<<a>> \o <<b>>)[i] = <<a, b>>[i]
  <2>1. CASE i = 1 BY <2>1, <1>1, <1>2, ConcatProperties
  <2>2. CASE i = 2 BY <2>2, <1>1, <1>2, ConcatProperties
  <2> QED BY <2>1, <2>2
<1> HIDE DEF S
<1> QED BY <1>1, <1>2, <1>3, <1>4, SeqEqual

LEMMA Prepend2 ==
    ASSUME NEW a, NEW b, NEW c
    PROVE  <<a>> \o <<b, c>> = <<a, b, c>>
<1> DEFINE S == {a, b, c}
<1>1. <<a>> \in Seq(S) /\ <<b, c>> \in Seq(S) /\ <<a, b, c>> \in Seq(S)
  OBVIOUS
<1>2. Len(<<a>>) = 1 /\ Len(<<b, c>>) = 2 /\ Len(<<a, b, c>>) = 3
  OBVIOUS
<1>3. Len(<<a>> \o <<b, c>>) = 3 /\ <<a>> \o <<b, c>> \in Seq(S)
  BY <1>1, <1>2, ConcatProperties
<1>4. ASSUME NEW i \in 1..3 PROVE (<<a>> \o <<b, c>>)[i] = <<a, b, c>>[i]
  <2>1. CASE i = 1 BY <2>1, <1>1, <1>2, ConcatProperties
  <2>2. CASE i = 2 BY <2>2, <1>1, <1>2, ConcatProperties
  <2>3. CASE i = 3 BY <2>3, <1>1, <1>2, ConcatProperties
  <2> QED BY <2>1, <2>2, <2>3
<1> HIDE DEF S
<1> QED BY <1>1, <1>2, <1>3, <1>4, SeqEqual

(* A new plan is one of six, and only what cancels or delivers the order   *)
(* restocks or settles it.                                                 *)
LEMMA PlanIsKnown ==
    ASSUME NEW next, NEW d
    PROVE  \/ /\ next = "cancelled" /\ status # "cancelled"
              /\ Plan(next, d) \in {<<"restock", "save">>,
                                    <<"save", "restock", "save">>}
           \/ /\ next = "delivered" /\ status # "delivered"
              /\ Plan(next, d) \in {<<"save", "settle">>,
                                    <<"save", "save", "settle">>}
           \/ Plan(next, d) \in {<<"save">>, <<"save", "save">>}
<1> DEFINE rest == IF next = "cancelled" /\ status # "cancelled"
                     THEN <<"restock", "save">>
                   ELSE IF next = "delivered" /\ status # "delivered"
                     THEN <<"save", "settle">>
                   ELSE <<"save">>
<1>1. /\ <<>> \o <<"save">> = <<"save">>
      /\ <<>> \o <<"restock", "save">> = <<"restock", "save">>
      /\ <<>> \o <<"save", "settle">> = <<"save", "settle">>
  OBVIOUS
<1>2. /\ <<"save">> \o <<"save">> = <<"save", "save">>
      /\ <<"save">> \o <<"restock", "save">> = <<"save", "restock", "save">>
      /\ <<"save">> \o <<"save", "settle">> = <<"save", "save", "settle">>
  BY Prepend1, Prepend2
<1>3. Plan(next, d) = IF d = NoRider THEN <<>> \o rest ELSE <<"save">> \o rest
  BY DEF Plan
<1> QED BY <1>1, <1>2, <1>3

(* How performing a step moves a request through its plan. *)
LEMMA PerformMoves ==
    ASSUME todo \in [Requests -> PLAN], NEW q \in Requests,
           NEW step \in {"save", "restock", "settle"}, Perform(q, step)
    PROVE  /\ todo' = [todo EXCEPT ![q] = Tail(todo[q])]
           /\ \/ step = "save" /\ todo[q] = <<"save">> /\ todo'[q] = <<>>
              \/ step = "save" /\ todo[q] = <<"save", "save">> /\ todo'[q] = <<"save">>
              \/ step = "save" /\ todo[q] = <<"save", "settle">>
                               /\ todo'[q] = <<"settle">>
              \/ step = "save" /\ todo[q] = <<"save", "save", "settle">>
                               /\ todo'[q] = <<"save", "settle">>
              \/ step = "save" /\ todo[q] = <<"save", "restock", "save">>
                               /\ todo'[q] = <<"restock", "save">>
              \/ step = "restock" /\ todo[q] = <<"restock", "save">>
                                  /\ todo'[q] = <<"save">>
              \/ step = "settle" /\ todo[q] = <<"settle">> /\ todo'[q] = <<>>
<1>1. /\ todo[q] \in PLAN \ {<<>>} /\ Head(todo[q]) = step
      /\ todo' = [todo EXCEPT ![q] = Tail(todo[q])]
      /\ todo'[q] = Tail(todo[q])
  BY DEF Perform
<1>2. /\ Head(<<"save">>) = "save" /\ Tail(<<"save">>) = <<>>
      /\ Head(<<"settle">>) = "settle" /\ Tail(<<"settle">>) = <<>>
      /\ Head(<<"save", "save">>) = "save" /\ Tail(<<"save", "save">>) = <<"save">>
      /\ Head(<<"save", "settle">>) = "save"
      /\ Tail(<<"save", "settle">>) = <<"settle">>
      /\ Head(<<"restock", "save">>) = "restock"
      /\ Tail(<<"restock", "save">>) = <<"save">>
  OBVIOUS
<1>3. /\ Head(<<"save", "save", "settle">>) = "save"
      /\ Tail(<<"save", "save", "settle">>) = <<"save", "settle">>
      /\ Head(<<"save", "restock", "save">>) = "save"
      /\ Tail(<<"save", "restock", "save">>) = <<"restock", "save">>
  OBVIOUS
<1> QED BY <1>1, <1>2, <1>3 DEF PLAN

----------------------------------------------------------------------------
(* What the workflow service keeps, now that requests write as well.       *)

LEMMA RankIsNumber == \A s \in LEGACY_STATUS : STATUS_RANK_MAP[s] \in 1..6
  BY DEF LEGACY_STATUS

LEMMA AgreesNext ==
    ASSUME TypeOK, StatusAgrees, [Next]_vars
    PROVE  /\ StatusAgrees'
           /\ STATUS_RANK_MAP[status'] >= STATUS_RANK_MAP[status]
<1> USE DEF TypeOK, orderVars, StatusAgrees
<1> DEFINE Kept == status' = status /\ workflowStatus' = workflowStatus
<1>b. STATUS_RANK_MAP[status] \in 1..6
  BY RankIsNumber
<1>c. ASSUME Kept
      PROVE  StatusAgrees' /\ STATUS_RANK_MAP[status'] >= STATUS_RANK_MAP[status]
  <2>1. StatusAgrees'
    BY <1>c DEF LegacyOf
  <2>2. STATUS_RANK_MAP[status'] = STATUS_RANK_MAP[status]
    BY <1>c
  <2> QED BY <2>1, <2>2, <1>b
<1>1. CASE Background
  <2>1. Kept
    BY <1>1, BackgroundFrame
  <2> QED BY <2>1, <1>c
<1>2. CASE HandleOnlineOrderFinance
  <2>1. Kept
    BY <1>2 DEF HandleOnlineOrderFinance
  <2> QED BY <2>1, <1>c
<1>3. CASE MoveOrderToSellerPending
  BY <1>3, <1>b DEF MoveOrderToSellerPending, AwaitsPayment
<1>4. CASE PollWrite
  <2>1. Kept
    BY <1>4 DEF PollWrite, End
  <2> QED BY <2>1, <1>c
<1>5. CASE PaymentFailed
  BY <1>5, <1>b DEF PaymentFailed, CancelUnpaidOrder, ReleaseInTransaction,
     WriteCancelled
<1>6. CASE CancelOnlinePaymentAttempt
  BY <1>6, <1>b DEF CancelOnlinePaymentAttempt, PaymentAbandonable,
     CancelUnpaidOrder, ReleaseInTransaction, WriteCancelled
<1>7. CASE SellerAccept
  BY <1>7, <1>b DEF SellerAccept
<1>8. CASE SellerReject
  BY <1>8, <1>b DEF SellerReject, CancelPendingOrder, Cancellable, WriteCancelled
<1>9. CASE CustomerCancel
  BY <1>9, <1>b DEF CustomerCancel, CancelPendingOrder, Cancellable, WriteCancelled
<1>10. CASE PaymentTimeoutSweep
  BY <1>10, <1>b DEF PaymentTimeoutSweep, NeverPaid, WriteCancelled
<1>11. CASE ReleaseReservedStock
  <2>1. Kept
    BY <1>11 DEF ReleaseReservedStock, CompensationFrame
  <2> QED BY <2>1, <1>c
<1>12. CASE SaveRelease
  <2>1. Kept
    BY <1>12 DEF SaveRelease, CompensationFrame
  <2> QED BY <2>1, <1>c
<1>13. CASE ReverseOrderFinance
  <2>1. Kept
    BY <1>13 DEF ReverseOrderFinance, RefundDue, CompensationFrame
  <2> QED BY <2>1, <1>c
<1>14. CASE \E r \in Riders : DeliveryAccept(r)
  BY <1>14, <1>b DEF DeliveryAccept, Claimable
<1>15. CASE \E r \in Riders : MarkArrivedAtStore(r)
  BY <1>15, <1>b DEF MarkArrivedAtStore, RiderMoves, legacyStatusFromWorkflow
<1>16. CASE \E r \in Riders : ConfirmPickup(r)
  BY <1>16, <1>b DEF ConfirmPickup, RiderMoves, legacyStatusFromWorkflow
<1>17. CASE \E r \in Riders : RequestHandoffOtp(r)
  <2>1. Kept
    BY <1>17 DEF RequestHandoffOtp
  <2> QED BY <2>1, <1>c
<1>18. CASE \E r \in Riders, t \in Taps : VerifyOtp(t, r)
  <2>1. Kept
    BY <1>18 DEF VerifyOtp, VerifyStep
  <2> QED BY <2>1, <1>c
<1>19. CASE \E t \in Taps : ConsumeOtp(t)
  <2>1. Kept
    BY <1>19 DEF ConsumeOtp, VerifyStep
  <2> QED BY <2>1, <1>c
<1>20. CASE \E t \in Taps : FinalizeDelivery(t)
  BY <1>20, <1>b DEF FinalizeDelivery, VerifyStep, MayFinalize
<1>21. CASE \E t \in Taps : ApplyDeliveredSettlement(t)
  <2>1. Kept
    BY <1>21 DEF ApplyDeliveredSettlement, VerifyStep
  <2> QED BY <2>1, <1>c
<1>22. CASE Crash
  <2>1. Kept
    BY <1>22 DEF Crash, CrashHandler, CrashCompensation, CrashTimeoutWorker,
     CrashVerify
  <2> QED BY <2>1, <1>c
<1>23. QED
  BY <1>1, <1>2, <1>3, <1>4, <1>5, <1>6, <1>7, <1>8, <1>9, <1>10, <1>11,
     <1>12, <1>13, <1>14, <1>15, <1>16, <1>17, <1>18, <1>19, <1>20, <1>21, <1>22
     DEF Next, Background

LEMMA OneSettlesNext ==
    ASSUME TypeOK, OneSettles, [Next]_vars
    PROVE  OneSettles'
<1> USE DEF TypeOK, orderVars, verifyVars, OneSettles
<1>1. CASE Background
  BY <1>1, BackgroundFrame
<1>2. CASE HandleOnlineOrderFinance
  BY <1>2 DEF HandleOnlineOrderFinance
<1>3. CASE MoveOrderToSellerPending
  BY <1>3 DEF MoveOrderToSellerPending, AwaitsPayment
<1>4. CASE PollWrite
  BY <1>4 DEF PollWrite, End
<1>5. CASE PaymentFailed
  BY <1>5 DEF PaymentFailed, CancelUnpaidOrder, ReleaseInTransaction,
     WriteCancelled
<1>6. CASE CancelOnlinePaymentAttempt
  BY <1>6 DEF CancelOnlinePaymentAttempt, PaymentAbandonable,
     CancelUnpaidOrder, ReleaseInTransaction, WriteCancelled
<1>7. CASE SellerAccept
  BY <1>7 DEF SellerAccept
<1>8. CASE SellerReject
  BY <1>8 DEF SellerReject, CancelPendingOrder, Cancellable, WriteCancelled
<1>9. CASE CustomerCancel
  BY <1>9 DEF CustomerCancel, CancelPendingOrder, Cancellable, WriteCancelled
<1>10. CASE PaymentTimeoutSweep
  BY <1>10 DEF PaymentTimeoutSweep, NeverPaid, WriteCancelled
<1>11. CASE ReleaseReservedStock
  BY <1>11 DEF ReleaseReservedStock, CompensationFrame
<1>12. CASE SaveRelease
  BY <1>12 DEF SaveRelease, CompensationFrame
<1>13. CASE ReverseOrderFinance
  BY <1>13 DEF ReverseOrderFinance, RefundDue, CompensationFrame
<1>14. CASE \E r \in Riders : DeliveryAccept(r)
  BY <1>14 DEF DeliveryAccept, Claimable
<1>15. CASE \E r \in Riders : MarkArrivedAtStore(r)
  BY <1>15 DEF MarkArrivedAtStore, RiderMoves, legacyStatusFromWorkflow
<1>16. CASE \E r \in Riders : ConfirmPickup(r)
  BY <1>16 DEF ConfirmPickup, RiderMoves, legacyStatusFromWorkflow
<1>17. CASE \E r \in Riders : RequestHandoffOtp(r)
  BY <1>17 DEF RequestHandoffOtp
<1>18. CASE \E r \in Riders, t \in Taps : VerifyOtp(t, r)
  BY <1>18 DEF VerifyOtp, VerifyStep
<1>19. CASE \E t \in Taps : ConsumeOtp(t)
  BY <1>19 DEF ConsumeOtp, VerifyStep
<1>20. CASE \E t \in Taps : FinalizeDelivery(t)
  <2>1. PICK t \in Taps : FinalizeDelivery(t) BY <1>20
  <2>2. CASE MayFinalize(t)
    <3>1. /\ workflowStatus' = "DELIVERED" /\ UNCHANGED settlements
          /\ \A u \in Taps : verifying'[u] = "delivered" =>
                             u = t \/ verifying[u] = "delivered"
      BY <2>1, <2>2 DEF FinalizeDelivery, VerifyStep
    <3>2. /\ settlements = 0
          /\ \A u \in Taps : verifying[u] # "delivered"
      BY <2>2 DEF MayFinalize
    <3>3. QED BY <3>1, <3>2
  <2>3. CASE ~MayFinalize(t)
    BY <2>1, <2>3 DEF FinalizeDelivery, VerifyStep
  <2>4. QED BY <2>2, <2>3
<1>21. CASE \E t \in Taps : ApplyDeliveredSettlement(t)
  BY <1>21 DEF ApplyDeliveredSettlement, VerifyStep
<1>22. CASE Crash
  BY <1>22 DEF Crash, CrashHandler, CrashCompensation, CrashTimeoutWorker,
     CrashVerify
<1>23. QED
  BY <1>1, <1>2, <1>3, <1>4, <1>5, <1>6, <1>7, <1>8, <1>9, <1>10, <1>11,
     <1>12, <1>13, <1>14, <1>15, <1>16, <1>17, <1>18, <1>19, <1>20, <1>21, <1>22
     DEF Next, Background

(* The workflow service leaves a closed order alone. *)
LEMMA ClosedNext ==
    ASSUME TypeOK, StatusAgrees, PaidInv, [Next]_vars, Closed
    PROVE  workflowStatus' = workflowStatus
<1> USE DEF TypeOK, orderVars, StatusAgrees, PaidInv, Closed, Paid, captured
<1>1. CASE Background
  BY <1>1, BackgroundFrame
<1>2. CASE HandleOnlineOrderFinance
  BY <1>2 DEF HandleOnlineOrderFinance
<1>3. CASE MoveOrderToSellerPending
  BY <1>3 DEF MoveOrderToSellerPending, AwaitsPayment
<1>4. CASE PollWrite
  BY <1>4 DEF PollWrite, End
<1>5. CASE PaymentFailed
  BY <1>5 DEF PaymentFailed, CancelUnpaidOrder, ReleaseInTransaction,
     WriteCancelled
<1>6. CASE CancelOnlinePaymentAttempt
  BY <1>6 DEF CancelOnlinePaymentAttempt, PaymentAbandonable,
     CancelUnpaidOrder, ReleaseInTransaction, WriteCancelled
<1>7. CASE SellerAccept
  BY <1>7 DEF SellerAccept
<1>8. CASE SellerReject
  BY <1>8 DEF SellerReject, CancelPendingOrder, Cancellable, WriteCancelled
<1>9. CASE CustomerCancel
  BY <1>9 DEF CustomerCancel, CancelPendingOrder, Cancellable, WriteCancelled
<1>10. CASE PaymentTimeoutSweep
  BY <1>10 DEF PaymentTimeoutSweep, NeverPaid, WriteCancelled
<1>11. CASE ReleaseReservedStock
  BY <1>11 DEF ReleaseReservedStock, CompensationFrame
<1>12. CASE SaveRelease
  BY <1>12 DEF SaveRelease, CompensationFrame
<1>13. CASE ReverseOrderFinance
  BY <1>13 DEF ReverseOrderFinance, RefundDue, CompensationFrame
<1>14. CASE \E r \in Riders : DeliveryAccept(r)
  BY <1>14 DEF DeliveryAccept, Claimable
<1>15. CASE \E r \in Riders : MarkArrivedAtStore(r)
  BY <1>15 DEF MarkArrivedAtStore, RiderMoves, legacyStatusFromWorkflow
<1>16. CASE \E r \in Riders : ConfirmPickup(r)
  BY <1>16 DEF ConfirmPickup, RiderMoves, legacyStatusFromWorkflow
<1>17. CASE \E r \in Riders : RequestHandoffOtp(r)
  BY <1>17 DEF RequestHandoffOtp
<1>18. CASE \E r \in Riders, t \in Taps : VerifyOtp(t, r)
  BY <1>18 DEF VerifyOtp, VerifyStep
<1>19. CASE \E t \in Taps : ConsumeOtp(t)
  BY <1>19 DEF ConsumeOtp, VerifyStep
<1>20. CASE \E t \in Taps : FinalizeDelivery(t)
  BY <1>20 DEF FinalizeDelivery, VerifyStep, MayFinalize
<1>21. CASE \E t \in Taps : ApplyDeliveredSettlement(t)
  BY <1>21 DEF ApplyDeliveredSettlement, VerifyStep
<1>22. CASE Crash
  BY <1>22 DEF Crash, CrashHandler, CrashCompensation, CrashTimeoutWorker,
     CrashVerify
<1>23. QED
  BY <1>1, <1>2, <1>3, <1>4, <1>5, <1>6, <1>7, <1>8, <1>9, <1>10, <1>11,
     <1>12, <1>13, <1>14, <1>15, <1>16, <1>17, <1>18, <1>19, <1>20, <1>21, <1>22
     DEF Next, Background

----------------------------------------------------------------------------
(* What a request reads and puts into the document.                        *)

Edit(next, d) == WithDelivery(WithStatus(next), next, d)

LEMMA ReadType ==
    ASSUME TypeOK, NEW next \in LEGACY_STATUS \cup {NoStatus}
    PROVE  loaded \in OrderDocument /\ WithStatus(next) \in OrderDocument
<1>1. loaded \in OrderDocument
  BY DEF loaded, OrderDocument, TypeOK
<1>2. next # NoStatus => workflowFromLegacyStatus(next) \in WORKFLOW_STATUS
  BY DEF workflowFromLegacyStatus, WORKFLOW_STATUS, LEGACY_STATUS, NoStatus
<1>3. WithStatus(next) \in OrderDocument
  BY <1>1, <1>2 DEF WithStatus, OrderDocument
<1> QED BY <1>1, <1>3

LEMMA EditType ==
    ASSUME TypeOK, NEW next \in LEGACY_STATUS \cup {NoStatus},
           NEW d \in Riders \cup {NoRider, Self}
    PROVE  Edit(next, d) \in OrderDocument
<1> DEFINE doc == WithStatus(next)
<1>1. doc \in OrderDocument
  BY ReadType
<1> HIDE DEF doc
<1>2. CASE d = NoRider
  BY <1>1, <1>2, SelfAssumption DEF Edit, WithDelivery, doc
<1>3. CASE d = Self /\ d # NoRider
  <2>1. Edit(next, d) = [doc EXCEPT !.deliveryBoy = NoRider]
    BY <1>3 DEF Edit, WithDelivery, doc
  <2> QED BY <2>1, <1>1 DEF OrderDocument
<1>4. CASE d \in Riders /\ d # Self /\ d # NoRider
  <2>1. PICK ws \in WORKFLOW_STATUS :
          Edit(next, d) = [doc EXCEPT !.deliveryBoy = d, !.skippedBy = @ \ {d},
                                      !.workflowStatus = ws]
    BY <1>1, <1>4 DEF Edit, WithDelivery, doc, OrderDocument, WORKFLOW_STATUS
  <2>2. doc.skippedBy \ {d} \in SUBSET Riders
    BY <1>1 DEF OrderDocument
  <2> QED BY <2>1, <2>2, <1>1, <1>4 DEF OrderDocument
<1> QED BY <1>2, <1>3, <1>4

(* The edit moves the order forward, and not at all once it is final.      *)
LEMMA EditMoves ==
    ASSUME TypeOK, StatusAgrees, NEW next \in LEGACY_STATUS \cup {NoStatus},
           NEW d \in Riders \cup {NoRider, Self},
           NotRevived(next), NotBackwards(next)
    PROVE  LET e == Edit(next, d)
           IN  /\ e.status \in LegacyOf(e.workflowStatus)
               /\ STATUS_RANK_MAP[e.status] >= STATUS_RANK_MAP[status]
               /\ workflowStatus \in {"DELIVERED", "CANCELLED"} =>
                     e.workflowStatus = workflowStatus
               /\ next = "cancelled" => e.workflowStatus = "CANCELLED"
               /\ next = "delivered" => e.workflowStatus = "DELIVERED"
<1> DEFINE doc == WithStatus(next)
           e   == Edit(next, d)
<1>1. doc \in OrderDocument
  BY ReadType
<1>2. e.status = doc.status
  BY <1>1 DEF Edit, WithDelivery, OrderDocument
<1>3. e.workflowStatus = doc.workflowStatus \/
        /\ e.workflowStatus = "DELIVERY_ASSIGNED"
        /\ next = "packed" \/ doc.workflowStatus \in
               {"DELIVERY_SEARCH", "SELLER_ACCEPTED", "PICKUP_READY", "DELIVERY_ASSIGNED"}
  BY <1>1 DEF Edit, WithDelivery, OrderDocument
<1>4. CASE next = NoStatus
  <2>1. doc.status = status /\ doc.workflowStatus = workflowStatus
    BY <1>4 DEF WithStatus, loaded
  <2>2. STATUS_RANK_MAP[status] \in 1..6
    BY RankIsNumber DEF TypeOK
  <2>3. STATUS_RANK_MAP[e.status] >= STATUS_RANK_MAP[status]
    BY <2>1, <2>2, <1>2
  <2>4. next \notin {"packed", "cancelled", "delivered"}
    BY <1>4 DEF NoStatus
  <2>5. e.status \in LegacyOf(e.workflowStatus)
    BY <2>1, <2>4, <1>2, <1>3 DEF StatusAgrees, TypeOK, WORKFLOW_STATUS
  <2>6. workflowStatus \in {"DELIVERED", "CANCELLED"} =>
          e.workflowStatus = workflowStatus
    BY <2>1, <2>4, <1>3
  <2> QED BY <2>3, <2>4, <2>5, <2>6
<1>5. CASE next # NoStatus
  <2>1. doc.status = next /\ doc.workflowStatus = workflowFromLegacyStatus(next)
    BY <1>5 DEF WithStatus, loaded
  <2>2. STATUS_RANK_MAP[e.status] >= STATUS_RANK_MAP[status]
    BY <2>1, <1>2, <1>5 DEF NotBackwards
  <2>3. e.status \in LegacyOf(e.workflowStatus)
    BY <2>1, <1>2, <1>3, <1>5 DEF workflowFromLegacyStatus, LEGACY_STATUS
  <2>4. workflowStatus \in {"DELIVERED", "CANCELLED"} =>
          e.workflowStatus = workflowStatus
    BY <2>1, <1>3, <1>5 DEF NotRevived, isFinalized, StatusAgrees,
       workflowFromLegacyStatus
  <2>5. /\ next = "cancelled" => e.workflowStatus = "CANCELLED"
        /\ next = "delivered" => e.workflowStatus = "DELIVERED"
    BY <2>1, <1>3, <1>5 DEF workflowFromLegacyStatus
  <2> QED BY <2>2, <2>3, <2>4, <2>5
<1> QED BY <1>4, <1>5

----------------------------------------------------------------------------
(* Types.                                                                  *)

LEMMA PlanType ==
    ASSUME NEW next, NEW d
    PROVE  Plan(next, d) \in PLAN
  BY PlanIsKnown DEF PLAN

LEMMA PerformType ==
    ASSUME ApiTypeOK, NEW q \in Requests,
           NEW step \in {"save", "restock", "settle"}, Perform(q, step)
    PROVE  /\ todo' \in [Requests -> PLAN]
           /\ seen' \in [Requests -> OrderDocument]
           /\ edited' \in [Requests -> OrderDocument]
<1> USE DEF ApiTypeOK
<1>1. todo' \in [Requests -> PLAN]
  <2>1. Tail(todo[q]) \in PLAN
    <3>1. todo'[q] = Tail(todo[q]) /\ todo'[q] \in PLAN
      BY PerformMoves DEF PLAN
    <3> QED BY <3>1
  <2> QED BY <2>1 DEF Perform
<1>2. NoDocument \in OrderDocument
  BY DEF NoDocument, OrderDocument, LEGACY_STATUS, WORKFLOW_STATUS
<1>3. seen' \in [Requests -> OrderDocument] /\ edited' \in [Requests -> OrderDocument]
  BY <1>2 DEF Perform
<1> QED BY <1>1, <1>3

LEMMA SaveType ==
    ASSUME ApiTypeOK, NEW q \in Requests, SaveOrder(q)
    PROVE  TypeOK'
<1>1. /\ edited[q].status \in LEGACY_STATUS
      /\ edited[q].workflowStatus \in WORKFLOW_STATUS
      /\ edited[q].deliveryBoy \in Riders \cup {NoRider}
      /\ edited[q].skippedBy \in SUBSET Riders
  BY DEF ApiTypeOK, OrderDocument
<1>2. /\ status' \in LEGACY_STATUS
      /\ workflowStatus' \in WORKFLOW_STATUS
      /\ deliveryBoy' \in Riders \cup {NoRider}
      /\ skippedBy' \in SUBSET Riders
  BY <1>1 DEF SaveOrder, Written, ApiTypeOK, TypeOK
<1> QED BY <1>2 DEF SaveOrder, ApiTypeOK, TypeOK, stockVars, verifyVars, jobVars

LEMMA ApiTypeNext == ApiTypeOK /\ [ApiNext]_allVars => ApiTypeOK'
<1> SUFFICES ASSUME ApiTypeOK, [ApiNext]_allVars PROVE ApiTypeOK'
  OBVIOUS
<1>1. CASE Next /\ UNCHANGED apiVars
  <2>1. TypeOK' BY <1>1, TypeNext DEF ApiTypeOK
  <2> QED BY <1>1, <2>1 DEF ApiTypeOK, apiVars
<1>2. ASSUME NEW q \in Requests, NEW role \in {"seller", "admin", "delivery"},
             NEW next \in LEGACY_STATUS \cup {NoStatus},
             NEW d \in Riders \cup {NoRider, Self}, ReadOrder(q, role, next, d)
      PROVE  ApiTypeOK'
  <2>1. TypeOK /\ UNCHANGED vars BY <1>2 DEF ReadOrder, ApiTypeOK
  <2>2. TypeOK' BY <2>1, TypeNext
  <2>3. todo' \in [Requests -> PLAN]
    BY <1>2, PlanType DEF ReadOrder, ApiTypeOK
  <2>4. /\ seen' \in [Requests -> OrderDocument]
        /\ edited' \in [Requests -> OrderDocument]
    BY <1>2, <2>1, ReadType, EditType DEF ReadOrder, ApiTypeOK, Edit
  <2> QED BY <2>2, <2>3, <2>4 DEF ApiTypeOK
<1>3. ASSUME NEW q \in Requests, SaveOrder(q) PROVE ApiTypeOK'
  <2>1. Perform(q, "save") BY <1>3 DEF SaveOrder
  <2> QED BY <1>3, <2>1, PerformType, SaveType DEF ApiTypeOK
<1>4. ASSUME NEW q \in Requests, RestockOrder(q) PROVE ApiTypeOK'
  <2>1. Perform(q, "restock") BY <1>4 DEF RestockOrder
  <2>2. TypeOK'
    BY <1>4 DEF RestockOrder, ApiTypeOK, TypeOK, orderVars, riderVars, verifyVars, jobVars
  <2> QED BY <2>1, <2>2, PerformType DEF ApiTypeOK
<1>5. ASSUME NEW q \in Requests, SettleOrder(q) PROVE ApiTypeOK'
  <2>1. Perform(q, "settle") BY <1>5 DEF SettleOrder
  <2>2. TypeOK'
    BY <1>5 DEF SettleOrder, ApiTypeOK, TypeOK, orderVars, stockVars, riderVars, jobVars
  <2> QED BY <2>1, <2>2, PerformType DEF ApiTypeOK
<1>6. CASE UNCHANGED allVars
  <2>1. TypeOK' BY <1>6, TypeNext DEF ApiTypeOK, allVars
  <2> QED BY <1>6, <2>1 DEF ApiTypeOK, allVars, apiVars
<1> QED BY <1>1, <1>2, <1>3, <1>4, <1>5, <1>6 DEF ApiNext, UpdateOrderStatus

LEMMA ApiTypeInit == ApiInit => ApiTypeOK
<1>1. NoDocument \in OrderDocument
  BY DEF NoDocument, OrderDocument, LEGACY_STATUS, WORKFLOW_STATUS
<1> QED BY <1>1, TypeInit DEF ApiInit, ApiTypeOK, PLAN

(* However requests and the workflow service interleave, an order and the  *)
(* documents loaded from it stay well formed.                              *)
THEOREM ApiTypeCorrect == ApiSpec => []ApiTypeOK
  BY ApiTypeInit, ApiTypeNext, PTL DEF ApiSpec

----------------------------------------------------------------------------
(* The inductive invariant.                                                *)

(* A step of the request at work leaves the others idle.                   *)
LEMMA OnlyOne ==
    ASSUME ApiIInv, NEW q \in Requests,
           NEW step \in {"save", "restock", "settle"}, Perform(q, step)
    PROVE  /\ AtWork(q)
           /\ \A p \in Requests : Busy(p) \/ Busy(p)' => p = q
           /\ StockInv \/ HalfCancelled(q)
<1>1. Busy(q) BY DEF Perform, Busy
<1>2. \A p \in Requests \ {q} : todo'[p] = todo[p]
  BY DEF Perform, ApiIInv, ApiTypeOK
<1>3. \A p \in Requests : HalfCancelled(p) => Busy(p)
  BY DEF HalfCancelled, Busy
<1> QED BY <1>1, <1>2, <1>3 DEF ApiIInv, Busy

LEMMA ReadKeeps ==
    ASSUME ApiIInv, \A p \in Requests : ~Busy(p),
           NEW q \in Requests, NEW role \in {"seller", "admin", "delivery"},
           NEW next \in LEGACY_STATUS \cup {NoStatus},
           NEW d \in Riders \cup {NoRider, Self},
           ReadOrder(q, role, next, d), ApiTypeOK'
    PROVE  ApiIInv'
<1> DEFINE e == Edit(next, d)
<1>1. TypeOK /\ StatusAgrees /\ OneSettles
  BY DEF ApiIInv, ApiTypeOK
<1>2. UNCHANGED vars BY DEF ReadOrder
<1>3. StatusAgrees' /\ OneSettles'
  BY <1>1, <1>2, AgreesNext, OneSettlesNext
<1>4. StockInv
  BY DEF ApiIInv, HalfCancelled, Busy
<1>5. StockInv'
  BY <1>2, <1>4 DEF vars, stockVars, orderVars, StockInv
<1>6. /\ todo'[q] = Plan(next, d) /\ seen'[q] = loaded /\ edited'[q] = e
      /\ \A p \in Requests \ {q} : todo'[p] = todo[p]
  BY DEF ReadOrder, Edit, ApiIInv, ApiTypeOK
<1>7. \A p \in Requests : Busy(p)' => p = q
  BY <1>6 DEF Busy
<1>8. /\ e.status \in LegacyOf(e.workflowStatus)
      /\ STATUS_RANK_MAP[e.status] >= STATUS_RANK_MAP[status]
      /\ workflowStatus \in {"DELIVERED", "CANCELLED"} =>
            e.workflowStatus = workflowStatus
      /\ next = "cancelled" => e.workflowStatus = "CANCELLED"
      /\ next = "delivered" => e.workflowStatus = "DELIVERED"
  BY <1>1, EditMoves DEF ReadOrder
<1>9. WillRestock(q)' => NothingRestocked /\ e.workflowStatus = "CANCELLED"
  <2> SUFFICES ASSUME WillRestock(q)'
               PROVE  NothingRestocked /\ e.workflowStatus = "CANCELLED"
    OBVIOUS
  <2>1. next = "cancelled" /\ status # "cancelled"
    BY <1>6, PlanIsKnown DEF WillRestock
  <2>2. workflowStatus # "CANCELLED"
    BY <2>1, <1>1 DEF StatusAgrees
  <2>3. NothingRestocked
    BY <2>2, <1>4 DEF StockInv, NothingRestocked
  <2> QED BY <2>1, <2>3, <1>8
<1>10. WillSettle(q)' => /\ e.workflowStatus = "DELIVERED"
                         /\ settlements = 0
                         /\ \A t \in Taps : verifying[t] # "delivered"
  <2> SUFFICES ASSUME WillSettle(q)'
               PROVE  /\ e.workflowStatus = "DELIVERED"
                      /\ settlements = 0
                      /\ \A t \in Taps : verifying[t] # "delivered"
    OBVIOUS
  <2>1. next = "delivered" /\ status # "delivered"
    BY <1>6, PlanIsKnown DEF WillSettle
  <2>2. workflowStatus \notin {"DELIVERED", "CANCELLED"}
    BY <2>1 DEF ReadOrder, NotRevived, isFinalized, NoStatus
  <2> QED BY <2>1, <2>2, <1>1, <1>8 DEF OneSettles
<1>11. todo'[q] # <<"settle">>
  BY <1>6, PlanIsKnown
<1>12. AtWork(q)'
  <2>1. /\ seen'[q] = loaded' /\ NothingRestocked' = NothingRestocked
        /\ UNCHANGED <<status, workflowStatus, settlements, verifying>>
    BY <1>2, <1>6 DEF vars, orderVars, riderVars, stockVars, verifyVars, loaded,
       NothingRestocked
  <2> HIDE DEF e
  <2> QED BY <2>1, <1>6, <1>8, <1>9, <1>10, <1>11 DEF AtWork
<1> QED BY <1>3, <1>5, <1>7, <1>12 DEF ApiIInv

(* A save of what the order still is makes it what the document is.        *)
LEMMA FreshSaveWrites ==
    ASSUME ApiTypeOK, NEW q \in Requests, SaveOrder(q), seen[q] = loaded
    PROVE  /\ status' = edited[q].status
           /\ workflowStatus' = edited[q].workflowStatus
           /\ loaded' = edited[q]
<1>1. edited[q] \in OrderDocument
  BY DEF ApiTypeOK
<1>2. /\ seen[q].status = status /\ seen[q].workflowStatus = workflowStatus
      /\ seen[q].deliveryBoy = deliveryBoy /\ seen[q].skippedBy = skippedBy
  BY DEF loaded
<1>3. /\ status' = edited[q].status /\ workflowStatus' = edited[q].workflowStatus
      /\ deliveryBoy' = edited[q].deliveryBoy /\ skippedBy' = edited[q].skippedBy
  BY <1>2 DEF SaveOrder, Written
<1> QED BY <1>1, <1>3 DEF loaded, OrderDocument

LEMMA SaveWrites ==
    ASSUME ApiIInv, NEW q \in Requests, SaveOrder(q)
    PROVE  /\ status' = edited[q].status
           /\ workflowStatus' = edited[q].workflowStatus
           /\ loaded' = edited[q]
<1>1. seen[q] = loaded /\ ApiTypeOK
  BY OnlyOne DEF SaveOrder, AtWork, ApiIInv
<1> QED BY <1>1, FreshSaveWrites

LEMMA SaveKeeps ==
    ASSUME ApiIInv, NEW q \in Requests, SaveOrder(q), ApiTypeOK'
    PROVE  ApiIInv'
<1>1. Perform(q, "save") BY DEF SaveOrder
<1>2. /\ AtWork(q)
      /\ \A p \in Requests : Busy(p)' => p = q
      /\ StockInv \/ HalfCancelled(q)
  BY <1>1, OnlyOne
<1>3. /\ todo \in [Requests -> PLAN]
      /\ status' = edited[q].status
      /\ workflowStatus' = edited[q].workflowStatus
      /\ loaded' = edited[q]
      /\ UNCHANGED <<stockReservation, restocked, compensation, verifying, settlements>>
  BY SaveWrites DEF SaveOrder, ApiIInv, ApiTypeOK, stockVars, verifyVars
<1>4. StatusAgrees'
  BY <1>2, <1>3 DEF AtWork, StatusAgrees
<1>5. workflowStatus \in {"DELIVERED", "CANCELLED"} =>
         workflowStatus' = workflowStatus
  BY <1>2, <1>3 DEF AtWork
<1>6. OneSettles'
  BY <1>3, <1>5 DEF ApiIInv, OneSettles
<1>7. StockInv'
  BY <1>2, <1>3, <1>5 DEF StockInv, HalfCancelled
<1>8. ASSUME Busy(q)' PROVE AtWork(q)'
  <2>1. todo'[q] # <<>> /\ seen'[q] = edited[q] /\ edited'[q] = edited[q]
    BY <1>1, <1>8 DEF Busy, Perform, ApiIInv, ApiTypeOK
  <2>2. \/ todo[q] = <<"save", "save">> /\ todo'[q] = <<"save">>
        \/ todo[q] = <<"save", "settle">> /\ todo'[q] = <<"settle">>
        \/ todo[q] = <<"save", "save", "settle">> /\ todo'[q] = <<"save", "settle">>
        \/ todo[q] = <<"save", "restock", "save">> /\ todo'[q] = <<"restock", "save">>
    BY <1>1, <1>3, <2>1, PerformMoves
  <2>3. /\ WillRestock(q)' => WillRestock(q)
        /\ WillSettle(q)' => WillSettle(q)
        /\ todo'[q] = <<"settle">> => WillSettle(q)
    BY <2>2 DEF WillRestock, WillSettle
  <2>4. NothingRestocked' = NothingRestocked
    BY <1>3 DEF NothingRestocked
  <2>5. STATUS_RANK_MAP[edited'[q].status] >= STATUS_RANK_MAP[status']
    <3>1. status' = edited'[q].status /\ status' \in LEGACY_STATUS
      BY <1>3, <2>1 DEF ApiTypeOK, TypeOK
    <3>2. STATUS_RANK_MAP[status'] \in 1..6 BY <3>1, RankIsNumber
    <3> QED BY <3>1, <3>2
  <2> QED BY <1>2, <1>3, <2>1, <2>3, <2>4, <2>5 DEF AtWork
<1> QED BY <1>2, <1>4, <1>6, <1>7, <1>8 DEF ApiIInv

LEMMA RestockKeeps ==
    ASSUME ApiIInv, NEW q \in Requests, RestockOrder(q), ApiTypeOK'
    PROVE  ApiIInv'
<1>1. Perform(q, "restock") BY DEF RestockOrder
<1>2. /\ AtWork(q)
      /\ \A p \in Requests : Busy(p)' => p = q
  BY <1>1, OnlyOne
<1>3. todo[q] = <<"restock", "save">> /\ todo'[q] = <<"save">>
  BY <1>1, PerformMoves DEF ApiIInv, ApiTypeOK
<1>4. NothingRestocked /\ edited[q].workflowStatus = "CANCELLED"
  BY <1>2, <1>3 DEF AtWork, WillRestock
<1>5. /\ seen'[q] = seen[q] /\ edited' = edited
      /\ restocked' = 1 /\ loaded' = loaded
      /\ UNCHANGED <<status, workflowStatus, stockReservation, compensation,
                     verifying, settlements>>
  <2>1. Tail(todo[q]) # <<>>
    BY <1>3
  <2>2. seen'[q] = seen[q] /\ edited' = edited
    BY <1>1, <2>1 DEF Perform, ApiIInv, ApiTypeOK
  <2> QED BY <1>4, <2>2 DEF RestockOrder, NothingRestocked, loaded, orderVars,
             riderVars, verifyVars
<1>6. StatusAgrees' /\ OneSettles'
  BY <1>5 DEF ApiIInv, StatusAgrees, OneSettles
<1>7. AtWork(q)'
  BY <1>2, <1>3, <1>5 DEF AtWork, WillRestock, WillSettle
<1>8. StockInv' \/ HalfCancelled(q)'
  BY <1>3, <1>4, <1>5 DEF StockInv, HalfCancelled, NothingRestocked
<1> QED BY <1>2, <1>6, <1>7, <1>8 DEF ApiIInv

LEMMA SettleKeeps ==
    ASSUME ApiIInv, NEW q \in Requests, SettleOrder(q), ApiTypeOK'
    PROVE  ApiIInv'
<1>1. Perform(q, "settle") BY DEF SettleOrder
<1>2. /\ AtWork(q)
      /\ \A p \in Requests : Busy(p)' => p = q
      /\ StockInv \/ HalfCancelled(q)
  BY <1>1, OnlyOne
<1>3. todo[q] = <<"settle">> /\ todo'[q] = <<>>
  BY <1>1, PerformMoves DEF ApiIInv, ApiTypeOK
<1>4. /\ workflowStatus = "DELIVERED" /\ settlements = 0
      /\ \A t \in Taps : verifying[t] # "delivered"
  BY <1>2, <1>3 DEF AtWork, WillSettle
<1>5. /\ settlements' = 1
      /\ UNCHANGED <<status, workflowStatus, restocked, stockReservation,
                     compensation, verifying>>
  BY <1>4 DEF SettleOrder, orderVars, stockVars
<1>6. StatusAgrees' /\ OneSettles'
  BY <1>4, <1>5 DEF ApiIInv, StatusAgrees, OneSettles
<1>7. StockInv'
  BY <1>2, <1>3, <1>5 DEF StockInv, HalfCancelled
<1>8. \A p \in Requests : ~Busy(p)'
  BY <1>2, <1>3 DEF Busy
<1> QED BY <1>6, <1>7, <1>8 DEF ApiIInv

(* A step of the workflow service comes between requests. *)
LEMMA ServiceKeeps ==
    ASSUME ApiIInv, \A p \in Requests : ~Busy(p), [Next]_vars,
           UNCHANGED apiVars, ApiTypeOK'
    PROVE  ApiIInv'
<1>0. \A q \in Requests : ~HalfCancelled(q)
  BY DEF HalfCancelled, Busy
<1>1. TypeOK /\ StatusAgrees /\ OneSettles /\ StockInv
  BY <1>0 DEF ApiIInv, ApiTypeOK
<1>2. CancelledInBoth
  BY <1>1 DEF StatusAgrees, CancelledInBoth
<1>3. StatusAgrees' /\ OneSettles' /\ StockInv'
  BY <1>1, <1>2, AgreesNext, OneSettlesNext, StockInvNext
<1>4. \A p \in Requests : ~Busy(p)'
  BY DEF Busy, apiVars
<1> QED BY <1>3, <1>4 DEF ApiIInv

LEMMA ApiIInvNext == ~Overlap /\ ApiIInv /\ [ApiNext]_allVars => ApiIInv'
<1> SUFFICES ASSUME ~Overlap, ApiIInv, [ApiNext]_allVars PROVE ApiIInv'
  OBVIOUS
<1>1. ApiTypeOK'
  BY ApiTypeNext DEF ApiIInv
<1>2. CASE (\A q \in Requests : ~Busy(q)) /\ Next /\ UNCHANGED apiVars
  BY <1>1, <1>2, ServiceKeeps
<1>3. ASSUME NEW q \in Requests, \A p \in Requests \ {q} : ~Busy(p),
             UpdateOrderStatus(q)
      PROVE  ApiIInv'
  <2>1. ASSUME NEW role \in {"seller", "admin", "delivery"},
               NEW next \in LEGACY_STATUS \cup {NoStatus},
               NEW d \in Riders \cup {NoRider, Self}, ReadOrder(q, role, next, d)
        PROVE  ApiIInv'
    <3>1. \A p \in Requests : ~Busy(p) BY <1>3, <2>1 DEF ReadOrder, Busy
    <3> QED BY <1>1, <2>1, <3>1, ReadKeeps
  <2> QED BY <1>1, <1>3, <2>1, SaveKeeps, RestockKeeps, SettleKeeps
          DEF UpdateOrderStatus
<1>4. CASE UNCHANGED allVars
  <2>1. UNCHANGED vars /\ UNCHANGED apiVars BY <1>4 DEF allVars
  <2>2. UNCHANGED loaded
    BY <2>1 DEF vars, orderVars, riderVars, loaded
  <2>3. ApiIInv' = ApiIInv
    BY <1>1, <2>1, <2>2 DEF vars, orderVars, stockVars, verifyVars, apiVars, ApiIInv,
       StatusAgrees, OneSettles, StockInv, Busy, AtWork, WillRestock, WillSettle,
       NothingRestocked, HalfCancelled
  <2> QED BY <2>3
<1> QED BY <1>2, <1>3, <1>4 DEF ApiNext

LEMMA ApiIInvInit == ApiInit => ApiIInv
<1> SUFFICES ASSUME ApiInit PROVE ApiIInv
  OBVIOUS
<1>1. ApiTypeOK BY ApiTypeInit
<1>2. StatusAgrees BY DEF ApiInit, Init, PlacedStatus, StatusAgrees
<1>3. OneSettles BY DEF ApiInit, Init, OneSettles
<1>4. StockInv BY DEF ApiInit, Init, StockInv
<1>5. \A q \in Requests : ~Busy(q) BY DEF ApiInit, Busy
<1> QED BY <1>1, <1>2, <1>3, <1>4, <1>5 DEF ApiIInv

(* The inductive invariant holds in every reachable state when requests    *)
(* are served one after the other.                                         *)
THEOREM ApiInductive == ~Overlap => (ApiSpec => []ApiIInv)
<1> SUFFICES ASSUME ~Overlap PROVE ApiSpec => []ApiIInv
  OBVIOUS
<1>1. ApiInit => ApiIInv BY ApiIInvInit
<1>2. ApiIInv /\ [ApiNext]_allVars => ApiIInv' BY ApiIInvNext
<1> QED BY <1>1, <1>2, PTL DEF ApiSpec

----------------------------------------------------------------------------
(* The workflow's compensation and a request never both restock the items, *)
(* nor do the OTP handoff and a request both settle the order.             *)
THEOREM OnceEach == ~Overlap => (ApiSpec => []RestockedAndSettledOnce)
<1> SUFFICES ASSUME ~Overlap PROVE ApiSpec => []RestockedAndSettledOnce
  OBVIOUS
<1>1. ApiIInv => RestockedAndSettledOnce
  BY DEF ApiIInv, StockInv, HalfCancelled, OneSettles, RestockedAndSettledOnce
<1> QED BY <1>1, ApiInductive, PTL

LEMMA ForwardStep ==
    ~Overlap /\ ApiIInv /\ [ApiNext]_allVars
        => STATUS_RANK_MAP[status'] >= STATUS_RANK_MAP[status]
<1> SUFFICES ASSUME ~Overlap, ApiIInv, [ApiNext]_allVars
             PROVE  STATUS_RANK_MAP[status'] >= STATUS_RANK_MAP[status]
  OBVIOUS
<1>1. TypeOK /\ StatusAgrees BY DEF ApiIInv, ApiTypeOK
<1>2. CASE [Next]_vars
  BY <1>1, <1>2, AgreesNext
<1>3. ASSUME NEW q \in Requests, SaveOrder(q)
      PROVE  STATUS_RANK_MAP[status'] >= STATUS_RANK_MAP[status]
  <2>1. AtWork(q) BY <1>3, OnlyOne DEF SaveOrder
  <2>2. status' = edited[q].status BY <1>3, SaveWrites
  <2> QED BY <2>1, <2>2 DEF AtWork
<1>4. ASSUME UNCHANGED status
      PROVE  STATUS_RANK_MAP[status'] >= STATUS_RANK_MAP[status]
  <2>1. STATUS_RANK_MAP[status'] = STATUS_RANK_MAP[status] BY <1>4
  <2>2. STATUS_RANK_MAP[status] \in 1..6 BY <1>1, RankIsNumber DEF TypeOK
  <2> QED BY <2>1, <2>2
<1>5. ~[Next]_vars /\ (\A q \in Requests : ~SaveOrder(q)) => UNCHANGED status
  BY DEF ApiNext, UpdateOrderStatus, ReadOrder, RestockOrder, SettleOrder, allVars, vars,
     orderVars
<1> QED BY <1>2, <1>3, <1>4, <1>5

(* The status sellers and customers are shown only moves forward.          *)
THEOREM StatusMovesForward == ~Overlap => (ApiSpec => StatusNeverBackwards)
<1> SUFFICES ASSUME ~Overlap PROVE ApiSpec => StatusNeverBackwards
  OBVIOUS
<1>1. ApiIInv /\ [ApiNext]_allVars
        => [STATUS_RANK_MAP[status'] >= STATUS_RANK_MAP[status]]_allVars
  BY ForwardStep
<1> QED BY <1>1, ApiInductive, PTL DEF ApiSpec, StatusNeverBackwards

(* Requests leave a final order's workflow status alone. *)
LEMMA FinalStays ==
    ASSUME ApiIInv, NEW q \in Requests, UpdateOrderStatus(q),
           workflowStatus \in {"DELIVERED", "CANCELLED"}
    PROVE  workflowStatus' = workflowStatus
<1>1. CASE SaveOrder(q)
  BY <1>1, OnlyOne, SaveWrites DEF SaveOrder, AtWork
<1> QED BY <1>1 DEF UpdateOrderStatus, ReadOrder, RestockOrder, SettleOrder, vars, orderVars

LEMMA ApiPaidNext ==
    ~Overlap /\ ~Polling /\ ApiIInv /\ PaidInv /\ [ApiNext]_allVars => PaidInv'
<1> SUFFICES ASSUME ~Overlap, ~Polling, ApiIInv, PaidInv, [ApiNext]_allVars
             PROVE  PaidInv'
  OBVIOUS
<1>1. CASE (\A q \in Requests : ~Busy(q)) /\ Next
  <2>1. TypeOK /\ StockInv /\ CancelledInBoth
    BY <1>1 DEF ApiIInv, ApiTypeOK, HalfCancelled, Busy, StatusAgrees, CancelledInBoth
  <2> QED BY <1>1, <2>1, StockCompensates, PaidInvNext
<1>2. ASSUME NEW q \in Requests, UpdateOrderStatus(q) PROVE PaidInv'
  <2>1. UNCHANGED <<financeFlags, paymentStatus, inFlight>>
    BY <1>2 DEF UpdateOrderStatus, ReadOrder, SaveOrder, RestockOrder, SettleOrder, vars,
       orderVars
  <2>2. workflowStatus = "CANCELLED" => workflowStatus' = "CANCELLED"
    BY <1>2, FinalStays
  <2> QED BY <2>1, <2>2 DEF PaidInv, captured
<1>3. CASE UNCHANGED allVars
  BY <1>3 DEF allVars, vars, orderVars, PaidInv, captured
<1> QED BY <1>1, <1>2, <1>3 DEF ApiNext

LEMMA RevivalStep ==
    ~Overlap /\ ApiIInv /\ PaidInv /\ [ApiNext]_allVars
        => [Closed => workflowStatus' = workflowStatus]_allVars
<1> SUFFICES ASSUME ~Overlap, ApiIInv, PaidInv, [ApiNext]_allVars, Closed
             PROVE  workflowStatus' = workflowStatus
  OBVIOUS
<1>1. CASE Next
  BY <1>1, ClosedNext DEF ApiIInv, ApiTypeOK
<1>2. ASSUME NEW q \in Requests, UpdateOrderStatus(q)
      PROVE  workflowStatus' = workflowStatus
  BY <1>2, FinalStays DEF Closed
<1>3. CASE UNCHANGED allVars
  BY <1>3 DEF allVars, vars, orderVars
<1> QED BY <1>1, <1>2, <1>3 DEF ApiNext

(* A cancelled order, and a delivered one that is paid for, is never       *)
(* revived, if requests are served one after the other and no status poll  *)
(* overlaps the capture.                                                   *)
THEOREM NothingRevived == ~Overlap /\ ~Polling => (ApiSpec => NeverRevived)
<1> SUFFICES ASSUME ~Overlap, ~Polling PROVE ApiSpec => NeverRevived
  OBVIOUS
<1>1. ApiInit => PaidInv BY DEF ApiInit, Init, PaidInv, captured
<1>2. ApiIInv /\ PaidInv /\ [ApiNext]_allVars => PaidInv' BY ApiPaidNext
<1>3. ApiSpec => []PaidInv BY <1>1, <1>2, ApiInductive, PTL DEF ApiSpec
<1>4. ApiIInv /\ PaidInv /\ [ApiNext]_allVars
        => [Closed => workflowStatus' = workflowStatus]_allVars
  BY RevivalStep
<1> QED BY <1>3, <1>4, ApiInductive, PTL DEF ApiSpec, NeverRevived

----------------------------------------------------------------------------
(* What a save would have to test.  If every save found the order as its   *)
(* request had read or last saved it, requests and workflow could overlap  *)
(* at will.  Items restocked before such a save would still come back      *)
(* twice: the promise to restock once is not among the theorems.           *)
SavesWhatItRead == [][\A q \in Requests : SaveOrder(q) => seen[q] = loaded]_allVars

(* What an edit does to the document, whatever has become of the order.    *)
SoundEdit(q) ==
    /\ edited[q].status \in LegacyOf(edited[q].workflowStatus)
    /\ STATUS_RANK_MAP[edited[q].status] >= STATUS_RANK_MAP[seen[q].status]
    /\ seen[q].workflowStatus \in {"DELIVERED", "CANCELLED"} =>
          edited[q].workflowStatus = seen[q].workflowStatus

FreshIInv ==
    /\ ApiTypeOK
    /\ StatusAgrees
    /\ CompensatesCancelled
    /\ \A q \in Requests : SoundEdit(q)

FreshStep ==
    /\ [ApiNext]_allVars
    /\ [\A q \in Requests : SaveOrder(q) => seen[q] = loaded]_allVars

LEMMA CompensatesNext ==
    ASSUME TypeOK, CompensatesCancelled, CancelledInBoth, [Next]_vars
    PROVE  CompensatesCancelled'
<1> USE DEF TypeOK, orderVars, CompensatesCancelled, CancelledInBoth
<1>1. CASE Background
  BY <1>1, BackgroundFrame
<1>2. CASE HandleOnlineOrderFinance \/ MoveOrderToSellerPending \/ PollWrite
  BY <1>2 DEF HandleOnlineOrderFinance, MoveOrderToSellerPending, AwaitsPayment, PollWrite,
     End
<1>3. CASE PaymentFailed \/ CancelOnlinePaymentAttempt
  BY <1>3 DEF PaymentFailed, CancelOnlinePaymentAttempt, PaymentAbandonable,
     CancelUnpaidOrder, ReleaseInTransaction, WriteCancelled
<1>4. CASE SellerAccept
  BY <1>4 DEF SellerAccept
<1>5. CASE SellerReject \/ CustomerCancel \/ PaymentTimeoutSweep
  BY <1>5 DEF SellerReject, CustomerCancel, CancelPendingOrder, Cancellable,
     PaymentTimeoutSweep, NeverPaid, WriteCancelled
<1>6. CASE ReleaseReservedStock \/ SaveRelease \/ ReverseOrderFinance
  BY <1>6 DEF ReleaseReservedStock, SaveRelease, ReverseOrderFinance, RefundDue,
     CompensationFrame
<1>7. CASE \E r \in Riders : \/ DeliveryAccept(r) \/ MarkArrivedAtStore(r)
                            \/ ConfirmPickup(r) \/ RequestHandoffOtp(r)
                            \/ \E t \in Taps : VerifyOtp(t, r)
  BY <1>7 DEF DeliveryAccept, Claimable, MarkArrivedAtStore, ConfirmPickup, RiderMoves,
     RequestHandoffOtp, VerifyOtp, VerifyStep
<1>8. CASE \E t \in Taps : \/ ConsumeOtp(t) \/ FinalizeDelivery(t)
                          \/ ApplyDeliveredSettlement(t)
  BY <1>8 DEF ConsumeOtp, FinalizeDelivery, MayFinalize, ApplyDeliveredSettlement, VerifyStep
<1>9. CASE Crash
  BY <1>9 DEF Crash, CrashHandler, CrashCompensation, CrashTimeoutWorker, CrashVerify
<1> QED
  BY <1>1, <1>2, <1>3, <1>4, <1>5, <1>6, <1>7, <1>8, <1>9 DEF Next, Background

(* One step of a plan leaves every request with an edit, or with nothing.  *)
LEMMA PerformSound ==
    ASSUME ApiTypeOK, \A p \in Requests : SoundEdit(p), NEW q \in Requests,
           NEW step \in {"save", "restock", "settle"}, Perform(q, step)
    PROVE  \A p \in Requests : SoundEdit(p)'
<1> TAKE p \in Requests
<1>1. edited[p] \in OrderDocument /\ edited[p].status \in LEGACY_STATUS
  BY DEF ApiTypeOK, OrderDocument
<1>2. CASE seen'[p] = seen[p] /\ edited'[p] = edited[p]
  BY <1>2 DEF SoundEdit
<1>3. CASE seen'[p] = NoDocument /\ edited'[p] = NoDocument
  <2>1. NoDocument.status = "pending" /\ NoDocument.workflowStatus = "CREATED"
    BY DEF NoDocument
  <2> QED BY <1>3, <2>1 DEF SoundEdit
<1>4. CASE seen'[p] = edited[p] /\ edited'[p] = edited[p]
  <2>1. STATUS_RANK_MAP[edited[p].status] \in 1..6
    BY <1>1, RankIsNumber
  <2> QED BY <1>4, <2>1 DEF SoundEdit
<1>5. \/ seen'[p] = seen[p] /\ edited'[p] = edited[p]
      \/ seen'[p] = NoDocument /\ edited'[p] = NoDocument
      \/ seen'[p] = edited[p] /\ edited'[p] = edited[p]
  BY DEF Perform, ApiTypeOK
<1> QED BY <1>2, <1>3, <1>4, <1>5

(* A fresh save moves the order as the edit does. *)
LEMMA FreshSaveMoves ==
    ASSUME FreshIInv, NEW q \in Requests, SaveOrder(q), seen[q] = loaded
    PROVE  /\ StatusAgrees'
           /\ STATUS_RANK_MAP[status'] >= STATUS_RANK_MAP[status]
           /\ workflowStatus \in {"DELIVERED", "CANCELLED"} =>
                 workflowStatus' = workflowStatus
<1>1. /\ status' = edited[q].status
      /\ workflowStatus' = edited[q].workflowStatus
  BY FreshSaveWrites DEF FreshIInv
<1>2. seen[q].status = status /\ seen[q].workflowStatus = workflowStatus
  BY DEF loaded
<1> QED BY <1>1, <1>2 DEF FreshIInv, SoundEdit, StatusAgrees

LEMMA FreshMoves ==
    ASSUME FreshIInv, FreshStep
    PROVE  /\ STATUS_RANK_MAP[status'] >= STATUS_RANK_MAP[status]
           /\ \/ [Next]_vars
              \/ /\ UNCHANGED <<financeFlags, paymentStatus, inFlight, paymentMode,
                                compensation>>
                 /\ workflowStatus \in {"DELIVERED", "CANCELLED"} =>
                       workflowStatus' = workflowStatus
           /\ FreshIInv'
<1>1. ApiTypeOK'
  BY ApiTypeNext DEF FreshIInv, FreshStep
<1>2. TypeOK /\ StatusAgrees /\ CompensatesCancelled /\ CancelledInBoth
  BY DEF FreshIInv, ApiTypeOK, StatusAgrees, CancelledInBoth
<1>3. ASSUME [Next]_vars, UNCHANGED apiVars PROVE FreshIInv'
  <2>1. StatusAgrees' /\ CompensatesCancelled'
    BY <1>2, <1>3, AgreesNext, CompensatesNext
  <2>2. \A q \in Requests : SoundEdit(q)'
    BY <1>3 DEF FreshIInv, SoundEdit, apiVars
  <2> QED BY <1>1, <2>1, <2>2 DEF FreshIInv
<1>4. CASE [Next]_vars /\ UNCHANGED apiVars
  BY <1>2, <1>3, <1>4, AgreesNext
<1>5. ASSUME NEW q \in Requests, NEW role \in {"seller", "admin", "delivery"},
             NEW next \in LEGACY_STATUS \cup {NoStatus},
             NEW d \in Riders \cup {NoRider, Self}, ReadOrder(q, role, next, d)
      PROVE  [Next]_vars /\ FreshIInv'
  <2>1. [Next]_vars BY <1>5 DEF ReadOrder
  <2>2. StatusAgrees' /\ CompensatesCancelled'
    BY <1>2, <2>1, AgreesNext, CompensatesNext
  <2>3. /\ seen' = [seen EXCEPT ![q] = loaded]
        /\ edited' = [edited EXCEPT ![q] = Edit(next, d)]
    BY <1>5 DEF ReadOrder, Edit
  <2>4. /\ Edit(next, d).status \in LegacyOf(Edit(next, d).workflowStatus)
        /\ STATUS_RANK_MAP[Edit(next, d).status] >= STATUS_RANK_MAP[status]
        /\ workflowStatus \in {"DELIVERED", "CANCELLED"} =>
              Edit(next, d).workflowStatus = workflowStatus
    BY <1>2, <1>5, EditMoves DEF ReadOrder
  <2>5. loaded.status = status /\ loaded.workflowStatus = workflowStatus
    BY DEF loaded
  <2>6. ASSUME NEW p \in Requests PROVE SoundEdit(p)'
    <3>1. CASE p # q
      <4>1. seen'[p] = seen[p] /\ edited'[p] = edited[p]
        BY <2>3, <3>1 DEF FreshIInv, ApiTypeOK
      <4> QED BY <4>1 DEF FreshIInv, SoundEdit
    <3>2. CASE p = q
      <4>1. seen'[q] = loaded /\ edited'[q] = Edit(next, d)
        BY <2>3 DEF FreshIInv, ApiTypeOK
      <4> QED BY <3>2, <4>1, <2>4, <2>5 DEF SoundEdit
    <3> QED BY <3>1, <3>2
  <2> QED BY <1>1, <2>1, <2>2, <2>6 DEF FreshIInv
<1>6. ASSUME NEW q \in Requests, SaveOrder(q), seen[q] = loaded
      PROVE  /\ STATUS_RANK_MAP[status'] >= STATUS_RANK_MAP[status]
             /\ UNCHANGED <<financeFlags, paymentStatus, inFlight, paymentMode, compensation>>
             /\ workflowStatus \in {"DELIVERED", "CANCELLED"} =>
                   workflowStatus' = workflowStatus
             /\ FreshIInv'
  <2>1. UNCHANGED <<financeFlags, paymentStatus, inFlight, paymentMode, compensation>>
    BY <1>6 DEF SaveOrder
  <2>2. \A p \in Requests : SoundEdit(p)'
    BY <1>6, PerformSound DEF SaveOrder, FreshIInv
  <2>3. CompensatesCancelled'
    BY <1>2, <1>6, <2>1, FreshSaveMoves DEF CompensatesCancelled
  <2> QED BY <1>1, <1>6, <2>1, <2>2, <2>3, FreshSaveMoves DEF FreshIInv
<1>7. ASSUME NEW q \in Requests, RestockOrder(q) \/ SettleOrder(q)
      PROVE  /\ UNCHANGED <<status, workflowStatus, financeFlags, paymentStatus, inFlight,
                            paymentMode, compensation>>
             /\ FreshIInv'
  <2>1. UNCHANGED <<status, workflowStatus, financeFlags, paymentStatus, inFlight,
                    paymentMode, compensation>>
    BY <1>7 DEF RestockOrder, SettleOrder, orderVars
  <2>2. \A p \in Requests : SoundEdit(p)'
    BY <1>7, PerformSound DEF RestockOrder, SettleOrder, FreshIInv
  <2> QED BY <1>1, <1>2, <2>1, <2>2 DEF FreshIInv, StatusAgrees, CompensatesCancelled
<1>8. STATUS_RANK_MAP[status] \in 1..6
  BY <1>2, RankIsNumber DEF TypeOK
<1>9. CASE UNCHANGED allVars
  <2>1. [Next]_vars /\ UNCHANGED apiVars
    BY <1>9 DEF allVars
  <2> QED BY <1>4, <2>1
<1>10. CASE \E q \in Requests : UpdateOrderStatus(q)
  <2>1. PICK q \in Requests : UpdateOrderStatus(q) BY <1>10
  <2>2. CASE \E role \in {"seller", "admin", "delivery"},
               next \in LEGACY_STATUS \cup {NoStatus},
               d \in Riders \cup {NoRider, Self} : ReadOrder(q, role, next, d)
    BY <1>2, <1>5, <2>2, AgreesNext
  <2>3. CASE SaveOrder(q)
    <3>1. CASE UNCHANGED allVars BY <1>9, <3>1
    <3>2. CASE seen[q] = loaded BY <1>6, <2>3, <3>2
    <3> QED BY <2>3, <3>1, <3>2 DEF FreshStep
  <2>4. CASE RestockOrder(q) \/ SettleOrder(q)
    BY <1>7, <1>8, <2>4
  <2> QED BY <2>1, <2>2, <2>3, <2>4 DEF UpdateOrderStatus
<1> QED BY <1>4, <1>9, <1>10 DEF FreshStep, ApiNext

LEMMA FreshInductive == ApiSpec /\ SavesWhatItRead => []FreshIInv
<1>1. ApiInit => FreshIInv
  <2> SUFFICES ASSUME ApiInit PROVE FreshIInv
    OBVIOUS
  <2>1. ApiTypeOK BY ApiTypeInit
  <2>2. StatusAgrees /\ CompensatesCancelled
    BY DEF ApiInit, Init, PlacedStatus, StatusAgrees, CompensatesCancelled
  <2>3. \A q \in Requests : SoundEdit(q)
    BY DEF ApiInit, SoundEdit, NoDocument
  <2> QED BY <2>1, <2>2, <2>3 DEF FreshIInv
<1>2. FreshIInv /\ FreshStep => FreshIInv' BY FreshMoves
<1> QED BY <1>1, <1>2, PTL DEF ApiSpec, SavesWhatItRead, FreshStep

(* Why a status can go back at all (run status_api_overlap): only because  *)
(* a save does not test what the request has read.                         *)
THEOREM OnlyStaleSavesGoBack == ApiSpec /\ SavesWhatItRead => StatusNeverBackwards
<1>1. FreshIInv /\ FreshStep
        => [STATUS_RANK_MAP[status'] >= STATUS_RANK_MAP[status]]_allVars
  BY FreshMoves
<1> QED
  BY <1>1, FreshInductive, PTL DEF ApiSpec, SavesWhatItRead, FreshStep, StatusNeverBackwards

(* And why a cancelled or delivered order is revived, however requests,    *)
(* the workflow and crashes interleave: only by such a save, or after a    *)
(* poll that overlaps the capture.                                         *)
THEOREM OnlyStaleSavesRevive == ~Polling => (ApiSpec /\ SavesWhatItRead => NeverRevived)
<1> SUFFICES ASSUME ~Polling PROVE ApiSpec /\ SavesWhatItRead => NeverRevived
  OBVIOUS
<1>1. ApiInit => PaidInv BY DEF ApiInit, Init, PaidInv, captured
<1>2. FreshIInv => TypeOK /\ StatusAgrees /\ CompensatesCancelled /\ CancelledInBoth
  BY DEF FreshIInv, ApiTypeOK, StatusAgrees, CancelledInBoth
<1>3. FreshIInv /\ PaidInv /\ FreshStep => PaidInv'
  <2> SUFFICES ASSUME FreshIInv, PaidInv, FreshStep PROVE PaidInv'
    OBVIOUS
  <2>1. CASE [Next]_vars BY <1>2, <2>1, PaidInvNext
  <2>2. CASE /\ UNCHANGED <<financeFlags, paymentStatus, inFlight>>
             /\ workflowStatus = "CANCELLED" => workflowStatus' = "CANCELLED"
    BY <2>2 DEF PaidInv, captured
  <2> QED BY <2>1, <2>2, FreshMoves
<1>4. FreshIInv /\ PaidInv /\ FreshStep
        => [Closed => workflowStatus' = workflowStatus]_allVars
  <2> SUFFICES ASSUME FreshIInv, PaidInv, FreshStep, Closed
               PROVE  workflowStatus' = workflowStatus
    OBVIOUS
  <2>1. CASE [Next]_vars BY <1>2, <2>1, ClosedNext
  <2>2. workflowStatus \in {"DELIVERED", "CANCELLED"} BY DEF Closed
  <2> QED BY <2>1, <2>2, FreshMoves
<1>5. ApiSpec /\ SavesWhatItRead => []PaidInv
  BY <1>1, <1>3, FreshInductive, PTL DEF ApiSpec, SavesWhatItRead, FreshStep
<1> QED
  BY <1>4, <1>5, FreshInductive, PTL DEF ApiSpec, SavesWhatItRead, FreshStep, NeverRevived
=============================================================================
