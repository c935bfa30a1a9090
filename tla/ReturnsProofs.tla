---------------------------- MODULE ReturnsProofs ----------------------------
(***************************************************************************)
(* Proofs about Returns and SellerPayout, for any number of requests and   *)
(* workers.                                                                *)
(*                                                                         *)
(* The payout needs no help (PayoutPaidOnce).  The charge rests on the     *)
(* unique reference of the refund's Transaction (ChargeInv), the photos on *)
(* the versions of lists (PhotosInv), and what holds from the screens on   *)
(* one request at a time (ScreenInv).                                      *)
(***************************************************************************)
EXTENDS Returns, TLAPS

Active(q) == request[q] # NoRequest

(* Only the request that noted the refund goes on to charge the seller.    *)
ChargeInv ==
    /\ charged <= 1
    /\ charged # 0 => "REF-WALLET" \in notes
    /\ \A q \in Requests :
          Doing(q, "qcPass", "noted") =>
              /\ "REF-WALLET" \in notes
              /\ charged = 0
              /\ \A r \in Requests : Doing(r, "qcPass", "noted") => r = q

(* Where there are photos, a request for the return still under way is     *)
(* stale.                                                                  *)
PhotosInv ==
    /\ returnStatus = "none" =>
          /\ photos = {}
          /\ \A q \in Requests : request[q].op
                \notin {"selfCollect", "receipt", "proof"}
    /\ photos # {} =>
          \A q \in Requests : request[q].op = "request" => request[q].stale
    /\ \A q \in Requests : request[q].op = "request" => request[q].read = "none"
    /\ \A q \in Requests :
          request[q].op = "qcPass" => photos = {"customer", "pickup"}
    /\ RefundIsDocumented

Done == Closed \cup {"qc_passed"}

(* From the screens one request runs at a time, and none once the goods    *)
(* are checked.                                                            *)
ScreenInv ==
    client = "apps" =>
        /\ \A q, r \in Requests : Active(q) /\ Active(r) => q = r
        /\ \A q \in Requests :
              Active(q) /\ request[q].stage = "loaded" => returnStatus \notin Done
        /\ \A q \in Requests :
              /\ request[q].op \in {"qcPass", "qcFail"}
                    => request[q].read = "returned"
              /\ request[q].op = "qcPass" /\ request[q].stage # "loaded"
                    => returnStatus = "qc_passed"
              /\ Doing(q, "qcPass", "checked") => refunds = 0
        /\ refunds # 0 =>
              /\ refunds = 1
              /\ returnStatus \in {"qc_passed", "refund_completed"}

ReturnsIInv ==
    /\ ReturnsTypeOK
    /\ PayoutPaidOnce
    /\ ChargeInv
    /\ PhotosInv
    /\ ScreenInv

----------------------------------------------------------------------------
(* What a request becomes is a request again. *)

LEMMA ContinueTypes ==
    ASSUME request \in [Requests -> ActiveRequest \cup {NoRequest}],
           NEW q \in Requests, Active(q), NEW stage \in STAGE,
           Continue(q, stage)
    PROVE  request' \in [Requests -> ActiveRequest \cup {NoRequest}]
<1>1. [request[q] EXCEPT !.stage = stage] \in ActiveRequest
  BY DEF ActiveRequest, Active
<1> QED BY <1>1 DEF Continue

LEMMA FinishListTypes ==
    ASSUME request \in [Requests -> ActiveRequest \cup {NoRequest}],
           NEW q \in Requests, FinishList(q)
    PROVE  request' \in [Requests -> ActiveRequest \cup {NoRequest}]
<1>1. \A r \in Requests : ReplacesList(request[r].op) => request[r] \in ActiveRequest
  BY DEF ReplacesList, NoRequest
<1>2. \A state \in ActiveRequest : [state EXCEPT !.stale = TRUE] \in ActiveRequest
  BY DEF ActiveRequest
<1> QED BY <1>1, <1>2 DEF FinishList

LEMMA FinishTypes ==
    ASSUME request \in [Requests -> ActiveRequest \cup {NoRequest}],
           NEW q \in Requests, Finish(q)
    PROVE  request' \in [Requests -> ActiveRequest \cup {NoRequest}]
  BY DEF Finish

LEMMA DoingIsActive ==
    ASSUME NEW q \in Requests, NEW op \in OPERATION, NEW stage,
           Doing(q, op, stage)
    PROVE  Active(q)
  BY DEF Doing, Active, NoRequest, OPERATION

(* A step keeps what requests are. *)
LEMMA RequestTypes ==
    ASSUME ReturnsIInv, [ReturnsNext]_returnVars
    PROVE  request' \in [Requests -> ActiveRequest \cup {NoRequest}]
<1> USE DEF ReturnsIInv, ReturnsTypeOK, SellerPayoutTypeOK, payoutVars
<1>1. ASSUME NEW q \in Requests, NEW op \in OPERATION, Load(q, op)
      PROVE  request' \in [Requests -> ActiveRequest \cup {NoRequest}]
  <2>1. [op |-> op, stage |-> "loaded",
         read |-> IF op \in {"proof", "requestDrop"} THEN "none"
                                                 ELSE returnStatus,
         held |-> op = "qcPass" /\ Held, stale |-> FALSE] \in ActiveRequest
    BY DEF ActiveRequest, STAGE, RETURN_STATUS
  <2> QED BY <1>1, <2>1 DEF Load
<1>2. ASSUME NEW q \in Requests, Die(q)
      PROVE  request' \in [Requests -> ActiveRequest \cup {NoRequest}]
  BY <1>2, FinishTypes DEF Die
<1>3. ASSUME NEW q \in Requests, RequestReturn(q)
      PROVE  request' \in [Requests -> ActiveRequest \cup {NoRequest}]
  BY <1>3, FinishListTypes DEF RequestReturn
<1>4. ASSUME NEW q \in Requests, ApproveReturnRequest(q)
      PROVE  request' \in [Requests -> ActiveRequest \cup {NoRequest}]
  <2>1. Active(q)
    BY <1>4, DoingIsActive DEF ApproveReturnRequest, OPERATION
  <2> QED BY <1>4, <2>1, FinishTypes, ContinueTypes DEF ApproveReturnRequest,
       STAGE
<1>5. ASSUME NEW q \in Requests, CreateReturnOrder(q)
      PROVE  request' \in [Requests -> ActiveRequest \cup {NoRequest}]
  <2>1. Active(q)
    BY <1>5, DoingIsActive DEF CreateReturnOrder, OPERATION
  <2> QED BY <1>5, <2>1, FinishTypes, ContinueTypes DEF CreateReturnOrder,
       STAGE
<1>6. ASSUME NEW q \in Requests, AssignAWB(q)
      PROVE  request' \in [Requests -> ActiveRequest \cup {NoRequest}]
  BY <1>6, FinishTypes DEF AssignAWB
<1>7. ASSUME NEW q \in Requests, RejectReturnRequest(q)
      PROVE  request' \in [Requests -> ActiveRequest \cup {NoRequest}]
  BY <1>7, FinishTypes DEF RejectReturnRequest
<1>8. ASSUME NEW q \in Requests, AssignReturnDelivery(q)
      PROVE  request' \in [Requests -> ActiveRequest \cup {NoRequest}]
  BY <1>8, FinishTypes DEF AssignReturnDelivery
<1>9. ASSUME NEW q \in Requests, ReceiveGoods(q)
      PROVE  request' \in [Requests -> ActiveRequest \cup {NoRequest}]
  BY <1>9, FinishListTypes DEF ReceiveGoods
<1>10. ASSUME NEW q \in Requests, AcceptReturnPickup(q)
       PROVE  request' \in [Requests -> ActiveRequest \cup {NoRequest}]
  BY <1>10, FinishTypes DEF AcceptReturnPickup
<1>11. ASSUME NEW q \in Requests, RejectReturnPickup(q)
       PROVE  request' \in [Requests -> ActiveRequest \cup {NoRequest}]
  BY <1>11, FinishTypes DEF RejectReturnPickup
<1>12. ASSUME NEW q \in Requests, UploadReturnPickupProof(q)
       PROVE  request' \in [Requests -> ActiveRequest \cup {NoRequest}]
  BY <1>12, FinishListTypes DEF UploadReturnPickupProof
<1>13. ASSUME NEW q \in Requests, VerifyReturnPickupOtp(q)
       PROVE  request' \in [Requests -> ActiveRequest \cup {NoRequest}]
  BY <1>13, FinishTypes DEF VerifyReturnPickupOtp
<1>14. ASSUME NEW q \in Requests, RequestReturnDropOtp(q)
       PROVE  request' \in [Requests -> ActiveRequest \cup {NoRequest}]
  BY <1>14, FinishTypes DEF RequestReturnDropOtp
<1>15. ASSUME NEW q \in Requests, VerifyReturnDropOtp(q)
       PROVE  request' \in [Requests -> ActiveRequest \cup {NoRequest}]
  BY <1>15, FinishTypes DEF VerifyReturnDropOtp
<1>16. ASSUME NEW q \in Requests, UpdateReturnStatus(q)
       PROVE  request' \in [Requests -> ActiveRequest \cup {NoRequest}]
  BY <1>16, FinishTypes DEF UpdateReturnStatus
<1>17. ASSUME NEW q \in Requests, HandleReturnShipmentWebhook(q)
       PROVE  request' \in [Requests -> ActiveRequest \cup {NoRequest}]
  BY <1>17, FinishTypes DEF HandleReturnShipmentWebhook
<1>18. ASSUME NEW q \in Requests, SaveQc(q)
       PROVE  request' \in [Requests -> ActiveRequest \cup {NoRequest}]
  <2>1. Active(q)
    BY <1>18, DoingIsActive DEF SaveQc, OPERATION
  <2> QED BY <1>18, <2>1, FinishTypes, ContinueTypes DEF SaveQc, STAGE
<1>19. ASSUME NEW q \in Requests, CreditCustomer(q)
       PROVE  request' \in [Requests -> ActiveRequest \cup {NoRequest}]
  <2>1. Active(q)
    BY <1>19, DoingIsActive DEF CreditCustomer, OPERATION
  <2> QED BY <1>19, <2>1, FinishTypes, ContinueTypes DEF CreditCustomer, STAGE
<1>20. ASSUME NEW q \in Requests, NoteRefund(q)
       PROVE  request' \in [Requests -> ActiveRequest \cup {NoRequest}]
  <2>1. Active(q)
    BY <1>20, DoingIsActive DEF NoteRefund, OPERATION
  <2> QED BY <1>20, <2>1, FinishTypes, ContinueTypes DEF NoteRefund, STAGE
<1>21. ASSUME NEW q \in Requests, CancelPayout(q)
       PROVE  request' \in [Requests -> ActiveRequest \cup {NoRequest}]
  <2>1. Active(q)
    BY <1>21, DoingIsActive DEF CancelPayout, OPERATION
  <2> QED BY <1>21, <2>1, FinishTypes, ContinueTypes DEF CancelPayout, STAGE
<1>22. ASSUME NEW q \in Requests, RecordCancellation(q)
       PROVE  request' \in [Requests -> ActiveRequest \cup {NoRequest}]
  <2>1. Active(q)
    BY <1>22, DoingIsActive DEF RecordCancellation, OPERATION
  <2> QED BY <1>22, <2>1, FinishTypes, ContinueTypes DEF RecordCancellation,
       STAGE
<1>23. ASSUME NEW q \in Requests, DebitSeller(q)
       PROVE  request' \in [Requests -> ActiveRequest \cup {NoRequest}]
  <2>1. Active(q)
    BY <1>23, DoingIsActive DEF DebitSeller, OPERATION
  <2> QED BY <1>23, <2>1, FinishTypes, ContinueTypes DEF DebitSeller, STAGE
<1>24. ASSUME NEW q \in Requests, NoteAdjustment(q)
       PROVE  request' \in [Requests -> ActiveRequest \cup {NoRequest}]
  <2>1. Active(q)
    BY <1>24, DoingIsActive DEF NoteAdjustment, OPERATION
  <2> QED BY <1>24, <2>1, ContinueTypes DEF NoteAdjustment, STAGE
<1>24a. ASSUME NEW q \in Requests, CompleteRefund(q)
       PROVE  request' \in [Requests -> ActiveRequest \cup {NoRequest}]
  BY <1>24a, FinishTypes DEF CompleteRefund
<1>25. ASSUME NEW q \in Requests, LookForHeldPayout(q)
       PROVE  request' \in [Requests -> ActiveRequest \cup {NoRequest}]
  <2>1. Active(q)
    BY <1>25, DoingIsActive DEF LookForHeldPayout, OPERATION
  <2> QED BY <1>25, <2>1, FinishTypes, ContinueTypes DEF LookForHeldPayout,
       STAGE
<1>26. ASSUME NEW q \in Requests, ReleaseAfterFailure(q)
       PROVE  request' \in [Requests -> ActiveRequest \cup {NoRequest}]
  BY <1>26, FinishTypes DEF ReleaseAfterFailure
<1>27. CASE RequestReturnPickupOtp
  BY <1>27 DEF RequestReturnPickupOtp, MoneyFrame
<1>28. CASE /\ SellerPayoutStep
            /\ UNCHANGED <<client, deliveryType, returnStatus, photos,
                           returnDeliveryBoy, otps, shipment, refunds, notes,
                           charged, request>>
  BY <1>28
<1>29. CASE UNCHANGED returnVars
  BY <1>29 DEF returnVars
<1> QED
  BY <1>1, <1>2, <1>3, <1>4, <1>5, <1>6, <1>7, <1>8, <1>9, <1>10, <1>11,
     <1>12, <1>13, <1>14,
     <1>15, <1>16, <1>17, <1>18, <1>19, <1>20, <1>21, <1>22, <1>23, <1>24,
     <1>24a, <1>25, <1>26, <1>27, <1>28, <1>29
     DEF ReturnsNext, CustomerAndSellerStep, RiderAndCourierStep, QcStep

(* What the order, the seller and the customer have. *)
FieldTypes ==
    /\ client \in {"apps", "any"}
    /\ deliveryType \in {"instant", "scheduled"}
    /\ returnStatus \in RETURN_STATUS
    /\ photos \in SUBSET {"customer", "pickup"}
    /\ returnDeliveryBoy \in {"none", "rider"}
    /\ otps \in SUBSET {"return_pickup", "return_drop"}
    /\ shipment \in {"none", "unassigned", "booked"}
    /\ refunds \in Nat
    /\ notes \in SUBSET {"REF-WALLET", "REF-SELL"}
    /\ charged \in Nat

(* A step keeps the types of the order's fields. *)
LEMMA FieldsKeepTypes ==
    ASSUME ReturnsIInv, [ReturnsNext]_returnVars
    PROVE  FieldTypes'
<1> USE DEF ReturnsIInv, ReturnsTypeOK, SellerPayoutTypeOK, payoutVars,
            FieldTypes, RETURN_STATUS, SaveStatus
<1>1. ASSUME NEW q \in Requests, NEW op \in OPERATION, Load(q, op)
      PROVE  FieldTypes'
  BY <1>1 DEF Load
<1>2. ASSUME NEW q \in Requests, Die(q) PROVE FieldTypes'
  BY <1>2 DEF Die, MoneyFrame
<1>3. ASSUME NEW q \in Requests, RequestReturn(q) PROVE FieldTypes'
  BY <1>3 DEF RequestReturn
<1>4. ASSUME NEW q \in Requests, ApproveReturnRequest(q) PROVE FieldTypes'
  BY <1>4 DEF ApproveReturnRequest, MoneyFrame
<1>5. ASSUME NEW q \in Requests, CreateReturnOrder(q) PROVE FieldTypes'
  BY <1>5 DEF CreateReturnOrder, MoneyFrame
<1>6. ASSUME NEW q \in Requests, AssignAWB(q) PROVE FieldTypes'
  BY <1>6 DEF AssignAWB, MoneyFrame
<1>7. ASSUME NEW q \in Requests, RejectReturnRequest(q) PROVE FieldTypes'
  BY <1>7 DEF RejectReturnRequest, MoneyFrame
<1>8. ASSUME NEW q \in Requests, AssignReturnDelivery(q) PROVE FieldTypes'
  BY <1>8 DEF AssignReturnDelivery, MoneyFrame
<1>9. ASSUME NEW q \in Requests, ReceiveGoods(q) PROVE FieldTypes'
  BY <1>9 DEF ReceiveGoods, MoneyFrame
<1>10. ASSUME NEW q \in Requests, AcceptReturnPickup(q) PROVE FieldTypes'
  BY <1>10 DEF AcceptReturnPickup, MoneyFrame
<1>11. ASSUME NEW q \in Requests, RejectReturnPickup(q) PROVE FieldTypes'
  BY <1>11 DEF RejectReturnPickup, MoneyFrame
<1>12. ASSUME NEW q \in Requests, UploadReturnPickupProof(q) PROVE FieldTypes'
  BY <1>12 DEF UploadReturnPickupProof, MoneyFrame
<1>13. ASSUME NEW q \in Requests, VerifyReturnPickupOtp(q) PROVE FieldTypes'
  BY <1>13 DEF VerifyReturnPickupOtp, MoneyFrame
<1>14. ASSUME NEW q \in Requests, RequestReturnDropOtp(q) PROVE FieldTypes'
  BY <1>14 DEF RequestReturnDropOtp, MoneyFrame
<1>15. ASSUME NEW q \in Requests, VerifyReturnDropOtp(q) PROVE FieldTypes'
  BY <1>15 DEF VerifyReturnDropOtp, MoneyFrame
<1>16. ASSUME NEW q \in Requests, UpdateReturnStatus(q) PROVE FieldTypes'
  BY <1>16 DEF UpdateReturnStatus, MoneyFrame
<1>17. ASSUME NEW q \in Requests, HandleReturnShipmentWebhook(q)
       PROVE  FieldTypes'
  BY <1>17 DEF HandleReturnShipmentWebhook, MoneyFrame
<1>18. ASSUME NEW q \in Requests, SaveQc(q) PROVE FieldTypes'
  BY <1>18 DEF SaveQc, QcFrame, qcStatus
<1>19. ASSUME NEW q \in Requests, CreditCustomer(q) PROVE FieldTypes'
  BY <1>19 DEF CreditCustomer, QcFrame
<1>20. ASSUME NEW q \in Requests, NoteRefund(q) PROVE FieldTypes'
  BY <1>20 DEF NoteRefund, QcFrame, Noted
<1>21. ASSUME NEW q \in Requests, CancelPayout(q) PROVE FieldTypes'
  BY <1>21 DEF CancelPayout, QcFrame
<1>22. ASSUME NEW q \in Requests, RecordCancellation(q) PROVE FieldTypes'
  BY <1>22 DEF RecordCancellation, QcFrame
<1>23. ASSUME NEW q \in Requests, DebitSeller(q) PROVE FieldTypes'
  BY <1>23 DEF DebitSeller, QcFrame
<1>24. ASSUME NEW q \in Requests, NoteAdjustment(q) PROVE FieldTypes'
  BY <1>24 DEF NoteAdjustment, QcFrame, Noted
<1>24a. ASSUME NEW q \in Requests, CompleteRefund(q) PROVE FieldTypes'
  BY <1>24a DEF CompleteRefund, QcFrame
<1>25. ASSUME NEW q \in Requests, LookForHeldPayout(q) PROVE FieldTypes'
  BY <1>25 DEF LookForHeldPayout, QcFrame
<1>26. ASSUME NEW q \in Requests, ReleaseAfterFailure(q) PROVE FieldTypes'
  BY <1>26 DEF ReleaseAfterFailure, QcFrame
<1>27. CASE RequestReturnPickupOtp
  BY <1>27 DEF RequestReturnPickupOtp, MoneyFrame
<1>28. CASE /\ SellerPayoutStep
            /\ UNCHANGED <<client, deliveryType, returnStatus, photos,
                           returnDeliveryBoy, otps, shipment, refunds, notes,
                           charged, request>>
  BY <1>28
<1>29. CASE UNCHANGED returnVars
  BY <1>29 DEF returnVars
<1> QED
  BY <1>1, <1>2, <1>3, <1>4, <1>5, <1>6, <1>7, <1>8, <1>9, <1>10, <1>11,
     <1>12, <1>13, <1>14,
     <1>15, <1>16, <1>17, <1>18, <1>19, <1>20, <1>21, <1>22, <1>23, <1>24,
     <1>24a, <1>25, <1>26, <1>27, <1>28, <1>29
     DEF ReturnsNext, CustomerAndSellerStep, RiderAndCourierStep, QcStep

(* A step keeps the payout's types. *)
LEMMA PayoutKeepsTypes ==
    ASSUME ReturnsIInv, [ReturnsNext]_returnVars
    PROVE  SellerPayoutTypeOK'
<1> USE DEF ReturnsIInv, ReturnsTypeOK, SellerPayoutTypeOK, payoutVars
<1>1. ASSUME NEW q \in Requests, NEW op \in OPERATION, Load(q, op)
      PROVE  SellerPayoutTypeOK'
  BY <1>1 DEF Load
<1>2. ASSUME NEW q \in Requests, Die(q) PROVE SellerPayoutTypeOK'
  BY <1>2 DEF Die, MoneyFrame
<1>3. ASSUME NEW q \in Requests, RequestReturn(q) PROVE SellerPayoutTypeOK'
  BY <1>3 DEF RequestReturn
<1>4. ASSUME NEW q \in Requests, ApproveReturnRequest(q)
      PROVE  SellerPayoutTypeOK'
  BY <1>4 DEF ApproveReturnRequest, MoneyFrame
<1>5. ASSUME NEW q \in Requests, CreateReturnOrder(q) PROVE SellerPayoutTypeOK'
  BY <1>5 DEF CreateReturnOrder, MoneyFrame
<1>6. ASSUME NEW q \in Requests, AssignAWB(q) PROVE SellerPayoutTypeOK'
  BY <1>6 DEF AssignAWB, MoneyFrame
<1>7. ASSUME NEW q \in Requests, RejectReturnRequest(q)
      PROVE  SellerPayoutTypeOK'
  BY <1>7 DEF RejectReturnRequest, MoneyFrame
<1>8. ASSUME NEW q \in Requests, AssignReturnDelivery(q)
      PROVE  SellerPayoutTypeOK'
  BY <1>8 DEF AssignReturnDelivery, MoneyFrame
<1>9. ASSUME NEW q \in Requests, ReceiveGoods(q) PROVE SellerPayoutTypeOK'
  BY <1>9 DEF ReceiveGoods, MoneyFrame
<1>10. ASSUME NEW q \in Requests, AcceptReturnPickup(q)
       PROVE  SellerPayoutTypeOK'
  BY <1>10 DEF AcceptReturnPickup, MoneyFrame
<1>11. ASSUME NEW q \in Requests, RejectReturnPickup(q)
       PROVE  SellerPayoutTypeOK'
  BY <1>11 DEF RejectReturnPickup, MoneyFrame
<1>12. ASSUME NEW q \in Requests, UploadReturnPickupProof(q)
       PROVE  SellerPayoutTypeOK'
  BY <1>12 DEF UploadReturnPickupProof, MoneyFrame
<1>13. ASSUME NEW q \in Requests, VerifyReturnPickupOtp(q)
       PROVE  SellerPayoutTypeOK'
  BY <1>13 DEF VerifyReturnPickupOtp, MoneyFrame
<1>14. ASSUME NEW q \in Requests, RequestReturnDropOtp(q)
       PROVE  SellerPayoutTypeOK'
  BY <1>14 DEF RequestReturnDropOtp, MoneyFrame
<1>15. ASSUME NEW q \in Requests, VerifyReturnDropOtp(q)
       PROVE  SellerPayoutTypeOK'
  BY <1>15 DEF VerifyReturnDropOtp, MoneyFrame
<1>16. ASSUME NEW q \in Requests, UpdateReturnStatus(q)
       PROVE  SellerPayoutTypeOK'
  BY <1>16 DEF UpdateReturnStatus, MoneyFrame
<1>17. ASSUME NEW q \in Requests, HandleReturnShipmentWebhook(q)
       PROVE  SellerPayoutTypeOK'
  BY <1>17 DEF HandleReturnShipmentWebhook, MoneyFrame
<1>18. ASSUME NEW q \in Requests, SaveQc(q) PROVE SellerPayoutTypeOK'
  BY <1>18 DEF SaveQc, QcFrame
<1>19. ASSUME NEW q \in Requests, CreditCustomer(q) PROVE SellerPayoutTypeOK'
  BY <1>19 DEF CreditCustomer, QcFrame
<1>20. ASSUME NEW q \in Requests, NoteRefund(q) PROVE SellerPayoutTypeOK'
  BY <1>20 DEF NoteRefund, QcFrame
<1>21. ASSUME NEW q \in Requests, CancelPayout(q) PROVE SellerPayoutTypeOK'
  BY <1>21 DEF CancelPayout, CancelPendingPayout
<1>22. ASSUME NEW q \in Requests, RecordCancellation(q)
       PROVE  SellerPayoutTypeOK'
  BY <1>22 DEF RecordCancellation, QcFrame
<1>23. ASSUME NEW q \in Requests, DebitSeller(q) PROVE SellerPayoutTypeOK'
  BY <1>23 DEF DebitSeller, QcFrame
<1>24. ASSUME NEW q \in Requests, NoteAdjustment(q) PROVE SellerPayoutTypeOK'
  BY <1>24 DEF NoteAdjustment, QcFrame
<1>24a. ASSUME NEW q \in Requests, CompleteRefund(q) PROVE SellerPayoutTypeOK'
  BY <1>24a DEF CompleteRefund, QcFrame
<1>25. ASSUME NEW q \in Requests, LookForHeldPayout(q)
       PROVE  SellerPayoutTypeOK'
  BY <1>25 DEF LookForHeldPayout, QcFrame
<1>26. ASSUME NEW q \in Requests, ReleaseAfterFailure(q)
       PROVE  SellerPayoutTypeOK'
  BY <1>26 DEF ReleaseAfterFailure, ProcessPayout, Payable
<1>27. CASE RequestReturnPickupOtp
  BY <1>27 DEF RequestReturnPickupOtp, MoneyFrame
<1>28. CASE /\ SellerPayoutStep
            /\ UNCHANGED <<client, deliveryType, returnStatus, photos,
                           returnDeliveryBoy, otps, shipment, refunds, notes,
                           charged, request>>
  BY <1>28 DEF SellerPayoutStep, ReturnWindowEnds, ListExpired, ReleaseHeld,
     LookForPayout, ListPending, ProcessFound, ProcessPayout, Payable, Queued,
     Held, Go
<1>29. CASE UNCHANGED returnVars
  BY <1>29 DEF returnVars
<1> QED
  BY <1>1, <1>2, <1>3, <1>4, <1>5, <1>6, <1>7, <1>8, <1>9, <1>10, <1>11,
     <1>12, <1>13, <1>14,
     <1>15, <1>16, <1>17, <1>18, <1>19, <1>20, <1>21, <1>22, <1>23, <1>24,
     <1>24a, <1>25, <1>26, <1>27, <1>28, <1>29
     DEF ReturnsNext, CustomerAndSellerStep, RiderAndCourierStep, QcStep

(* Nobody pays a payout twice. *)
LEMMA PayoutStep ==
    ASSUME ReturnsIInv, [ReturnsNext]_returnVars
    PROVE  PayoutPaidOnce'
<1> USE DEF ReturnsIInv, ReturnsTypeOK, SellerPayoutTypeOK, payoutVars,
            PayoutPaidOnce
<1>1. ASSUME NEW q \in Requests, NEW op \in OPERATION, Load(q, op)
      PROVE  PayoutPaidOnce'
  BY <1>1 DEF Load
<1>2. ASSUME NEW q \in Requests, Die(q) PROVE PayoutPaidOnce'
  BY <1>2 DEF Die, MoneyFrame
<1>3. ASSUME NEW q \in Requests, RequestReturn(q) PROVE PayoutPaidOnce'
  BY <1>3 DEF RequestReturn
<1>4. ASSUME NEW q \in Requests, ApproveReturnRequest(q) PROVE PayoutPaidOnce'
  BY <1>4 DEF ApproveReturnRequest, MoneyFrame
<1>5. ASSUME NEW q \in Requests, CreateReturnOrder(q) PROVE PayoutPaidOnce'
  BY <1>5 DEF CreateReturnOrder, MoneyFrame
<1>6. ASSUME NEW q \in Requests, AssignAWB(q) PROVE PayoutPaidOnce'
  BY <1>6 DEF AssignAWB, MoneyFrame
<1>7. ASSUME NEW q \in Requests, RejectReturnRequest(q) PROVE PayoutPaidOnce'
  BY <1>7 DEF RejectReturnRequest, MoneyFrame
<1>8. ASSUME NEW q \in Requests, AssignReturnDelivery(q) PROVE PayoutPaidOnce'
  BY <1>8 DEF AssignReturnDelivery, MoneyFrame
<1>9. ASSUME NEW q \in Requests, ReceiveGoods(q) PROVE PayoutPaidOnce'
  BY <1>9 DEF ReceiveGoods, MoneyFrame
<1>10. ASSUME NEW q \in Requests, AcceptReturnPickup(q) PROVE PayoutPaidOnce'
  BY <1>10 DEF AcceptReturnPickup, MoneyFrame
<1>11. ASSUME NEW q \in Requests, RejectReturnPickup(q) PROVE PayoutPaidOnce'
  BY <1>11 DEF RejectReturnPickup, MoneyFrame
<1>12. ASSUME NEW q \in Requests, UploadReturnPickupProof(q)
       PROVE  PayoutPaidOnce'
  BY <1>12 DEF UploadReturnPickupProof, MoneyFrame
<1>13. ASSUME NEW q \in Requests, VerifyReturnPickupOtp(q)
       PROVE  PayoutPaidOnce'
  BY <1>13 DEF VerifyReturnPickupOtp, MoneyFrame
<1>14. ASSUME NEW q \in Requests, RequestReturnDropOtp(q) PROVE PayoutPaidOnce'
  BY <1>14 DEF RequestReturnDropOtp, MoneyFrame
<1>15. ASSUME NEW q \in Requests, VerifyReturnDropOtp(q) PROVE PayoutPaidOnce'
  BY <1>15 DEF VerifyReturnDropOtp, MoneyFrame
<1>16. ASSUME NEW q \in Requests, UpdateReturnStatus(q) PROVE PayoutPaidOnce'
  BY <1>16 DEF UpdateReturnStatus, MoneyFrame
<1>17. ASSUME NEW q \in Requests, HandleReturnShipmentWebhook(q)
       PROVE  PayoutPaidOnce'
  BY <1>17 DEF HandleReturnShipmentWebhook, MoneyFrame
<1>18. ASSUME NEW q \in Requests, SaveQc(q) PROVE PayoutPaidOnce'
  BY <1>18 DEF SaveQc, QcFrame
<1>19. ASSUME NEW q \in Requests, CreditCustomer(q) PROVE PayoutPaidOnce'
  BY <1>19 DEF CreditCustomer, QcFrame
<1>20. ASSUME NEW q \in Requests, NoteRefund(q) PROVE PayoutPaidOnce'
  BY <1>20 DEF NoteRefund, QcFrame
<1>21. ASSUME NEW q \in Requests, CancelPayout(q) PROVE PayoutPaidOnce'
  BY <1>21 DEF CancelPayout, CancelPendingPayout
<1>22. ASSUME NEW q \in Requests, RecordCancellation(q) PROVE PayoutPaidOnce'
  BY <1>22 DEF RecordCancellation, QcFrame
<1>23. ASSUME NEW q \in Requests, DebitSeller(q) PROVE PayoutPaidOnce'
  BY <1>23 DEF DebitSeller, QcFrame
<1>24. ASSUME NEW q \in Requests, NoteAdjustment(q) PROVE PayoutPaidOnce'
  BY <1>24 DEF NoteAdjustment, QcFrame
<1>24a. ASSUME NEW q \in Requests, CompleteRefund(q) PROVE PayoutPaidOnce'
  BY <1>24a DEF CompleteRefund, QcFrame
<1>25. ASSUME NEW q \in Requests, LookForHeldPayout(q) PROVE PayoutPaidOnce'
  BY <1>25 DEF LookForHeldPayout, QcFrame
<1>26. ASSUME NEW q \in Requests, ReleaseAfterFailure(q) PROVE PayoutPaidOnce'
  BY <1>26 DEF ReleaseAfterFailure, ProcessPayout, Payable
<1>27. CASE RequestReturnPickupOtp
  BY <1>27 DEF RequestReturnPickupOtp, MoneyFrame
<1>28. CASE /\ SellerPayoutStep
            /\ UNCHANGED <<client, deliveryType, returnStatus, photos,
                           returnDeliveryBoy, otps, shipment, refunds, notes,
                           charged, request>>
  BY <1>28 DEF SellerPayoutStep, ReturnWindowEnds, ListExpired, ReleaseHeld,
     LookForPayout, ListPending, ProcessFound, ProcessPayout, Payable, Queued,
     Held, Go
<1>29. CASE UNCHANGED returnVars
  BY <1>29 DEF returnVars
<1> QED
  BY <1>1, <1>2, <1>3, <1>4, <1>5, <1>6, <1>7, <1>8, <1>9, <1>10, <1>11,
     <1>12, <1>13, <1>14,
     <1>15, <1>16, <1>17, <1>18, <1>19, <1>20, <1>21, <1>22, <1>23, <1>24,
     <1>24a, <1>25, <1>26, <1>27, <1>28, <1>29
     DEF ReturnsNext, CustomerAndSellerStep, RiderAndCourierStep, QcStep

(* The seller is charged by one request. *)
LEMMA ChargeStep ==
    ASSUME ReturnsIInv, [ReturnsNext]_returnVars
    PROVE  ChargeInv'
<1> USE DEF ReturnsIInv, ReturnsTypeOK, SellerPayoutTypeOK, payoutVars,
            ChargeInv, Doing, Continue, Finish, FinishList, ReplacesList,
            NoRequest, ActiveRequest
<1>1. ASSUME NEW q \in Requests, NEW op \in OPERATION, Load(q, op)
      PROVE  ChargeInv'
  BY <1>1 DEF Load
<1>2. ASSUME NEW q \in Requests, Die(q) PROVE ChargeInv'
  BY <1>2 DEF Die, MoneyFrame
<1>3. ASSUME NEW q \in Requests, RequestReturn(q) PROVE ChargeInv'
  BY <1>3 DEF RequestReturn
<1>4. ASSUME NEW q \in Requests, ApproveReturnRequest(q) PROVE ChargeInv'
  BY <1>4 DEF ApproveReturnRequest, MoneyFrame
<1>5. ASSUME NEW q \in Requests, CreateReturnOrder(q) PROVE ChargeInv'
  BY <1>5 DEF CreateReturnOrder, MoneyFrame
<1>6. ASSUME NEW q \in Requests, AssignAWB(q) PROVE ChargeInv'
  BY <1>6 DEF AssignAWB, MoneyFrame
<1>7. ASSUME NEW q \in Requests, RejectReturnRequest(q) PROVE ChargeInv'
  BY <1>7 DEF RejectReturnRequest, MoneyFrame
<1>8. ASSUME NEW q \in Requests, AssignReturnDelivery(q) PROVE ChargeInv'
  BY <1>8 DEF AssignReturnDelivery, MoneyFrame
<1>9. ASSUME NEW q \in Requests, ReceiveGoods(q) PROVE ChargeInv'
  BY <1>9 DEF ReceiveGoods, MoneyFrame
<1>10. ASSUME NEW q \in Requests, AcceptReturnPickup(q) PROVE ChargeInv'
  BY <1>10 DEF AcceptReturnPickup, MoneyFrame
<1>11. ASSUME NEW q \in Requests, RejectReturnPickup(q) PROVE ChargeInv'
  BY <1>11 DEF RejectReturnPickup, MoneyFrame
<1>12. ASSUME NEW q \in Requests, UploadReturnPickupProof(q) PROVE ChargeInv'
  BY <1>12 DEF UploadReturnPickupProof, MoneyFrame
<1>13. ASSUME NEW q \in Requests, VerifyReturnPickupOtp(q) PROVE ChargeInv'
  BY <1>13 DEF VerifyReturnPickupOtp, MoneyFrame
<1>14. ASSUME NEW q \in Requests, RequestReturnDropOtp(q) PROVE ChargeInv'
  BY <1>14 DEF RequestReturnDropOtp, MoneyFrame
<1>15. ASSUME NEW q \in Requests, VerifyReturnDropOtp(q) PROVE ChargeInv'
  BY <1>15 DEF VerifyReturnDropOtp, MoneyFrame
<1>16. ASSUME NEW q \in Requests, UpdateReturnStatus(q) PROVE ChargeInv'
  BY <1>16 DEF UpdateReturnStatus, MoneyFrame
<1>17. ASSUME NEW q \in Requests, HandleReturnShipmentWebhook(q)
       PROVE  ChargeInv'
  BY <1>17 DEF HandleReturnShipmentWebhook, MoneyFrame
<1>18. ASSUME NEW q \in Requests, SaveQc(q) PROVE ChargeInv'
  BY <1>18 DEF SaveQc, QcFrame
<1>19. ASSUME NEW q \in Requests, CreditCustomer(q) PROVE ChargeInv'
  BY <1>19 DEF CreditCustomer, QcFrame
<1>20. ASSUME NEW q \in Requests, NoteRefund(q) PROVE ChargeInv'
  BY <1>20 DEF NoteRefund, QcFrame, Noted
<1>21. ASSUME NEW q \in Requests, CancelPayout(q) PROVE ChargeInv'
  BY <1>21 DEF CancelPayout, QcFrame
<1>22. ASSUME NEW q \in Requests, RecordCancellation(q) PROVE ChargeInv'
  BY <1>22 DEF RecordCancellation, QcFrame
<1>23. ASSUME NEW q \in Requests, DebitSeller(q) PROVE ChargeInv'
  BY <1>23 DEF DebitSeller, QcFrame
<1>24. ASSUME NEW q \in Requests, NoteAdjustment(q) PROVE ChargeInv'
  BY <1>24 DEF NoteAdjustment, QcFrame, Noted
<1>24a. ASSUME NEW q \in Requests, CompleteRefund(q) PROVE ChargeInv'
  BY <1>24a DEF CompleteRefund, QcFrame
<1>25. ASSUME NEW q \in Requests, LookForHeldPayout(q) PROVE ChargeInv'
  BY <1>25 DEF LookForHeldPayout, QcFrame
<1>26. ASSUME NEW q \in Requests, ReleaseAfterFailure(q) PROVE ChargeInv'
  BY <1>26 DEF ReleaseAfterFailure, QcFrame
<1>27. CASE RequestReturnPickupOtp
  BY <1>27 DEF RequestReturnPickupOtp, MoneyFrame
<1>28. CASE /\ SellerPayoutStep
            /\ UNCHANGED <<client, deliveryType, returnStatus, photos,
                           returnDeliveryBoy, otps, shipment, refunds, notes,
                           charged, request>>
  BY <1>28
<1>29. CASE UNCHANGED returnVars
  BY <1>29 DEF returnVars
<1> QED
  BY <1>1, <1>2, <1>3, <1>4, <1>5, <1>6, <1>7, <1>8, <1>9, <1>10, <1>11,
     <1>12, <1>13, <1>14,
     <1>15, <1>16, <1>17, <1>18, <1>19, <1>20, <1>21, <1>22, <1>23, <1>24,
     <1>24a, <1>25, <1>26, <1>27, <1>28, <1>29
     DEF ReturnsNext, CustomerAndSellerStep, RiderAndCourierStep, QcStep

(* Photos are not taken away once they count. *)
LEMMA PhotosStep ==
    ASSUME ReturnsIInv, [ReturnsNext]_returnVars
    PROVE  PhotosInv'
<1> USE DEF ReturnsIInv, ReturnsTypeOK, SellerPayoutTypeOK, payoutVars,
            PhotosInv, RefundIsDocumented, SaveStatus, Doing, Continue,
            Finish, FinishList, ReplacesList, NoRequest, ActiveRequest
<1>1. ASSUME NEW q \in Requests, NEW op \in OPERATION, Load(q, op)
      PROVE  PhotosInv'
  BY <1>1 DEF Load, Checks, is, ReceiptDue, QcDue, QcDocumented, OPERATION
<1>2. ASSUME NEW q \in Requests, Die(q) PROVE PhotosInv'
  BY <1>2 DEF Die, MoneyFrame
<1>3. ASSUME NEW q \in Requests, RequestReturn(q) PROVE PhotosInv'
  <2>1. request[q].op = "request" /\ ~request[q].stale
    BY <1>3 DEF RequestReturn, Orphaned
  <2>2. photos = {}
    BY <2>1
  <2>3. /\ refunds = 0
        /\ \A r \in Requests : request[r].op # "qcPass"
    BY <2>2
  <2>4. returnStatus' # "none"
    BY <1>3 DEF RequestReturn
  <2>5. ASSUME NEW r \in Requests
        PROVE  /\ request'[r].op # "qcPass"
               /\ request'[r].op = "request" =>
                     request'[r].stale /\ request'[r].read = "none"
    <3>1. CASE r = q
      BY <1>3, <3>1 DEF RequestReturn
    <3>2. CASE r # q
      BY <1>3, <2>3, <3>2 DEF RequestReturn
    <3> QED BY <3>1, <3>2
  <2>6. refunds' = refunds
    BY <1>3 DEF RequestReturn
  <2> QED BY <2>3, <2>4, <2>5, <2>6
<1>4. ASSUME NEW q \in Requests, ApproveReturnRequest(q) PROVE PhotosInv'
  BY <1>4 DEF ApproveReturnRequest, MoneyFrame
<1>5. ASSUME NEW q \in Requests, CreateReturnOrder(q) PROVE PhotosInv'
  BY <1>5 DEF CreateReturnOrder, MoneyFrame
<1>6. ASSUME NEW q \in Requests, AssignAWB(q) PROVE PhotosInv'
  BY <1>6 DEF AssignAWB, MoneyFrame
<1>7. ASSUME NEW q \in Requests, RejectReturnRequest(q) PROVE PhotosInv'
  BY <1>7 DEF RejectReturnRequest, MoneyFrame
<1>8. ASSUME NEW q \in Requests, AssignReturnDelivery(q) PROVE PhotosInv'
  BY <1>8 DEF AssignReturnDelivery, MoneyFrame
<1>9. ASSUME NEW q \in Requests, ReceiveGoods(q) PROVE PhotosInv'
  BY <1>9 DEF ReceiveGoods, MoneyFrame, Orphaned
<1>10. ASSUME NEW q \in Requests, AcceptReturnPickup(q) PROVE PhotosInv'
  BY <1>10 DEF AcceptReturnPickup, MoneyFrame
<1>11. ASSUME NEW q \in Requests, RejectReturnPickup(q) PROVE PhotosInv'
  BY <1>11 DEF RejectReturnPickup, MoneyFrame
<1>12. ASSUME NEW q \in Requests, UploadReturnPickupProof(q) PROVE PhotosInv'
  BY <1>12 DEF UploadReturnPickupProof, MoneyFrame, Orphaned
<1>13. ASSUME NEW q \in Requests, VerifyReturnPickupOtp(q) PROVE PhotosInv'
  BY <1>13 DEF VerifyReturnPickupOtp, MoneyFrame
<1>14. ASSUME NEW q \in Requests, RequestReturnDropOtp(q) PROVE PhotosInv'
  BY <1>14 DEF RequestReturnDropOtp, MoneyFrame
<1>15. ASSUME NEW q \in Requests, VerifyReturnDropOtp(q) PROVE PhotosInv'
  BY <1>15 DEF VerifyReturnDropOtp, MoneyFrame
<1>16. ASSUME NEW q \in Requests, UpdateReturnStatus(q) PROVE PhotosInv'
  BY <1>16 DEF UpdateReturnStatus, MoneyFrame
<1>17. ASSUME NEW q \in Requests, HandleReturnShipmentWebhook(q)
       PROVE  PhotosInv'
  BY <1>17 DEF HandleReturnShipmentWebhook, MoneyFrame
<1>18. ASSUME NEW q \in Requests, SaveQc(q) PROVE PhotosInv'
  BY <1>18 DEF SaveQc, QcFrame, qcStatus
<1>19. ASSUME NEW q \in Requests, CreditCustomer(q) PROVE PhotosInv'
  BY <1>19 DEF CreditCustomer, QcFrame
<1>20. ASSUME NEW q \in Requests, NoteRefund(q) PROVE PhotosInv'
  BY <1>20 DEF NoteRefund, QcFrame
<1>21. ASSUME NEW q \in Requests, CancelPayout(q) PROVE PhotosInv'
  BY <1>21 DEF CancelPayout, QcFrame
<1>22. ASSUME NEW q \in Requests, RecordCancellation(q) PROVE PhotosInv'
  BY <1>22 DEF RecordCancellation, QcFrame
<1>23. ASSUME NEW q \in Requests, DebitSeller(q) PROVE PhotosInv'
  BY <1>23 DEF DebitSeller, QcFrame
<1>24. ASSUME NEW q \in Requests, NoteAdjustment(q) PROVE PhotosInv'
  BY <1>24 DEF NoteAdjustment, QcFrame
<1>24a. ASSUME NEW q \in Requests, CompleteRefund(q) PROVE PhotosInv'
  BY <1>24a DEF CompleteRefund, QcFrame
<1>25. ASSUME NEW q \in Requests, LookForHeldPayout(q) PROVE PhotosInv'
  BY <1>25 DEF LookForHeldPayout, QcFrame
<1>26. ASSUME NEW q \in Requests, ReleaseAfterFailure(q) PROVE PhotosInv'
  BY <1>26 DEF ReleaseAfterFailure, QcFrame
<1>27. CASE RequestReturnPickupOtp
  BY <1>27 DEF RequestReturnPickupOtp, MoneyFrame
<1>28. CASE /\ SellerPayoutStep
            /\ UNCHANGED <<client, deliveryType, returnStatus, photos,
                           returnDeliveryBoy, otps, shipment, refunds, notes,
                           charged, request>>
  BY <1>28
<1>29. CASE UNCHANGED returnVars
  BY <1>29 DEF returnVars
<1> QED
  BY <1>1, <1>2, <1>3, <1>4, <1>5, <1>6, <1>7, <1>8, <1>9, <1>10, <1>11,
     <1>12, <1>13, <1>14,
     <1>15, <1>16, <1>17, <1>18, <1>19, <1>20, <1>21, <1>22, <1>23, <1>24,
     <1>24a, <1>25, <1>26, <1>27, <1>28, <1>29
     DEF ReturnsNext, CustomerAndSellerStep, RiderAndCourierStep, QcStep

(* From the screens one request runs at a time. *)
LEMMA ScreenStep ==
    ASSUME ReturnsIInv, [ReturnsNext]_returnVars
    PROVE  ScreenInv'
<1> USE DEF ReturnsIInv, ReturnsTypeOK, SellerPayoutTypeOK, payoutVars,
            ScreenInv, Active, SaveStatus, Done, Closed, Doing, Continue,
            Finish, FinishList, ReplacesList, NoRequest, ActiveRequest
<1>1. ASSUME NEW q \in Requests, NEW op \in OPERATION, Load(q, op)
      PROVE  ScreenInv'
  BY <1>1 DEF Load, Checks, OnScreen, Undisturbed, is, ReceiptDue, QcDue,
       QcDocumented, RetryableApproval, OPERATION
<1>2. ASSUME NEW q \in Requests, Die(q) PROVE ScreenInv'
  BY <1>2 DEF Die, MoneyFrame
<1>3. ASSUME NEW q \in Requests, RequestReturn(q) PROVE ScreenInv'
  BY <1>3 DEF RequestReturn
<1>4. ASSUME NEW q \in Requests, ApproveReturnRequest(q) PROVE ScreenInv'
  BY <1>4 DEF ApproveReturnRequest, MoneyFrame
<1>5. ASSUME NEW q \in Requests, CreateReturnOrder(q) PROVE ScreenInv'
  BY <1>5 DEF CreateReturnOrder, MoneyFrame
<1>6. ASSUME NEW q \in Requests, AssignAWB(q) PROVE ScreenInv'
  BY <1>6 DEF AssignAWB, MoneyFrame
<1>7. ASSUME NEW q \in Requests, RejectReturnRequest(q) PROVE ScreenInv'
  BY <1>7 DEF RejectReturnRequest, MoneyFrame
<1>8. ASSUME NEW q \in Requests, AssignReturnDelivery(q) PROVE ScreenInv'
  BY <1>8 DEF AssignReturnDelivery, MoneyFrame
<1>9. ASSUME NEW q \in Requests, ReceiveGoods(q) PROVE ScreenInv'
  BY <1>9 DEF ReceiveGoods, MoneyFrame
<1>10. ASSUME NEW q \in Requests, AcceptReturnPickup(q) PROVE ScreenInv'
  BY <1>10 DEF AcceptReturnPickup, MoneyFrame
<1>11. ASSUME NEW q \in Requests, RejectReturnPickup(q) PROVE ScreenInv'
  BY <1>11 DEF RejectReturnPickup, MoneyFrame
<1>12. ASSUME NEW q \in Requests, UploadReturnPickupProof(q) PROVE ScreenInv'
  BY <1>12 DEF UploadReturnPickupProof, MoneyFrame
<1>13. ASSUME NEW q \in Requests, VerifyReturnPickupOtp(q) PROVE ScreenInv'
  BY <1>13 DEF VerifyReturnPickupOtp, MoneyFrame
<1>14. ASSUME NEW q \in Requests, RequestReturnDropOtp(q) PROVE ScreenInv'
  BY <1>14 DEF RequestReturnDropOtp, MoneyFrame
<1>15. ASSUME NEW q \in Requests, VerifyReturnDropOtp(q) PROVE ScreenInv'
  BY <1>15 DEF VerifyReturnDropOtp, MoneyFrame
<1>16. ASSUME NEW q \in Requests, UpdateReturnStatus(q) PROVE ScreenInv'
  BY <1>16 DEF UpdateReturnStatus, MoneyFrame
<1>17. ASSUME NEW q \in Requests, HandleReturnShipmentWebhook(q)
       PROVE  ScreenInv'
  BY <1>17 DEF HandleReturnShipmentWebhook, MoneyFrame
<1>18. ASSUME NEW q \in Requests, SaveQc(q) PROVE ScreenInv'
  BY <1>18 DEF SaveQc, QcFrame, qcStatus
<1>19. ASSUME NEW q \in Requests, CreditCustomer(q) PROVE ScreenInv'
  BY <1>19 DEF CreditCustomer, QcFrame
<1>20. ASSUME NEW q \in Requests, NoteRefund(q) PROVE ScreenInv'
  BY <1>20 DEF NoteRefund, QcFrame
<1>21. ASSUME NEW q \in Requests, CancelPayout(q) PROVE ScreenInv'
  BY <1>21 DEF CancelPayout, QcFrame
<1>22. ASSUME NEW q \in Requests, RecordCancellation(q) PROVE ScreenInv'
  BY <1>22 DEF RecordCancellation, QcFrame
<1>23. ASSUME NEW q \in Requests, DebitSeller(q) PROVE ScreenInv'
  BY <1>23 DEF DebitSeller, QcFrame
<1>24. ASSUME NEW q \in Requests, NoteAdjustment(q) PROVE ScreenInv'
  BY <1>24 DEF NoteAdjustment, QcFrame
<1>24a. ASSUME NEW q \in Requests, CompleteRefund(q) PROVE ScreenInv'
  BY <1>24a DEF CompleteRefund, QcFrame
<1>25. ASSUME NEW q \in Requests, LookForHeldPayout(q) PROVE ScreenInv'
  BY <1>25 DEF LookForHeldPayout, QcFrame
<1>26. ASSUME NEW q \in Requests, ReleaseAfterFailure(q) PROVE ScreenInv'
  BY <1>26 DEF ReleaseAfterFailure, QcFrame
<1>27. CASE RequestReturnPickupOtp
  BY <1>27 DEF RequestReturnPickupOtp, MoneyFrame
<1>28. CASE /\ SellerPayoutStep
            /\ UNCHANGED <<client, deliveryType, returnStatus, photos,
                           returnDeliveryBoy, otps, shipment, refunds, notes,
                           charged, request>>
  BY <1>28
<1>29. CASE UNCHANGED returnVars
  BY <1>29 DEF returnVars
<1> QED
  BY <1>1, <1>2, <1>3, <1>4, <1>5, <1>6, <1>7, <1>8, <1>9, <1>10, <1>11,
     <1>12, <1>13, <1>14,
     <1>15, <1>16, <1>17, <1>18, <1>19, <1>20, <1>21, <1>22, <1>23, <1>24,
     <1>24a, <1>25, <1>26, <1>27, <1>28, <1>29
     DEF ReturnsNext, CustomerAndSellerStep, RiderAndCourierStep, QcStep

----------------------------------------------------------------------------
LEMMA ReturnsInitInductive == ReturnsInit => ReturnsIInv
<1> SUFFICES ASSUME ReturnsInit PROVE ReturnsIInv
  OBVIOUS
<1> USE DEF ReturnsInit, SellerPayoutInit
<1>1. ReturnsTypeOK
  BY DEF ReturnsTypeOK, SellerPayoutTypeOK, RETURN_STATUS
<1>2. PayoutPaidOnce
  BY DEF PayoutPaidOnce
<1>3. ChargeInv
  BY DEF ChargeInv, Doing, NoRequest
<1>4. PhotosInv
  BY DEF PhotosInv, RefundIsDocumented, NoRequest
<1>5. ScreenInv
  BY DEF ScreenInv, Active, Doing, NoRequest
<1> QED BY <1>1, <1>2, <1>3, <1>4, <1>5 DEF ReturnsIInv

(* The inductive invariant holds in every reachable state. *)
THEOREM ReturnsInductive == ReturnsSpec => []ReturnsIInv
<1>1. ReturnsIInv /\ [ReturnsNext]_returnVars => ReturnsIInv'
  <2> SUFFICES ASSUME ReturnsIInv, [ReturnsNext]_returnVars PROVE ReturnsIInv'
    OBVIOUS
  <2>1. ReturnsTypeOK'
    BY RequestTypes, FieldsKeepTypes, PayoutKeepsTypes DEF ReturnsTypeOK,
         FieldTypes
  <2> QED BY <2>1, PayoutStep, ChargeStep, PhotosStep,
  ScreenStep DEF ReturnsIInv
<1> QED BY <1>1, ReturnsInitInductive, PTL DEF ReturnsSpec

(* Order, payout and requests keep their types. *)
THEOREM ReturnsTypeCorrect == ReturnsSpec => []ReturnsTypeOK
<1>1. ReturnsIInv => ReturnsTypeOK
  BY DEF ReturnsIInv
<1> QED BY <1>1, ReturnsInductive, PTL

(* Any number of releases, batches and quality checks pay the seller's     *)
(* payout once at most, and nothing of an order on hold.                   *)
THEOREM SellerPayoutPaidOnce == ReturnsSpec => []PayoutPaidOnce
<1>1. ReturnsIInv => PayoutPaidOnce
  BY DEF ReturnsIInv
<1> QED BY <1>1, ReturnsInductive, PTL

(* Any number of requests that overlap in any way refund nobody without    *)
(* the photos of customer and pickup.                                      *)
THEOREM RefundsAreDocumented == ReturnsSpec => []RefundIsDocumented
<1>1. ReturnsIInv => RefundIsDocumented
  BY DEF ReturnsIInv, PhotosInv
<1> QED BY <1>1, ReturnsInductive, PTL

(* However often a quality check is repeated, the seller is charged once.  *)
THEOREM SellerIsChargedOnce == ReturnsSpec => []SellerChargedOnce
<1>1. ReturnsIInv => SellerChargedOnce
  BY DEF ReturnsIInv, ChargeInv, SellerChargedOnce
<1> QED BY <1>1, ReturnsInductive, PTL

(* From the screens, and wherever handlers die, a return is refunded once. *)
THEOREM CustomerIsRefundedOnce == ReturnsSpec => []RefundedOnce
<1>1. ReturnsIInv => RefundedOnce
  BY DEF ReturnsIInv, ReturnsTypeOK, ScreenInv, RefundedOnce
<1> QED BY <1>1, ReturnsInductive, PTL

(* From the screens no step reopens a closed return. *)
LEMMA ClosedStep ==
    ASSUME ReturnsIInv, [ReturnsNext]_returnVars
    PROVE  client = "apps" /\ returnStatus \in Closed => returnStatus' = returnStatus
<1> USE DEF ReturnsIInv, ReturnsTypeOK, SellerPayoutTypeOK, payoutVars,
            ScreenInv, Active, SaveStatus, Done, Closed, Doing, NoRequest,
            ActiveRequest
<1>1. ASSUME NEW q \in Requests, NEW op \in OPERATION, Load(q, op)
      PROVE  client = "apps" /\ returnStatus \in Closed => returnStatus' = returnStatus
  BY <1>1 DEF Load
<1>2. ASSUME NEW q \in Requests, Die(q)
      PROVE  client = "apps" /\ returnStatus \in Closed => returnStatus' = returnStatus
  BY <1>2 DEF Die, MoneyFrame
<1>3. ASSUME NEW q \in Requests, RequestReturn(q)
      PROVE  client = "apps" /\ returnStatus \in Closed => returnStatus' = returnStatus
  BY <1>3 DEF RequestReturn
<1>4. ASSUME NEW q \in Requests, ApproveReturnRequest(q)
      PROVE  client = "apps" /\ returnStatus \in Closed => returnStatus' = returnStatus
  BY <1>4 DEF ApproveReturnRequest, MoneyFrame
<1>5. ASSUME NEW q \in Requests, CreateReturnOrder(q)
      PROVE  client = "apps" /\ returnStatus \in Closed => returnStatus' = returnStatus
  BY <1>5 DEF CreateReturnOrder, MoneyFrame
<1>6. ASSUME NEW q \in Requests, AssignAWB(q)
      PROVE  client = "apps" /\ returnStatus \in Closed => returnStatus' = returnStatus
  BY <1>6 DEF AssignAWB, MoneyFrame
<1>7. ASSUME NEW q \in Requests, RejectReturnRequest(q)
      PROVE  client = "apps" /\ returnStatus \in Closed => returnStatus' = returnStatus
  BY <1>7 DEF RejectReturnRequest, MoneyFrame
<1>8. ASSUME NEW q \in Requests, AssignReturnDelivery(q)
      PROVE  client = "apps" /\ returnStatus \in Closed => returnStatus' = returnStatus
  BY <1>8 DEF AssignReturnDelivery, MoneyFrame
<1>9. ASSUME NEW q \in Requests, ReceiveGoods(q)
      PROVE  client = "apps" /\ returnStatus \in Closed => returnStatus' = returnStatus
  BY <1>9 DEF ReceiveGoods, MoneyFrame
<1>10. ASSUME NEW q \in Requests, AcceptReturnPickup(q)
       PROVE  client = "apps" /\ returnStatus \in Closed => returnStatus' = returnStatus
  BY <1>10 DEF AcceptReturnPickup, MoneyFrame
<1>11. ASSUME NEW q \in Requests, RejectReturnPickup(q)
       PROVE  client = "apps" /\ returnStatus \in Closed => returnStatus' = returnStatus
  BY <1>11 DEF RejectReturnPickup, MoneyFrame
<1>12. ASSUME NEW q \in Requests, UploadReturnPickupProof(q)
       PROVE  client = "apps" /\ returnStatus \in Closed => returnStatus' = returnStatus
  BY <1>12 DEF UploadReturnPickupProof, MoneyFrame
<1>13. ASSUME NEW q \in Requests, VerifyReturnPickupOtp(q)
       PROVE  client = "apps" /\ returnStatus \in Closed => returnStatus' = returnStatus
  BY <1>13 DEF VerifyReturnPickupOtp, MoneyFrame
<1>14. ASSUME NEW q \in Requests, RequestReturnDropOtp(q)
       PROVE  client = "apps" /\ returnStatus \in Closed => returnStatus' = returnStatus
  BY <1>14 DEF RequestReturnDropOtp, MoneyFrame
<1>15. ASSUME NEW q \in Requests, VerifyReturnDropOtp(q)
       PROVE  client = "apps" /\ returnStatus \in Closed => returnStatus' = returnStatus
  BY <1>15 DEF VerifyReturnDropOtp, MoneyFrame
<1>16. ASSUME NEW q \in Requests, UpdateReturnStatus(q)
       PROVE  client = "apps" /\ returnStatus \in Closed => returnStatus' = returnStatus
  BY <1>16 DEF UpdateReturnStatus, MoneyFrame
<1>17. ASSUME NEW q \in Requests, HandleReturnShipmentWebhook(q)
       PROVE  client = "apps" /\ returnStatus \in Closed => returnStatus' = returnStatus
  BY <1>17 DEF HandleReturnShipmentWebhook, MoneyFrame
<1>18. ASSUME NEW q \in Requests, SaveQc(q)
       PROVE  client = "apps" /\ returnStatus \in Closed => returnStatus' = returnStatus
  BY <1>18 DEF SaveQc, QcFrame, qcStatus
<1>19. ASSUME NEW q \in Requests, CreditCustomer(q)
       PROVE  client = "apps" /\ returnStatus \in Closed => returnStatus' = returnStatus
  BY <1>19 DEF CreditCustomer, QcFrame
<1>20. ASSUME NEW q \in Requests, NoteRefund(q)
       PROVE  client = "apps" /\ returnStatus \in Closed => returnStatus' = returnStatus
  BY <1>20 DEF NoteRefund, QcFrame
<1>21. ASSUME NEW q \in Requests, CancelPayout(q)
       PROVE  client = "apps" /\ returnStatus \in Closed => returnStatus' = returnStatus
  BY <1>21 DEF CancelPayout, QcFrame
<1>22. ASSUME NEW q \in Requests, RecordCancellation(q)
       PROVE  client = "apps" /\ returnStatus \in Closed => returnStatus' = returnStatus
  BY <1>22 DEF RecordCancellation, QcFrame
<1>23. ASSUME NEW q \in Requests, DebitSeller(q)
       PROVE  client = "apps" /\ returnStatus \in Closed => returnStatus' = returnStatus
  BY <1>23 DEF DebitSeller, QcFrame
<1>24. ASSUME NEW q \in Requests, NoteAdjustment(q)
       PROVE  client = "apps" /\ returnStatus \in Closed => returnStatus' = returnStatus
  BY <1>24 DEF NoteAdjustment, QcFrame
<1>24a. ASSUME NEW q \in Requests, CompleteRefund(q)
       PROVE  client = "apps" /\ returnStatus \in Closed => returnStatus' = returnStatus
  BY <1>24a DEF CompleteRefund, QcFrame
<1>25. ASSUME NEW q \in Requests, LookForHeldPayout(q)
       PROVE  client = "apps" /\ returnStatus \in Closed => returnStatus' = returnStatus
  BY <1>25 DEF LookForHeldPayout, QcFrame
<1>26. ASSUME NEW q \in Requests, ReleaseAfterFailure(q)
       PROVE  client = "apps" /\ returnStatus \in Closed => returnStatus' = returnStatus
  BY <1>26 DEF ReleaseAfterFailure, QcFrame
<1>27. CASE RequestReturnPickupOtp
  BY <1>27 DEF RequestReturnPickupOtp, MoneyFrame
<1>28. CASE /\ SellerPayoutStep
            /\ UNCHANGED <<client, deliveryType, returnStatus, photos,
                           returnDeliveryBoy, otps, shipment, refunds, notes,
                           charged, request>>
  BY <1>28
<1>29. CASE UNCHANGED returnVars
  BY <1>29 DEF returnVars
<1> QED
  BY <1>1, <1>2, <1>3, <1>4, <1>5, <1>6, <1>7, <1>8, <1>9, <1>10, <1>11,
     <1>12, <1>13, <1>14,
     <1>15, <1>16, <1>17, <1>18, <1>19, <1>20, <1>21, <1>22, <1>23, <1>24,
     <1>24a, <1>25, <1>26, <1>27, <1>28, <1>29
     DEF ReturnsNext, CustomerAndSellerStep, RiderAndCourierStep, QcStep

(* From the screens, a return that is rejected, failed or refunded stays   *)
(* so, for any number of requests.                                         *)
THEOREM ClosedReturnsStayClosed == ReturnsSpec => ClosedStaysClosed
<1>1. ReturnsIInv /\ [ReturnsNext]_returnVars
         => [client = "apps" /\ returnStatus \in Closed
               => returnStatus' = returnStatus]_returnVars
  BY ClosedStep
<1> QED BY <1>1, ReturnsInductive, PTL DEF ReturnsSpec, ClosedStaysClosed
----------------------------------------------------------------------------
(* The contract of a return: Returns implements ReturnContract.            *)

(* Where a request that was let in from the screens finds the return.      *)
DueIn(op) ==
    CASE op = "request"      -> {"none"}
      [] op = "approve"      -> {"return_requested", "return_approved"}
      [] op = "reject"       -> {"return_requested"}
      [] op = "assign"       -> {"return_requested", "return_approved"}
      [] op = "selfCollect"  -> {"return_approved"}
      [] op = "receipt"      -> {"return_approved", "return_in_transit"}
      [] op = "accept"       -> {"return_pickup_assigned"}
      [] op = "rejectPickup" -> {"return_pickup_assigned"}
      [] op = "proof"        -> {"return_pickup_assigned"}
      [] op = "verifyPickup" -> {"return_pickup_assigned"}
      [] op = "requestDrop"  -> {"return_in_transit", "return_drop_pending"}
      [] op = "verifyDrop"   -> {"return_drop_pending"}
      [] op = "qcPass"       -> {"returned"}
      [] op = "qcFail"       -> {"returned"}
      [] op = "webhook"      -> {"return_approved", "return_in_transit"}
      [] OTHER               -> {}

(* What it has read is still so when it saves, and a quality check that    *)
(* has credited the customer has done it once.                             *)
LifeInv ==
    client = "apps" =>
        \A q \in Requests :
            /\ Active(q) /\ request[q].stage = "loaded" =>
                  /\ returnStatus \in DueIn(request[q].op)
                  /\ request[q].op \notin {"proof", "requestDrop"}
                        => request[q].read = returnStatus
            /\ \A stage \in {"credited", "noted", "cancelled", "adjusted",
                           "documented"} :
                  Doing(q, "qcPass", stage) => refunds = 1

(* Nobody else is at work while a request of the screens is.               *)
LEMMA LifeInvStep ==
    ASSUME ReturnsIInv, LifeInv, [ReturnsNext]_returnVars
    PROVE  LifeInv'
<1> USE DEF ReturnsIInv, ReturnsTypeOK, SellerPayoutTypeOK, payoutVars,
            ScreenInv, LifeInv, Active, SaveStatus, Doing, Continue,
            Finish, FinishList, ReplacesList, NoRequest, ActiveRequest
<1>1. ASSUME NEW q \in Requests, NEW op \in OPERATION, Load(q, op)
      PROVE  LifeInv'
  <2> SUFFICES ASSUME client = "apps", client' = client PROVE LifeInv'
    BY <1>1 DEF Load
  <2>1. /\ Checks(op) /\ OnScreen(op)
        /\ \A r \in Requests : request[r].op = "none"
        /\ returnStatus' = returnStatus
    BY <1>1 DEF Load, Undisturbed
  <2>2. returnStatus \in DueIn(op)
    BY <2>1 DEF Checks, OnScreen, is, ReceiptDue, QcDue, RetryableApproval,
                OPERATION, DueIn
  <2>3. /\ request'[q].op = op /\ request'[q].stage = "loaded"
        /\ op \notin {"proof", "requestDrop"} => request'[q].read = returnStatus
        /\ \A r \in Requests \ {q} : request'[r] = request[r]
    BY <1>1 DEF Load
  <2>4. QED
    BY <2>1, <2>2, <2>3
<1>2. ASSUME NEW q \in Requests, Die(q) PROVE LifeInv'
  BY <1>2 DEF Die, MoneyFrame
<1>3. ASSUME NEW q \in Requests, RequestReturn(q) PROVE LifeInv'
  BY <1>3 DEF RequestReturn
<1>4. ASSUME NEW q \in Requests, ApproveReturnRequest(q) PROVE LifeInv'
  BY <1>4 DEF ApproveReturnRequest, MoneyFrame
<1>5. ASSUME NEW q \in Requests, CreateReturnOrder(q) PROVE LifeInv'
  BY <1>5 DEF CreateReturnOrder, MoneyFrame
<1>6. ASSUME NEW q \in Requests, AssignAWB(q) PROVE LifeInv'
  BY <1>6 DEF AssignAWB, MoneyFrame
<1>7. ASSUME NEW q \in Requests, RejectReturnRequest(q) PROVE LifeInv'
  BY <1>7 DEF RejectReturnRequest, MoneyFrame
<1>8. ASSUME NEW q \in Requests, AssignReturnDelivery(q) PROVE LifeInv'
  BY <1>8 DEF AssignReturnDelivery, MoneyFrame
<1>9. ASSUME NEW q \in Requests, ReceiveGoods(q) PROVE LifeInv'
  BY <1>9 DEF ReceiveGoods, MoneyFrame
<1>10. ASSUME NEW q \in Requests, AcceptReturnPickup(q) PROVE LifeInv'
  BY <1>10 DEF AcceptReturnPickup, MoneyFrame
<1>11. ASSUME NEW q \in Requests, RejectReturnPickup(q) PROVE LifeInv'
  BY <1>11 DEF RejectReturnPickup, MoneyFrame
<1>12. ASSUME NEW q \in Requests, UploadReturnPickupProof(q) PROVE LifeInv'
  BY <1>12 DEF UploadReturnPickupProof, MoneyFrame
<1>13. ASSUME NEW q \in Requests, VerifyReturnPickupOtp(q) PROVE LifeInv'
  BY <1>13 DEF VerifyReturnPickupOtp, MoneyFrame
<1>14. ASSUME NEW q \in Requests, RequestReturnDropOtp(q) PROVE LifeInv'
  BY <1>14 DEF RequestReturnDropOtp, MoneyFrame
<1>15. ASSUME NEW q \in Requests, VerifyReturnDropOtp(q) PROVE LifeInv'
  BY <1>15 DEF VerifyReturnDropOtp, MoneyFrame
<1>16. ASSUME NEW q \in Requests, UpdateReturnStatus(q) PROVE LifeInv'
  BY <1>16 DEF UpdateReturnStatus, MoneyFrame
<1>17. ASSUME NEW q \in Requests, HandleReturnShipmentWebhook(q) PROVE LifeInv'
  BY <1>17 DEF HandleReturnShipmentWebhook, MoneyFrame
<1>18. ASSUME NEW q \in Requests, SaveQc(q) PROVE LifeInv'
  BY <1>18 DEF SaveQc, QcFrame, qcStatus
<1>19. ASSUME NEW q \in Requests, CreditCustomer(q) PROVE LifeInv'
  BY <1>19 DEF CreditCustomer, QcFrame
<1>20. ASSUME NEW q \in Requests, NoteRefund(q) PROVE LifeInv'
  BY <1>20 DEF NoteRefund, QcFrame
<1>21. ASSUME NEW q \in Requests, CancelPayout(q) PROVE LifeInv'
  BY <1>21 DEF CancelPayout, QcFrame
<1>22. ASSUME NEW q \in Requests, RecordCancellation(q) PROVE LifeInv'
  BY <1>22 DEF RecordCancellation, QcFrame
<1>23. ASSUME NEW q \in Requests, DebitSeller(q) PROVE LifeInv'
  BY <1>23 DEF DebitSeller, QcFrame
<1>24. ASSUME NEW q \in Requests, NoteAdjustment(q) PROVE LifeInv'
  BY <1>24 DEF NoteAdjustment, QcFrame
<1>24a. ASSUME NEW q \in Requests, CompleteRefund(q) PROVE LifeInv'
  BY <1>24a DEF CompleteRefund, QcFrame
<1>25. ASSUME NEW q \in Requests, LookForHeldPayout(q) PROVE LifeInv'
  BY <1>25 DEF LookForHeldPayout, QcFrame
<1>26. ASSUME NEW q \in Requests, ReleaseAfterFailure(q) PROVE LifeInv'
  BY <1>26 DEF ReleaseAfterFailure, QcFrame
<1>27. CASE RequestReturnPickupOtp
  BY <1>27 DEF RequestReturnPickupOtp, MoneyFrame
<1>28. CASE /\ SellerPayoutStep
            /\ UNCHANGED <<client, deliveryType, returnStatus, photos,
                           returnDeliveryBoy, otps, shipment, refunds, notes,
                           charged, request>>
  BY <1>28
<1>29. CASE UNCHANGED returnVars
  BY <1>29 DEF returnVars
<1> QED
  BY <1>1, <1>2, <1>3, <1>4, <1>5, <1>6, <1>7, <1>8, <1>9, <1>10, <1>11,
     <1>12, <1>13, <1>14,
     <1>15, <1>16, <1>17, <1>18, <1>19, <1>20, <1>21, <1>22, <1>23, <1>24,
     <1>24a, <1>25, <1>26, <1>27, <1>28, <1>29
     DEF ReturnsNext, CustomerAndSellerStep, RiderAndCourierStep, QcStep

(* What a step of the API is to the life of the return. *)
Lives == Life!LifeNext \/ UNCHANGED Life!lifeVars

(* Of other clients the contract sees nothing. *)
LEMMA OthersAreFrozen ==
    ASSUME client # "apps", client' = client
    PROVE  UNCHANGED Life!lifeVars
  BY DEF Life!lifeVars, FromScreens

LEMMA ClientStays ==
    ASSUME [ReturnsNext]_returnVars
    PROVE  client' = client
  BY DEF ReturnsNext, CustomerAndSellerStep, RiderAndCourierStep, QcStep,
         returnVars, MoneyFrame, QcFrame, Load, Die, RequestReturnPickupOtp,
         RequestReturn, ApproveReturnRequest, CreateReturnOrder, AssignAWB,
         RejectReturnRequest, AssignReturnDelivery, ReceiveGoods,
         AcceptReturnPickup, RejectReturnPickup, UploadReturnPickupProof,
         VerifyReturnPickupOtp, RequestReturnDropOtp, VerifyReturnDropOtp,
         UpdateReturnStatus, HandleReturnShipmentWebhook, SaveQc,
         CreditCustomer, NoteRefund, CancelPayout, RecordCancellation,
         DebitSeller, NoteAdjustment, CompleteRefund, LookForHeldPayout,
         ReleaseAfterFailure

Goes(from, to) == returnStatus \in from /\ returnStatus' = to

(* The ways a status may take. *)
Onward ==
    \/ returnStatus' = returnStatus
    \/ Goes({"none"}, "return_requested")
    \/ Goes({"return_requested"}, "return_rejected")
    \/ Goes({"return_requested"}, "return_approved")
    \/ Goes({"return_requested", "return_approved"}, "return_pickup_assigned")
    \/ Goes({"return_pickup_assigned"}, "return_approved")
    \/ Goes({"return_approved", "return_pickup_assigned"}, "return_in_transit")
    \/ Goes({"return_in_transit"}, "return_drop_pending")
    \/ Goes({"return_approved", "return_in_transit", "return_drop_pending"},
            "returned")
    \/ Goes({"returned"}, "qc_passed")
    \/ Goes({"returned"}, "qc_failed")

(* They are the moves of the contract, as long as no money moves.          *)
LEMMA OnwardLives ==
    ASSUME client = "apps", client' = client, Onward,
           UNCHANGED <<refunds, charged>>
    PROVE  Lives
<1> USE DEF Goes, Lives, FromScreens, Life!lifeVars, Life!LifeNext, Life!Move
<1>1. CASE returnStatus' = returnStatus
  BY <1>1
<1>2. CASE Goes({"none"}, "return_requested")
  <2>1. Life!Ask BY <1>2 DEF Life!Ask, Phase
  <2>2. QED BY <2>1
<1>3. CASE Goes({"return_requested"}, "return_rejected")
  <2>1. Life!Reject BY <1>3 DEF Life!Reject, Phase
  <2>2. QED BY <2>1
<1>4. CASE Goes({"return_requested"}, "return_approved")
  <2>1. Life!Approve BY <1>4 DEF Life!Approve, Phase
  <2>2. QED BY <2>1
<1>5. CASE Goes({"return_requested", "return_approved"}, "return_pickup_assigned")
  <2>1. Life!Assign BY <1>5 DEF Life!Assign, Phase
  <2>2. QED BY <2>1
<1>6. CASE Goes({"return_pickup_assigned"}, "return_approved")
  <2>1. Life!GiveUp BY <1>6 DEF Life!GiveUp, Phase
  <2>2. QED BY <2>1
<1>7. CASE Goes({"return_approved", "return_pickup_assigned"}, "return_in_transit")
  <2>1. Life!BringBack BY <1>7 DEF Life!BringBack, Phase
  <2>2. QED BY <2>1
<1>8. CASE Goes({"return_in_transit"}, "return_drop_pending")
  BY <1>8 DEF Phase
<1>9. CASE Goes({"return_approved", "return_in_transit", "return_drop_pending"},
               "returned")
  <2>1. Life!Arrive BY <1>9 DEF Life!Arrive, Phase
  <2>2. QED BY <2>1
<1>10. CASE Goes({"returned"}, "qc_passed")
  <2>1. Life!Pass BY <1>10 DEF Life!Pass, Phase
  <2>2. QED BY <2>1
<1>11. CASE Goes({"returned"}, "qc_failed")
  <2>1. Life!Fail BY <1>11 DEF Life!Fail, Phase
  <2>2. QED BY <2>1
<1> QED BY <1>1, <1>2, <1>3, <1>4, <1>5, <1>6, <1>7, <1>8, <1>9, <1>10, <1>11 DEF Onward

(* From the screens, every save is one step of the return's life or none.  *)
LEMMA LifeStep ==
    ASSUME ReturnsIInv, LifeInv, [ReturnsNext]_returnVars
    PROVE  Lives
<1> SUFFICES ASSUME client = "apps" PROVE Lives
  BY OthersAreFrozen, ClientStays DEF Lives
<1>0. client' = client
  BY ClientStays
<1> USE <1>0 DEF ReturnsIInv, ReturnsTypeOK, SellerPayoutTypeOK, payoutVars,
            ScreenInv, ChargeInv, LifeInv, DueIn, Active, SaveStatus, Doing,
            Continue, Finish, FinishList, ReplacesList, NoRequest, ActiveRequest,
            Onward, Goes
<1>1. ASSUME NEW q \in Requests, NEW op \in OPERATION, Load(q, op)
      PROVE  Lives
  <2>1. Onward /\ UNCHANGED <<refunds, charged>>
    BY <1>1 DEF Load
  <2>2. QED BY <2>1, OnwardLives
<1>2. ASSUME NEW q \in Requests, Die(q) PROVE Lives
  <2>1. Onward /\ UNCHANGED <<refunds, charged>>
    BY <1>2 DEF Die, MoneyFrame
  <2>2. QED BY <2>1, OnwardLives
<1>3. ASSUME NEW q \in Requests, RequestReturn(q) PROVE Lives
  <2>1. Onward /\ UNCHANGED <<refunds, charged>>
    BY <1>3 DEF RequestReturn
  <2>2. QED BY <2>1, OnwardLives
<1>4. ASSUME NEW q \in Requests, ApproveReturnRequest(q) PROVE Lives
  <2>1. Onward /\ UNCHANGED <<refunds, charged>>
    BY <1>4 DEF ApproveReturnRequest, MoneyFrame
  <2>2. QED BY <2>1, OnwardLives
<1>5. ASSUME NEW q \in Requests, CreateReturnOrder(q) PROVE Lives
  <2>1. Onward /\ UNCHANGED <<refunds, charged>>
    BY <1>5 DEF CreateReturnOrder, MoneyFrame
  <2>2. QED BY <2>1, OnwardLives
<1>6. ASSUME NEW q \in Requests, AssignAWB(q) PROVE Lives
  <2>1. Onward /\ UNCHANGED <<refunds, charged>>
    BY <1>6 DEF AssignAWB, MoneyFrame
  <2>2. QED BY <2>1, OnwardLives
<1>7. ASSUME NEW q \in Requests, RejectReturnRequest(q) PROVE Lives
  <2>1. Onward /\ UNCHANGED <<refunds, charged>>
    BY <1>7 DEF RejectReturnRequest, MoneyFrame
  <2>2. QED BY <2>1, OnwardLives
<1>8. ASSUME NEW q \in Requests, AssignReturnDelivery(q) PROVE Lives
  <2>1. Onward /\ UNCHANGED <<refunds, charged>>
    BY <1>8 DEF AssignReturnDelivery, MoneyFrame
  <2>2. QED BY <2>1, OnwardLives
<1>9. ASSUME NEW q \in Requests, ReceiveGoods(q) PROVE Lives
  <2>1. Onward /\ UNCHANGED <<refunds, charged>>
    BY <1>9 DEF ReceiveGoods, MoneyFrame
  <2>2. QED BY <2>1, OnwardLives
<1>10. ASSUME NEW q \in Requests, AcceptReturnPickup(q) PROVE Lives
  <2>1. Onward /\ UNCHANGED <<refunds, charged>>
    BY <1>10 DEF AcceptReturnPickup, MoneyFrame
  <2>2. QED BY <2>1, OnwardLives
<1>11. ASSUME NEW q \in Requests, RejectReturnPickup(q) PROVE Lives
  <2>1. Onward /\ UNCHANGED <<refunds, charged>>
    BY <1>11 DEF RejectReturnPickup, MoneyFrame
  <2>2. QED BY <2>1, OnwardLives
<1>12. ASSUME NEW q \in Requests, UploadReturnPickupProof(q) PROVE Lives
  <2>1. Onward /\ UNCHANGED <<refunds, charged>>
    BY <1>12 DEF UploadReturnPickupProof, MoneyFrame
  <2>2. QED BY <2>1, OnwardLives
<1>13. ASSUME NEW q \in Requests, VerifyReturnPickupOtp(q) PROVE Lives
  <2>1. Onward /\ UNCHANGED <<refunds, charged>>
    BY <1>13 DEF VerifyReturnPickupOtp, MoneyFrame
  <2>2. QED BY <2>1, OnwardLives
<1>14. ASSUME NEW q \in Requests, RequestReturnDropOtp(q) PROVE Lives
  <2>1. Onward /\ UNCHANGED <<refunds, charged>>
    BY <1>14 DEF RequestReturnDropOtp, MoneyFrame
  <2>2. QED BY <2>1, OnwardLives
<1>15. ASSUME NEW q \in Requests, VerifyReturnDropOtp(q) PROVE Lives
  <2>1. Onward /\ UNCHANGED <<refunds, charged>>
    BY <1>15 DEF VerifyReturnDropOtp, MoneyFrame
  <2>2. QED BY <2>1, OnwardLives
<1>16. ASSUME NEW q \in Requests, UpdateReturnStatus(q) PROVE Lives
  <2>1. Onward /\ UNCHANGED <<refunds, charged>>
    BY <1>16 DEF UpdateReturnStatus, MoneyFrame
  <2>2. QED BY <2>1, OnwardLives
<1>17. ASSUME NEW q \in Requests, HandleReturnShipmentWebhook(q) PROVE Lives
  <2>1. Onward /\ UNCHANGED <<refunds, charged>>
    BY <1>17 DEF HandleReturnShipmentWebhook, MoneyFrame
  <2>2. QED BY <2>1, OnwardLives
<1>18. ASSUME NEW q \in Requests, SaveQc(q) PROVE Lives
  <2>1. Onward /\ UNCHANGED <<refunds, charged>>
    BY <1>18 DEF SaveQc, QcFrame, qcStatus
  <2>2. QED BY <2>1, OnwardLives
<1>19. ASSUME NEW q \in Requests, CreditCustomer(q) PROVE Lives
  <2>1. /\ returnStatus = "qc_passed" /\ refunds = 0 /\ refunds' = 1
          /\ UNCHANGED <<returnStatus, charged>>
    BY <1>19 DEF CreditCustomer, QcFrame
  <2>2. Life!Refund BY <2>1 DEF Life!Refund, Life!Move, Phase, FromScreens
  <2>3. QED BY <2>2 DEF Lives, Life!LifeNext
<1>20. ASSUME NEW q \in Requests, NoteRefund(q) PROVE Lives
  <2>1. Onward /\ UNCHANGED <<refunds, charged>>
    BY <1>20 DEF NoteRefund, QcFrame
  <2>2. QED BY <2>1, OnwardLives
<1>21. ASSUME NEW q \in Requests, CancelPayout(q) PROVE Lives
  <2>1. /\ returnStatus = "qc_passed" /\ refunds = 1 /\ charged = 0
        /\ UNCHANGED <<returnStatus, refunds>>
        /\ charged' = charged \/ charged' = 1
    BY <1>21 DEF CancelPayout, QcFrame
  <2>2. CASE charged' = charged
    BY <2>1, <2>2, OnwardLives
  <2>3. CASE charged' = 1
    <3>1. Life!ChargeSeller
      BY <2>1, <2>3 DEF Life!ChargeSeller, Phase, FromScreens
    <3>2. QED BY <3>1 DEF Lives, Life!LifeNext
  <2>4. QED BY <2>1, <2>2, <2>3
<1>22. ASSUME NEW q \in Requests, RecordCancellation(q) PROVE Lives
  <2>1. Onward /\ UNCHANGED <<refunds, charged>>
    BY <1>22 DEF RecordCancellation, QcFrame
  <2>2. QED BY <2>1, OnwardLives
<1>23. ASSUME NEW q \in Requests, DebitSeller(q) PROVE Lives
  <2>1. /\ returnStatus = "qc_passed" /\ refunds = 1 /\ charged = 0
        /\ UNCHANGED <<returnStatus, refunds>>
        /\ charged' = charged \/ charged' = 1
    BY <1>23 DEF DebitSeller, QcFrame
  <2>2. CASE charged' = charged
    BY <2>1, <2>2, OnwardLives
  <2>3. CASE charged' = 1
    <3>1. Life!ChargeSeller
      BY <2>1, <2>3 DEF Life!ChargeSeller, Phase, FromScreens
    <3>2. QED BY <3>1 DEF Lives, Life!LifeNext
  <2>4. QED BY <2>1, <2>2, <2>3
<1>24. ASSUME NEW q \in Requests, NoteAdjustment(q) PROVE Lives
  <2>1. Onward /\ UNCHANGED <<refunds, charged>>
    BY <1>24 DEF NoteAdjustment, QcFrame
  <2>2. QED BY <2>1, OnwardLives
<1>24a. ASSUME NEW q \in Requests, CompleteRefund(q) PROVE Lives
  <2>1. /\ returnStatus = "qc_passed" /\ refunds = 1
          /\ returnStatus' = "refund_completed" /\ UNCHANGED <<refunds, charged>>
    BY <1>24a DEF CompleteRefund, QcFrame
  <2>2. Life!Complete BY <2>1 DEF Life!Complete, Life!Move, Phase, FromScreens
  <2>3. QED BY <2>2 DEF Lives, Life!LifeNext
<1>25. ASSUME NEW q \in Requests, LookForHeldPayout(q) PROVE Lives
  <2>1. Onward /\ UNCHANGED <<refunds, charged>>
    BY <1>25 DEF LookForHeldPayout, QcFrame
  <2>2. QED BY <2>1, OnwardLives
<1>26. ASSUME NEW q \in Requests, ReleaseAfterFailure(q) PROVE Lives
  <2>1. Onward /\ UNCHANGED <<refunds, charged>>
    BY <1>26 DEF ReleaseAfterFailure, QcFrame
  <2>2. QED BY <2>1, OnwardLives
<1>27. CASE RequestReturnPickupOtp
  <2>1. Onward /\ UNCHANGED <<refunds, charged>>
    BY <1>27 DEF RequestReturnPickupOtp, MoneyFrame
  <2>2. QED BY <2>1, OnwardLives
<1>28. CASE /\ SellerPayoutStep
            /\ UNCHANGED <<client, deliveryType, returnStatus, photos,
                           returnDeliveryBoy, otps, shipment, refunds, notes,
                           charged, request>>
  BY <1>28, OnwardLives
<1>29. CASE UNCHANGED returnVars
  <2>1. Onward /\ UNCHANGED <<refunds, charged>>
    BY <1>29 DEF returnVars
  <2>2. QED BY <2>1, OnwardLives
<1> QED
  BY <1>1, <1>2, <1>3, <1>4, <1>5, <1>6, <1>7, <1>8, <1>9, <1>10, <1>11,
     <1>12, <1>13, <1>14,
     <1>15, <1>16, <1>17, <1>18, <1>19, <1>20, <1>21, <1>22, <1>23, <1>24,
     <1>24a, <1>25, <1>26, <1>27, <1>28, <1>29
     DEF ReturnsNext, CustomerAndSellerStep, RiderAndCourierStep, QcStep

(* Used from the screens, a return lives as the contract says: the goods   *)
(* come back before they are checked, the customer is refunded once and    *)
(* then the seller charged once at most, whatever handlers die.            *)
THEOREM ReturnContractHolds == ReturnsSpec => ReturnKept
<1>1. ReturnsInit => Life!LifeInit /\ LifeInv
  BY DEF ReturnsInit, Life!LifeInit, FromScreens, Phase, LifeInv, Active,
         Doing, NoRequest
<1>2. ReturnsIInv /\ LifeInv /\ [ReturnsNext]_returnVars => LifeInv'
  BY LifeInvStep
<1>3. ReturnsIInv /\ LifeInv /\ [ReturnsNext]_returnVars
         => [Life!LifeNext]_Life!lifeVars
  BY LifeStep DEF Lives
<1>4. QED
  BY <1>1, <1>2, <1>3, ReturnsInductive, PTL
     DEF ReturnsSpec, ReturnKept, Life!LifeSpec
=============================================================================
