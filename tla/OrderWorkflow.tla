--------------------------- MODULE OrderWorkflow ---------------------------
(***************************************************************************)
(* The life of one v2 order under the workflow service: placement, online  *)
(* payment, the seller's answer, the search for a rider, pickup, handoff   *)
(* by OTP, and cancellation with its compensation.                         *)
(*                                                                         *)
(* An API handler is not atomic.  Every findOneAndUpdate of the service    *)
(* is one action, every Mongo transaction is one action, and what the      *)
(* handler does after it is a later action of the same handler, so other   *)
(* handlers, the Bull workers, the scheduler's sweep and crashes come in   *)
(* between.  A read whose conditions the following findOneAndUpdate tests  *)
(* again is part of that action; a read whose result is used without being *)
(* tested again is an action of its own.                                   *)
(***************************************************************************)
EXTENDS Naturals, FiniteSets

CONSTANTS
    Riders,        \* delivery partners
    NoRider,       \* deliveryBoy of an order nobody has claimed
    MaxAttempts,   \* DELIVERY_SEARCH_MAX_ATTEMPTS
    Taps,          \* concurrent "verify OTP" requests of the rider's app
    Polling,       \* whether a status poll may overlap the capture
    MaxCrashes     \* bound: how many handlers may die half-way

ASSUME RidersAssumption   == NoRider \notin Riders
ASSUME AttemptsAssumption == MaxAttempts \in Nat \ {0}
ASSUME PollingAssumption  == Polling \in BOOLEAN
ASSUME CrashesAssumption  == MaxCrashes \in Nat

VARIABLES
    workflowStatus,      \* order.workflowStatus
    status,              \* order.status, the legacy field
    paymentMode,         \* "COD" or "ONLINE", fixed at placement
    deliveryType,        \* "instant" or "scheduled", fixed at placement
    paymentStatus,       \* order.paymentStatus
    financeFlags,        \* the flags of order.financeFlags that are set
    stockReservation,    \* order.stockReservation.status
    restocked,           \* how often the items went back to product.stock
    deliveryBoy,         \* the rider bound to the order
    skippedBy,           \* riders who declined it
    attempt,             \* order.deliverySearchMeta.attempt, 0 before a search
    expired,             \* which of the order's time windows have passed
    alerts,              \* what was raised with seller and admin
    otp                  \* the order's latest handoff OTP document

(* In-flight work: where each handler stands, and the Bull queues. *)
VARIABLES
    inFlight,            \* handlers between their two writes
    compensation,        \* where compensateOrderCancellation stands
    timeoutRead,         \* attempt each timeout worker has read, 0 if none
    verifying,           \* stage of each verify request
    verifier,            \* the rider of each verify request
    sellerJob,           \* the seller-timeout job
    deliveryJobs,        \* attempts with a queued delivery-timeout job
    settlements,         \* how often applyDeliveredSettlement was entered
    crashes              \* handlers killed so far

orderVars  == <<workflowStatus, status, paymentMode, deliveryType, financeFlags>>
stockVars  == <<stockReservation, restocked>>
riderVars  == <<deliveryBoy, skippedBy>>
jobVars    == <<sellerJob, deliveryJobs>>
verifyVars == <<verifying, verifier, settlements>>

vars == <<orderVars, paymentStatus, stockVars, riderVars, attempt, expired,
          alerts, otp, inFlight, compensation, timeoutRead, verifyVars,
          jobVars, crashes>>

WORKFLOW_STATUS ==
    {"CREATED", "SELLER_PENDING", "SELLER_ACCEPTED", "DELIVERY_SEARCH",
     "DELIVERY_ASSIGNED", "PICKUP_READY", "OUT_FOR_DELIVERY", "DELIVERED",
     "CANCELLED"}

LEGACY_STATUS ==
    {"pending", "confirmed", "packed", "out_for_delivery", "delivered",
     "cancelled"}

ORDER_PAYMENT_STATUS ==
    {"CREATED", "PAID", "PENDING_CASH_COLLECTION", "FAILED", "REFUNDED",
     "REFUND_FAILED"}

(* The two processes that run processDeliveryTimeoutJob: the Bull worker   *)
(* and the scheduler's sweep.                                              *)
TimeoutWorkers == {"bull", "sweep"}

(* Handlers that write the order and then still have something to do, or   *)
(* read it and then write: afterPlaceOrderV2, the capture, a status poll,  *)
(* sellerAcceptAtomic and deliveryAcceptAtomic.                            *)
Handlers == {"place", "capture", "poll", "accept", "claim"}

(* sellerPendingExpiresAt, deliverySearchExpiresAt and the reservation's   *)
(* expiresAt.                                                              *)
Windows == {"seller", "search", "reservation"}

ALERT == {"sellerTimeoutAlert", "noRiderAvailable"}

VERIFY_STAGE == {"idle", "matched", "superseded", "consumed", "delivered"}

legacyStatusFromWorkflow(ws) ==
    [ CREATED           |-> "pending",
      SELLER_PENDING    |-> "pending",
      SELLER_ACCEPTED   |-> "confirmed",
      DELIVERY_SEARCH   |-> "confirmed",
      DELIVERY_ASSIGNED |-> "confirmed",
      PICKUP_READY      |-> "packed",
      OUT_FOR_DELIVERY  |-> "out_for_delivery",
      DELIVERED         |-> "delivered",
      CANCELLED         |-> "cancelled" ][ws]

TypeOK ==
    /\ workflowStatus \in WORKFLOW_STATUS
    /\ status \in LEGACY_STATUS
    /\ paymentMode \in {"COD", "ONLINE"}
    /\ deliveryType \in {"instant", "scheduled"}
    /\ paymentStatus \in ORDER_PAYMENT_STATUS
    /\ financeFlags \in SUBSET {"onlinePaymentCaptured"}
    /\ stockReservation \in {"RESERVED", "COMMITTED", "RELEASED"}
    /\ restocked \in Nat
    /\ deliveryBoy \in Riders \cup {NoRider}
    /\ skippedBy \in SUBSET Riders
    /\ attempt \in 0..MaxAttempts
    /\ expired \in SUBSET Windows
    /\ alerts \in SUBSET ALERT
    /\ otp \in {"none", "active", "consumed"}
    /\ inFlight \in SUBSET Handlers
    /\ compensation \in {"idle", "cancelled", "restocked", "saved"}
    /\ timeoutRead \in [TimeoutWorkers -> 0..MaxAttempts]
    /\ verifying \in [Taps -> VERIFY_STAGE]
    /\ verifier \in [Taps -> Riders \cup {NoRider}]
    /\ sellerJob \in {"none", "queued"}
    /\ deliveryJobs \in SUBSET (1..MaxAttempts)
    /\ settlements \in Nat
    /\ crashes \in 0..MaxCrashes

----------------------------------------------------------------------------
PlacedStatus_Offered(mode) == "SELLER_PENDING"

PlacedStatus(mode) == IF mode = "COD" THEN "SELLER_PENDING" ELSE "CREATED"

(* Placement.  placeOrderAtomic commits the order and the stock it takes   *)
(* in one transaction; a cash order goes straight to its seller.           *)
Init ==
    /\ paymentMode \in {"COD", "ONLINE"}
    /\ deliveryType \in {"instant", "scheduled"}
    /\ workflowStatus = PlacedStatus(paymentMode)
    /\ status = "pending"
    /\ paymentStatus = IF paymentMode = "COD" THEN "PENDING_CASH_COLLECTION"
                                              ELSE "CREATED"
    /\ stockReservation = IF paymentMode = "COD" THEN "COMMITTED" ELSE "RESERVED"
    /\ financeFlags = {}
    /\ restocked = 0
    /\ deliveryBoy = NoRider
    /\ skippedBy = {}
    /\ attempt = 0
    /\ expired = {}
    /\ alerts = {}
    /\ otp = "none"
    /\ inFlight = IF paymentMode = "COD" THEN {"place"} ELSE {}
    /\ compensation = "idle"
    /\ timeoutRead = [w \in TimeoutWorkers |-> 0]
    /\ verifying = [t \in Taps |-> "idle"]
    /\ verifier = [t \in Taps |-> NoRider]
    /\ sellerJob = "none"
    /\ deliveryJobs = {}
    /\ settlements = 0
    /\ crashes = 0

(* What a handler still has to do begins with its first write, and is done *)
(* when it leaves inFlight.                                                *)
Begin(h) == inFlight' = inFlight \cup {h}
End(h)   == h \in inFlight /\ inFlight' = inFlight \ {h}

(* afterPlaceOrderV2: the seller-timeout job is queued, or the add fails   *)
(* and the failure is only logged.                                         *)
AfterPlaceOrder ==
    /\ End("place")
    /\ sellerJob' \in {sellerJob, "queued"}
    /\ UNCHANGED <<orderVars, paymentStatus, stockVars, riderVars, attempt,
                   expired, alerts, otp, compensation, timeoutRead, verifyVars,
                   deliveryJobs, crashes>>

----------------------------------------------------------------------------
(* Online payment, as far as the order sees it.                            *)

captured == "onlinePaymentCaptured" \in financeFlags

(* handleOnlineOrderFinance, one transaction.  It looks at the finance     *)
(* flag only, so money may arrive for an order in any state.               *)
HandleOnlineOrderFinance ==
    /\ paymentMode = "ONLINE"
    /\ Begin("capture")
    /\ financeFlags' = financeFlags \cup {"onlinePaymentCaptured"}
    /\ paymentStatus' = IF captured THEN paymentStatus ELSE "PAID"
    /\ UNCHANGED <<workflowStatus, status, paymentMode, deliveryType,
                   stockVars, riderVars, attempt, expired, alerts, otp,
                   compensation, timeoutRead, verifyVars, jobVars, crashes>>

AwaitsPayment_Unpaid == workflowStatus = "CREATED" /\ paymentStatus = "CREATED"

AwaitsPayment == workflowStatus = "CREATED"

(* The rest of the capture: the order is offered to its seller.            *)
MoveOrderToSellerPending ==
    /\ "capture" \in inFlight
    /\ IF AwaitsPayment
         THEN /\ workflowStatus' = "SELLER_PENDING"
              /\ expired' = expired \ {"seller"}
              /\ inFlight' = (inFlight \ {"capture"}) \cup {"place"}
         ELSE /\ inFlight' = inFlight \ {"capture"}
              /\ UNCHANGED <<workflowStatus, expired>>
    /\ UNCHANGED <<status, paymentMode, deliveryType, financeFlags,
                   paymentStatus, stockVars, riderVars, attempt, alerts, otp,
                   compensation, timeoutRead, verifyVars, jobVars, crashes>>

(* verifyRazorpayPaymentStatus asks the gateway, which has not captured    *)
(* the payment yet, and then writes what it was told without looking at    *)
(* the order again: the capture may have come in between.                  *)
PollRead ==
    /\ Polling
    /\ paymentMode = "ONLINE"
    /\ ~captured
    /\ Begin("poll")
    /\ UNCHANGED <<orderVars, paymentStatus, stockVars, riderVars, attempt,
                   expired, alerts, otp, compensation, timeoutRead, verifyVars,
                   jobVars, crashes>>

PollWrite ==
    /\ End("poll")
    /\ paymentStatus' = "CREATED"
    /\ UNCHANGED <<orderVars, stockVars, riderVars, attempt, expired, alerts,
                   otp, compensation, timeoutRead, verifyVars, jobVars,
                   crashes>>

WriteCancelled_WorkflowOnly == workflowStatus' = "CANCELLED" /\ UNCHANGED status

(* Every cancellation writes both status fields. *)
WriteCancelled == workflowStatus' = "CANCELLED" /\ status' = "cancelled"

(* releaseReservedStockForOrder inside a transaction. *)
ReleaseInTransaction ==
    /\ restocked' = IF stockReservation = "RELEASED" THEN restocked ELSE restocked + 1
    /\ stockReservation' = "RELEASED"

(* The transaction in which an unpaid order is given up. *)
CancelUnpaidOrder ==
    /\ ReleaseInTransaction
    /\ WriteCancelled
    /\ paymentStatus' = "FAILED"
    /\ UNCHANGED <<paymentMode, deliveryType, financeFlags, riderVars, attempt,
                   expired, alerts, otp, inFlight, compensation, timeoutRead,
                   verifyVars, jobVars, crashes>>

(* The gateway reports a failed or cancelled attempt. *)
PaymentFailed ==
    /\ paymentMode = "ONLINE"
    /\ workflowStatus = "CREATED"
    /\ status # "cancelled"
    /\ CancelUnpaidOrder

PaymentAbandonable_Again == paymentStatus # "PAID"

PaymentAbandonable == paymentStatus # "PAID" /\ status # "cancelled"

(* The customer gives up the online payment. *)
CancelOnlinePaymentAttempt ==
    /\ paymentMode = "ONLINE"
    /\ PaymentAbandonable
    /\ CancelUnpaidOrder

----------------------------------------------------------------------------
(* The seller's answer.                                                    *)

SellerAccept ==
    /\ workflowStatus = "SELLER_PENDING"
    /\ paymentMode # "ONLINE" \/ paymentStatus = "PAID"
    /\ Begin("accept")
    /\ IF deliveryType = "scheduled"
         THEN /\ workflowStatus' = "SELLER_ACCEPTED"
              /\ UNCHANGED <<attempt, expired>>
         ELSE /\ workflowStatus' = "DELIVERY_SEARCH"
              /\ attempt' = 1
              /\ expired' = expired \ {"search"}
    /\ status' = "confirmed"
    /\ UNCHANGED <<paymentMode, deliveryType, financeFlags, paymentStatus,
                   stockVars, riderVars, alerts, otp, compensation,
                   timeoutRead, verifyVars, jobVars, crashes>>

(* The rest of sellerAcceptAtomic: either queue call may fail silently. *)
SellerAcceptJobs ==
    /\ End("accept")
    /\ sellerJob' \in {sellerJob, "none"}
    /\ deliveryJobs' \in IF deliveryType = "scheduled" THEN {deliveryJobs}
                         ELSE {deliveryJobs, deliveryJobs \cup {1}}
    /\ UNCHANGED <<orderVars, paymentStatus, stockVars, riderVars, attempt,
                   expired, alerts, otp, compensation, timeoutRead, verifyVars,
                   crashes>>

Cancellable_Confirmed == workflowStatus \in {"SELLER_PENDING", "DELIVERY_SEARCH"}

(* Until the seller has accepted, either side may still call it off. *)
Cancellable == workflowStatus = "SELLER_PENDING"

(* The guarded update that sellerRejectAtomic and customerCancelV2 share. *)
CancelPendingOrder ==
    /\ Cancellable
    /\ WriteCancelled
    /\ compensation' = "cancelled"
    /\ UNCHANGED <<paymentMode, deliveryType, financeFlags, paymentStatus,
                   stockVars, riderVars, attempt, expired, alerts, otp,
                   inFlight, timeoutRead, verifyVars, jobVars, crashes>>

SellerReject   == CancelPendingOrder
CustomerCancel == CancelPendingOrder

NeverPaid_Failed == paymentStatus = "FAILED"

NeverPaid == paymentStatus # "PAID"

(* The sweep gives up an online order nobody paid for. *)
PaymentTimeoutSweep ==
    /\ workflowStatus = "CREATED"
    /\ paymentMode = "ONLINE"
    /\ NeverPaid
    /\ stockReservation # "RELEASED"
    /\ "reservation" \in expired
    /\ WriteCancelled
    /\ compensation' = "cancelled"
    /\ UNCHANGED <<paymentMode, deliveryType, financeFlags, paymentStatus,
                   stockVars, riderVars, attempt, expired, alerts, otp,
                   inFlight, timeoutRead, verifyVars, jobVars, crashes>>

----------------------------------------------------------------------------
(* compensateOrderCancellation, run by whoever cancelled.                  *)

(* Everything the compensation steps leave alone. *)
CompensationFrame ==
    UNCHANGED <<orderVars, riderVars, attempt, expired, alerts, otp, inFlight,
                timeoutRead, verifyVars, deliveryJobs, crashes>>

(* The job is removed, or not; the items go back to product.stock one by   *)
(* one, outside any transaction, before the order says so.                 *)
ReleaseReservedStock ==
    /\ compensation = "cancelled"
    /\ IF stockReservation = "RELEASED"
         THEN compensation' = "saved" /\ UNCHANGED restocked
         ELSE compensation' = "restocked" /\ restocked' = restocked + 1
    /\ sellerJob' \in {sellerJob, "none"}
    /\ UNCHANGED <<stockReservation, paymentStatus>>
    /\ CompensationFrame

SaveRelease_Forgotten ==
    /\ compensation = "restocked"
    /\ compensation' = "saved"
    /\ UNCHANGED <<stockVars, sellerJob, paymentStatus>>
    /\ CompensationFrame

(* existing.save() *)
SaveRelease ==
    /\ compensation = "restocked"
    /\ compensation' = "saved"
    /\ stockReservation' = "RELEASED"
    /\ UNCHANGED <<restocked, sellerJob, paymentStatus>>
    /\ CompensationFrame

RefundDue_Unpaid == paymentMode = "ONLINE"

RefundDue == paymentMode = "ONLINE" /\ captured

(* reverseOrderFinanceOnCancellation: the gateway refunds, refuses, or the *)
(* transaction aborts and the error is only logged.                        *)
ReverseOrderFinance ==
    /\ compensation = "saved"
    /\ compensation' = "idle"
    /\ paymentStatus' \in IF RefundDue
                           THEN {"REFUNDED", "REFUND_FAILED", paymentStatus}
                           ELSE {paymentStatus}
    /\ UNCHANGED <<stockVars, sellerJob>>
    /\ CompensationFrame

----------------------------------------------------------------------------
(* The seller's delay.                                                     *)

SellerIsLate_Paid == /\ workflowStatus = "SELLER_PENDING"
                     /\ "seller" \in expired
                     /\ paymentStatus = "PAID"

SellerIsLate == workflowStatus = "SELLER_PENDING" /\ "seller" \in expired

(* processSellerTimeoutJob *)
RaiseSellerDelay ==
    /\ alerts' = IF SellerIsLate
                   THEN alerts \cup {"sellerTimeoutAlert"}
                   ELSE alerts
    /\ UNCHANGED <<orderVars, paymentStatus, stockVars, riderVars, attempt,
                   expired, otp, inFlight, compensation, timeoutRead,
                   verifyVars, deliveryJobs, crashes>>

(* The Bull job fires once its delay is over, and is gone. *)
BullSellerTimeout ==
    /\ sellerJob = "queued"
    /\ "seller" \in expired \/ workflowStatus # "SELLER_PENDING"
    /\ sellerJob' = "none"
    /\ RaiseSellerDelay

(* The scheduler finds the order by itself, whatever became of the job. *)
SweepSellerTimeout ==
    /\ SellerIsLate
    /\ UNCHANGED sellerJob
    /\ RaiseSellerDelay

----------------------------------------------------------------------------
(* The search for a rider.                                                 *)

Claimable_Assigned(r) == workflowStatus \in {"DELIVERY_SEARCH", "DELIVERY_ASSIGNED"}

Claimable(r) == workflowStatus = "DELIVERY_SEARCH" /\ deliveryBoy \in {NoRider, r}

(* A search has a deadline from its first attempt on. *)
searchStarted == workflowStatus = "DELIVERY_SEARCH" /\ attempt # 0

(* First rider to accept wins. *)
DeliveryAccept(r) ==
    /\ Claimable(r)
    /\ attempt # 0
    /\ "search" \notin expired
    /\ r \notin skippedBy
    /\ deliveryBoy' = r
    /\ workflowStatus' = "DELIVERY_ASSIGNED"
    /\ status' = "confirmed"
    /\ Begin("claim")
    /\ UNCHANGED <<paymentMode, deliveryType, financeFlags, paymentStatus,
                   stockVars, skippedBy, attempt, expired, alerts, otp,
                   compensation, timeoutRead, verifyVars, jobVars, crashes>>

(* The timeout job of the attempt the update returned is removed, or not. *)
DeliveryAcceptJobs ==
    /\ End("claim")
    /\ deliveryJobs' \in {deliveryJobs, deliveryJobs \ {attempt}}
    /\ UNCHANGED <<orderVars, paymentStatus, stockVars, riderVars, attempt,
                   expired, alerts, otp, compensation, timeoutRead, verifyVars,
                   sellerJob, crashes>>

(* skippedBy is read by DeliveryAccept only, so a push that is saved after *)
(* the search is over changes nothing and is left out.                     *)
SkipOrder(r) ==
    /\ workflowStatus = "DELIVERY_SEARCH"
    /\ r \notin skippedBy
    /\ skippedBy' = skippedBy \cup {r}
    /\ UNCHANGED <<orderVars, paymentStatus, stockVars, deliveryBoy, attempt,
                   expired, alerts, otp, inFlight, compensation, timeoutRead,
                   verifyVars, jobVars, crashes>>

(* processDeliveryTimeoutJob reads the attempt it is going to end ... *)
ReadDeliveryTimeout(w) ==
    /\ timeoutRead[w] = 0
    /\ timeoutRead' = IF workflowStatus = "DELIVERY_SEARCH" /\ "search" \in expired
                         THEN [timeoutRead EXCEPT ![w] = attempt]
                         ELSE timeoutRead
    /\ UNCHANGED <<orderVars, paymentStatus, stockVars, riderVars, attempt,
                   expired, alerts, otp, inFlight, compensation, verifyVars,
                   sellerJob, crashes>>

(* ... for a Bull job, at most once per job ... *)
BullDeliveryTimeout ==
    /\ \E a \in deliveryJobs : deliveryJobs' = deliveryJobs \ {a}
    /\ ReadDeliveryTimeout("bull")

(* ... or for the scheduler's sweep, whenever a search has expired. *)
SweepDeliveryTimeout ==
    /\ workflowStatus = "DELIVERY_SEARCH" /\ "search" \in expired
    /\ UNCHANGED deliveryJobs
    /\ ReadDeliveryTimeout("sweep")

MoreAttempts_OffByOne(a) == a <= MaxAttempts

MoreAttempts(a) == a < MaxAttempts

SearchIsOver_Silent == UNCHANGED alerts

SearchIsOver ==
    alerts' = IF workflowStatus = "DELIVERY_SEARCH"
                THEN alerts \cup {"noRiderAvailable"}
                ELSE alerts

(* The updates test the workflow status again, but not the attempt.  The   *)
(* next job is queued (or the queue fails) even when the update missed.    *)
FinishDeliveryTimeout(w) ==
    /\ timeoutRead[w] # 0
    /\ timeoutRead' = [timeoutRead EXCEPT ![w] = 0]
    /\ IF MoreAttempts(timeoutRead[w])
         THEN /\ IF workflowStatus = "DELIVERY_SEARCH"
                   THEN /\ attempt' = timeoutRead[w] + 1
                        /\ expired' = expired \ {"search"}
                   ELSE UNCHANGED <<attempt, expired>>
              /\ deliveryJobs' \in {deliveryJobs,
                                    deliveryJobs \cup {timeoutRead[w] + 1}}
              /\ UNCHANGED alerts
         ELSE /\ SearchIsOver
              /\ UNCHANGED <<attempt, expired, deliveryJobs>>
    /\ UNCHANGED <<orderVars, paymentStatus, stockVars, riderVars, otp,
                   inFlight, compensation, verifyVars, sellerJob, crashes>>

----------------------------------------------------------------------------
(* Pickup and handoff.                                                     *)

(* A guarded update by the order's own rider. *)
RiderMoves(r, from, to) ==
    /\ workflowStatus \in from
    /\ deliveryBoy = r
    /\ workflowStatus' = to
    /\ status' = legacyStatusFromWorkflow(to)
    /\ UNCHANGED <<paymentMode, deliveryType, financeFlags, paymentStatus,
                   stockVars, riderVars, attempt, expired, alerts, otp,
                   inFlight, compensation, timeoutRead, jobVars, crashes>>

MarkArrivedAtStore(r) ==
    /\ RiderMoves(r, {"DELIVERY_ASSIGNED"}, "PICKUP_READY")
    /\ UNCHANGED verifyVars

ConfirmPickup(r) ==
    /\ RiderMoves(r, {"DELIVERY_ASSIGNED", "PICKUP_READY"}, "OUT_FOR_DELIVERY")
    /\ UNCHANGED verifyVars

(* A new code replaces the old one: a verify request that had matched the  *)
(* old document goes on, but what it consumes is no longer the active code.*)
RequestHandoffOtp(r) ==
    /\ workflowStatus = "OUT_FOR_DELIVERY"
    /\ deliveryBoy = r
    /\ otp' = "active"
    /\ verifying' = [t \in Taps |-> IF verifying[t] = "matched" THEN "superseded"
                                     ELSE verifying[t]]
    /\ UNCHANGED <<orderVars, paymentStatus, stockVars, riderVars, attempt,
                   expired, alerts, inFlight, compensation, timeoutRead,
                   verifier, settlements, jobVars, crashes>>

VerifyStep(t, from, to) ==
    /\ verifying[t] = from
    /\ verifying' = [verifying EXCEPT ![t] = to]

(* verifyHandoffOtpAndDeliver: the code is compared ... *)
VerifyOtp(t, r) ==
    /\ workflowStatus = "OUT_FOR_DELIVERY"
    /\ deliveryBoy = r
    /\ otp = "active"
    /\ VerifyStep(t, "idle", "matched")
    /\ verifier' = [verifier EXCEPT ![t] = r]
    /\ UNCHANGED <<orderVars, paymentStatus, stockVars, riderVars, attempt,
                   expired, alerts, otp, inFlight, compensation, timeoutRead,
                   settlements, jobVars, crashes>>

(* ... consumed, without asking whether another request has done so ... *)
ConsumeOtp(t) ==
    /\ \/ VerifyStep(t, "matched", "consumed") /\ otp' = "consumed"
       \/ VerifyStep(t, "superseded", "consumed") /\ UNCHANGED otp
    /\ UNCHANGED <<orderVars, paymentStatus, stockVars, riderVars, attempt,
                   expired, alerts, inFlight, compensation, timeoutRead,
                   verifier, settlements, jobVars, crashes>>

MayFinalize_Unguarded(t) == TRUE

MayFinalize(t) == workflowStatus = "OUT_FOR_DELIVERY" /\ deliveryBoy = verifier[t]

(* ... the order delivered, if it still is this rider's to deliver ... *)
FinalizeDelivery(t) ==
    /\ IF MayFinalize(t)
         THEN /\ VerifyStep(t, "consumed", "delivered")
              /\ workflowStatus' = "DELIVERED"
              /\ status' = "delivered"
         ELSE /\ VerifyStep(t, "consumed", "idle")
              /\ UNCHANGED <<workflowStatus, status>>
    /\ UNCHANGED <<paymentMode, deliveryType, financeFlags, paymentStatus,
                   stockVars, riderVars, attempt, expired, alerts, otp,
                   inFlight, compensation, timeoutRead, verifier, settlements,
                   jobVars, crashes>>

ApplyDeliveredSettlement_Paid(t) ==
    /\ paymentStatus = "PAID"
    /\ VerifyStep(t, "delivered", "idle")
    /\ settlements' = settlements + 1
    /\ UNCHANGED <<orderVars, paymentStatus, stockVars, riderVars, attempt,
                   expired, alerts, otp, inFlight, compensation, timeoutRead,
                   verifier, jobVars, crashes>>

(* ... and the money moved. *)
ApplyDeliveredSettlement(t) ==
    /\ VerifyStep(t, "delivered", "idle")
    /\ settlements' = settlements + 1
    /\ UNCHANGED <<orderVars, paymentStatus, stockVars, riderVars, attempt,
                   expired, alerts, otp, inFlight, compensation, timeoutRead,
                   verifier, jobVars, crashes>>

----------------------------------------------------------------------------
(* Time passes: a window that is open may end.                             *)
WindowEnds(window, open) ==
    /\ open
    /\ expired' = expired \cup {window}
    /\ UNCHANGED <<orderVars, paymentStatus, stockVars, riderVars, attempt,
                   alerts, otp, inFlight, compensation, timeoutRead,
                   verifyVars, jobVars, crashes>>

SellerWindowEnds  == WindowEnds("seller", workflowStatus = "SELLER_PENDING")
SearchWindowEnds  == WindowEnds("search", searchStarted)
ReservationEnds   == WindowEnds("reservation", paymentMode = "ONLINE")

(* A handler dies, or throws, before its next step; what it has written    *)
(* stays, and nothing resumes it.  A Bull job may be run again.            *)
CrashHandler ==
    /\ \E h \in inFlight : inFlight' = inFlight \ {h}
    /\ UNCHANGED <<compensation, timeoutRead, verifying, deliveryJobs>>

CrashCompensation ==
    /\ compensation # "idle"
    /\ compensation' = "idle"
    /\ UNCHANGED <<inFlight, timeoutRead, verifying, deliveryJobs>>

CrashTimeoutWorker(w) ==
    /\ timeoutRead[w] # 0
    /\ timeoutRead' = [timeoutRead EXCEPT ![w] = 0]
    /\ deliveryJobs' \in IF w = "bull"
                          THEN {deliveryJobs, deliveryJobs \cup {timeoutRead[w]}}
                          ELSE {deliveryJobs}
    /\ UNCHANGED <<inFlight, compensation, verifying>>

CrashVerify(t) ==
    /\ verifying[t] # "idle"
    /\ verifying' = [verifying EXCEPT ![t] = "idle"]
    /\ UNCHANGED <<inFlight, compensation, timeoutRead, deliveryJobs>>

Crash ==
    /\ crashes < MaxCrashes
    /\ crashes' = crashes + 1
    /\ \/ CrashHandler
       \/ CrashCompensation
       \/ \E w \in TimeoutWorkers : CrashTimeoutWorker(w)
       \/ \E t \in Taps : CrashVerify(t)
    /\ UNCHANGED <<orderVars, paymentStatus, stockVars, riderVars, attempt,
                   expired, alerts, otp, verifier, settlements, sellerJob>>

----------------------------------------------------------------------------
Next ==
    \/ AfterPlaceOrder \/ HandleOnlineOrderFinance \/ MoveOrderToSellerPending
    \/ PollRead \/ PollWrite \/ PaymentFailed \/ CancelOnlinePaymentAttempt
    \/ SellerAccept \/ SellerAcceptJobs \/ SellerReject \/ CustomerCancel
    \/ PaymentTimeoutSweep
    \/ ReleaseReservedStock \/ SaveRelease \/ ReverseOrderFinance
    \/ BullSellerTimeout \/ SweepSellerTimeout
    \/ BullDeliveryTimeout \/ SweepDeliveryTimeout
    \/ \E w \in TimeoutWorkers : FinishDeliveryTimeout(w)
    \/ DeliveryAcceptJobs
    \/ \E r \in Riders : \/ DeliveryAccept(r) \/ SkipOrder(r)
                        \/ MarkArrivedAtStore(r) \/ ConfirmPickup(r)
                        \/ RequestHandoffOtp(r)
                        \/ \E t \in Taps : VerifyOtp(t, r)
    \/ \E t \in Taps : \/ ConsumeOtp(t) \/ FinalizeDelivery(t)
                      \/ ApplyDeliveredSettlement(t)
    \/ SellerWindowEnds \/ SearchWindowEnds \/ ReservationEnds
    \/ Crash

Spec == Init /\ [][Next]_vars

(* Clocks advance, the scheduler sweeps every few seconds, and a handler   *)
(* that has begun goes on unless it crashes.  People need not act, and     *)
(* Bull need not run: its queue calls may all have failed.                 *)
Fairness ==
    /\ WF_vars(SellerWindowEnds) /\ WF_vars(SearchWindowEnds)
    /\ WF_vars(ReservationEnds)
    /\ WF_vars(MoveOrderToSellerPending)
    /\ WF_vars(PaymentTimeoutSweep)
    /\ WF_vars(SweepSellerTimeout)
    /\ WF_vars(SweepDeliveryTimeout)
    /\ WF_vars(FinishDeliveryTimeout("sweep"))
    /\ WF_vars(ReleaseReservedStock) /\ WF_vars(SaveRelease)
    /\ WF_vars(ReverseOrderFinance)
    /\ \A t \in Taps : /\ WF_vars(ConsumeOtp(t)) /\ WF_vars(FinalizeDelivery(t))
                      /\ WF_vars(ApplyDeliveredSettlement(t))

FairSpec == Spec /\ Fairness

(* A verify request that has delivered the order settles it. *)
SomeoneSettles == \E t \in Taps : ApplyDeliveredSettlement(t)

----------------------------------------------------------------------------
(* Safety.                                                                 *)

(* However cancellations, sweeps, payment failures and crashes interleave, *)
(* the items of an order go back to the shelf at most once, only for a     *)
(* cancelled order, and an order marked RELEASED has given them back.      *)
StockReturnedOnce ==
    /\ restocked <= 1
    /\ restocked = 1 => workflowStatus = "CANCELLED"
    /\ stockReservation = "RELEASED" => restocked = 1

(* No seller is offered, and no rider carries, an online order whose money *)
(* has not been captured, whatever status writes raced with the capture.   *)
OfferedOnlineIsCaptured ==
    paymentMode = "ONLINE" /\ workflowStatus \notin {"CREATED", "CANCELLED"}
        => captured

(* A refund is issued only for captured money, after the order was         *)
(* cancelled and its stock had been given back.                            *)
RefundIsJustified ==
    paymentStatus = "REFUNDED" =>
        captured /\ workflowStatus = "CANCELLED" /\ stockReservation = "RELEASED"

(* Two taps on "verify", a retry or a crash never settle an order twice:   *)
(* at most one request ever gets past the final update.                    *)
SettledOnce ==
    /\ settlements + Cardinality({t \in Taps : verifying[t] = "delivered"}) <= 1
    /\ settlements = 1 => deliveryBoy # NoRider

(* The legacy status follows the workflow status, whichever handler wrote. *)
LegacyStatusInSync == status = legacyStatusFromWorkflow(workflowStatus)

(* Once a rider has claimed the order no other rider takes it over.        *)
RiderNeverReplaced ==
    [][deliveryBoy # NoRider => deliveryBoy' = deliveryBoy]_vars

(* The last attempt is over, and no worker still holds an earlier one.     *)
SearchExhausted ==
    /\ workflowStatus = "DELIVERY_SEARCH" /\ "search" \in expired
    /\ attempt = MaxAttempts
    /\ \A w \in TimeoutWorkers : timeoutRead[w] \in {0, MaxAttempts}

(* Then nothing opens the search again: no rider can claim the order, no   *)
(* late job or sweep widens it, and neither side can call it off.  Only an *)
(* online payment given up after a late poll takes it out of the search.   *)
ExhaustedSearchStays ==
    [][SearchExhausted =>
          \/ SearchExhausted'
          \/ paymentMode = "ONLINE" /\ workflowStatus' = "CANCELLED"]_vars

(* "Order cannot be cancelled after confirmation".                         *)
NotCancelledAfterConfirmation ==
    [][workflowStatus \notin {"CREATED", "SELLER_PENDING"}
            => (workflowStatus' = "CANCELLED" => workflowStatus = "CANCELLED")]_vars

----------------------------------------------------------------------------
(* The detailed order implements the contract.                             *)

contractPhase ==
    [ CREATED           |-> "unpaid",
      SELLER_PENDING    |-> "offered",
      SELLER_ACCEPTED   |-> "accepted",
      DELIVERY_SEARCH   |-> "accepted",
      DELIVERY_ASSIGNED |-> "claimed",
      PICKUP_READY      |-> "claimed",
      OUT_FOR_DELIVERY  |-> "collected",
      DELIVERED         |-> "delivered",
      CANCELLED         |-> "off" ][workflowStatus]

Contract == INSTANCE OrderContract
    WITH phase <- contractPhase, rider <- deliveryBoy, returned <- restocked

(* The workflow service keeps the contract of OrderContract, step by step. *)
ContractKept == Contract!ContractSpec

----------------------------------------------------------------------------
(* Liveness, under FairSpec.                                               *)

(* A seller who does not answer is reported, even if the Bull job was      *)
(* never queued or its worker died: the sweep stands in for it.            *)
SellerDelayIsRaised ==
    workflowStatus = "SELLER_PENDING" ~>
        (workflowStatus # "SELLER_PENDING" \/ "sellerTimeoutAlert" \in alerts)

(* A search no rider answers ends in the no-rider alert, although two      *)
(* workers may widen it from stale attempts and set it back.               *)
FailedSearchIsRaised ==
    workflowStatus = "DELIVERY_SEARCH" ~>
        (workflowStatus # "DELIVERY_SEARCH" \/ "noRiderAvailable" \in alerts)

(* An online order does not keep its stock forever without being paid.     *)
UnpaidOrderIsResolved ==
    workflowStatus = "CREATED" ~> (workflowStatus # "CREATED" \/ captured)

(* An order whose money has been captured does not wait forever: it moves *)
(* on to its seller, or was given up in the meantime.                      *)
CapturedReachesSeller ==
    (captured /\ workflowStatus = "CREATED") ~> workflowStatus # "CREATED"

(* The stock of a cancelled order comes back.                              *)
CancelledStockReturns ==
    workflowStatus = "CANCELLED" ~> stockReservation = "RELEASED"

(* A delivered order is settled.                                           *)
DeliveredIsSettled == workflowStatus = "DELIVERED" ~> settlements = 1
============================================================================
