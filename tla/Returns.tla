------------------------------ MODULE Returns ------------------------------
(***************************************************************************)
(* The return of one delivered order: the customer asks, the seller        *)
(* decides, a rider, the seller himself or the courier brings the goods    *)
(* back, an admin checks them and the customer is refunded, while the      *)
(* seller's payout of SellerPayout is on its way.                          *)
(*                                                                         *)
(* A handler loads the order, decides, and saves the fields it changed, so *)
(* every operation is a Load and a save, with other requests in between.   *)
(* A save that replaces a list of the order fails if another such save has *)
(* come first; no other save does.                                         *)
(***************************************************************************)
EXTENDS SellerPayout

CONSTANTS
    Requests,       \* requests and webhooks the API may serve at once
    MaxRefunds      \* bound: quality checks pass while fewer refunds were made

ASSUME RefundsAssumption == MaxRefunds \in Nat \ {0}

VARIABLES
    client,         \* "apps": the screens show the order as it is, requests
                    \* come one by one, the courier's events in time;
                    \* "any": whatever the API accepts, requests overlapping
    deliveryType,   \* "instant" or "scheduled"
    photos,         \* of the customer (returnImages), of the pickup
                    \* (returnPickupImages): those that are not empty
    returnDeliveryBoy,  \* "none" or "rider"
    otps,           \* return OTPs generated and not consumed
    shipment,       \* the courier's reverse pickup as the order knows it:
                    \* "none", "unassigned" (an id only) or "booked"
    refunds,        \* how often the customer's wallet was credited
    notes,          \* Transactions of the return; their reference is unique
    charged,        \* how often the seller was debited, or his payout cancelled
    request         \* what each request is doing

returnVars == <<client, deliveryType, returnStatus, photos, returnDeliveryBoy,
                otps, shipment, refunds, notes, charged, request, payoutVars>>

OPERATION ==
    {"request", "approve", "reject", "assign", "selfCollect", "receipt",
     "accept", "rejectPickup", "proof", "verifyPickup", "requestDrop",
     "verifyDrop", "qcPass", "qcFail", "update", "webhook"}

STAGE == {"loaded", "booking", "booked", "checked", "credited", "noted",
          "cancelled", "adjusted", "documented", "release"}

(* What a request holds: the fields of the order it will use, as loaded,   *)
(* and, if it is to replace a list, whether another has been replaced      *)
(* since.                                                                  *)
ReplacesList(op) == op \in {"request", "selfCollect", "receipt", "proof"}

NoRequest == [op |-> "none"]

ActiveRequest == [op : OPERATION, stage : STAGE, read : RETURN_STATUS,
                  held : BOOLEAN, stale : BOOLEAN]

ReturnsTypeOK ==
    /\ SellerPayoutTypeOK
    /\ client \in {"apps", "any"}
    /\ deliveryType \in {"instant", "scheduled"}
    /\ returnStatus \in RETURN_STATUS
    /\ photos \in SUBSET {"customer", "pickup"}
    /\ returnDeliveryBoy \in {"none", "rider"}
    /\ otps \in SUBSET {"return_pickup", "return_drop"}
    /\ shipment \in {"none", "unassigned", "booked"}
    /\ refunds \in Nat
    /\ notes \in SUBSET {"REF-WALLET", "REF-SELL"}
    /\ charged \in Nat
    /\ request \in [Requests -> ActiveRequest \cup {NoRequest}]

ReturnsInit ==
    /\ SellerPayoutInit
    /\ client \in {"apps", "any"}
    /\ deliveryType \in {"instant", "scheduled"}
    /\ returnStatus = "none"
    /\ photos = {}
    /\ returnDeliveryBoy = "none"
    /\ otps = {}
    /\ shipment = "none"
    /\ refunds = 0
    /\ notes = {}
    /\ charged = 0
    /\ request = [q \in Requests |-> NoRequest]

----------------------------------------------------------------------------
(* When each operation may start.                                          *)

scheduled == deliveryType = "scheduled"
assigned  == returnDeliveryBoy = "rider"
is(statuses) == returnStatus \in statuses

(* "photos are required before approving QC": the customer's and the       *)
(* rider's.                                                                *)
QcDocumented == photos = {"customer", "pickup"}

RetryableApproval == scheduled /\ is({"return_approved"}) /\ shipment = "none"

(* returnFulfillmentMode is "shiprocket" once the pickup is booked.        *)
ReceiptDue == /\ scheduled /\ shipment = "booked"
              /\ is({"return_approved", "return_in_transit"})

QcDue_Repeat == is({"returned", "qc_passed"})

QcDue == is({"returned"})

(* What the handler checks on the order it has loaded.                     *)
Checks(op) ==
    CASE op = "request"      -> is({"none"}) /\ returnWindow = "open"
      [] op = "approve"      -> is({"return_requested"}) \/ RetryableApproval
      [] op = "reject"       -> is({"return_requested"})
      [] op = "assign"       -> ~scheduled /\ is({"return_requested", "return_approved"})
      [] op = "selfCollect"  -> ~scheduled /\ is({"return_approved"})
      [] op = "receipt"      -> ReceiptDue
      [] op = "accept"       -> ~assigned
      [] op = "rejectPickup" -> assigned /\ is({"return_pickup_assigned"})
      [] op = "proof"        -> is({"return_pickup_assigned"})
      [] op = "verifyPickup" -> "return_pickup" \in otps
      [] op = "requestDrop"  -> assigned /\ is({"return_in_transit", "return_drop_pending"})
      [] op = "verifyDrop"   -> assigned /\ "return_drop" \in otps
      [] op = "qcPass"       -> QcDue /\ QcDocumented
      [] op = "qcFail"       -> QcDue
      [] op = "update"       -> TRUE
      [] op = "webhook"      -> shipment # "none"

(* Where the handler asks for less than the screen, the screen decides: a  *)
(* pickup is accepted from the list of open ones, its photos and its code  *)
(* are entered on the page of the running one; no screen sets a status;    *)
(* the courier's events come before the seller has confirmed the receipt.  *)
OnScreen(op) ==
    CASE op = "accept"       -> is({"return_pickup_assigned"})
      [] op = "proof"        -> assigned
      [] op = "verifyPickup" -> assigned /\ is({"return_pickup_assigned"})
      [] op = "verifyDrop"   -> is({"return_drop_pending"})
      [] op = "update"       -> FALSE
      [] op = "webhook"      -> is({"return_approved", "return_in_transit"})
      [] OTHER               -> TRUE

Undisturbed == \A q \in Requests : request[q] = NoRequest

(* A refund is bound to this order only by the checks of the status; the   *)
(* bound cuts off those that repeat for ever.                              *)
Bounded(op) == op \in {"qcPass", "update", "webhook", "accept"} => refunds < MaxRefunds

Load(q, op) ==
    /\ request[q] = NoRequest
    /\ Checks(op)
    /\ client = "apps" => OnScreen(op) /\ Undisturbed
    /\ Bounded(op)
    /\ request' = [request EXCEPT ![q] =
                     [op |-> op, stage |-> "loaded",
                      read |-> IF op \in {"proof", "requestDrop"} THEN "none"
                               ELSE returnStatus,
                      held |-> op = "qcPass" /\ Held, stale |-> FALSE]]
    /\ UNCHANGED <<client, deliveryType, returnStatus, photos,
                   returnDeliveryBoy, otps, shipment, refunds, notes, charged,
                   payoutVars>>

----------------------------------------------------------------------------
(* Saving.                                                                 *)

Doing(q, op, stage) == request[q].op = op /\ request[q].stage = stage

Continue(q, stage) == request' = [request EXCEPT ![q].stage = stage]
Finish(q)          == request' = [request EXCEPT ![q] = NoRequest]

Orphaned_Never(q) == FALSE

(* The document's version has moved on since it was loaded: a VersionError. *)
Orphaned(q) == request[q].stale

(* A list is replaced: every document loaded before is stale for another   *)
(* save of the kind.                                                       *)
FinishList(q) ==
    request' = [r \in Requests |->
                  IF r = q THEN NoRequest
                  ELSE IF ReplacesList(request[r].op)
                    THEN [request[r] EXCEPT !.stale = TRUE]
                  ELSE request[r]]

(* save() writes the fields that differ from the loaded document.          *)
SaveStatus(q, status) ==
    returnStatus' = IF status = request[q].read THEN returnStatus ELSE status

MoneyFrame == UNCHANGED <<client, deliveryType, refunds, notes, charged, payoutVars>>

(* The process dies, or the save fails. *)
Die(q) ==
    /\ request[q] # NoRequest
    /\ Finish(q)
    /\ UNCHANGED <<returnStatus, photos, returnDeliveryBoy, otps, shipment>>
    /\ MoneyFrame

(* requestReturn; the customer may send no photos.  The window of the      *)
(* items, to whose end the payout is held, gives way to the shop's, never  *)
(* longer with the defaults, which may be over already.                    *)
RequestReturn(q) ==
    /\ Doing(q, "request", "loaded")
    /\ ~Orphaned(q)
    /\ \E taken \in SUBSET {"customer"} :
          photos' = (photos \ {"customer"}) \cup taken
    /\ SaveStatus(q, "return_requested")
    /\ returnWindow' \in {returnWindow, "over"}
    /\ FinishList(q)
    /\ UNCHANGED <<client, deliveryType, returnDeliveryBoy, otps, shipment,
                   refunds, notes, charged, sellerPayout, payout, paid, worker>>

(* approveReturnRequest: the first approval is a guarded update, a retry   *)
(* goes straight on to the courier.                                        *)
ApproveReturnRequest(q) ==
    /\ Doing(q, "approve", "loaded")
    /\ IF request[q].read = "return_requested"
         THEN /\ returnStatus = "return_requested"
              /\ returnStatus' = "return_approved"
              /\ returnDeliveryBoy' = "none"
         ELSE UNCHANGED <<returnStatus, returnDeliveryBoy>>
    /\ IF scheduled THEN Continue(q, "booking") ELSE Finish(q)
    /\ UNCHANGED <<photos, otps, shipment>>
    /\ MoneyFrame

(* createShiprocketReturnShipmentForOrder: unless the order has a return   *)
(* shipment, one is created; then it gets its airway bill, or not.         *)
CreateReturnOrder(q) ==
    /\ Doing(q, "approve", "booking")
    /\ IF shipment = "none" THEN Continue(q, "booked") ELSE Finish(q)
    /\ UNCHANGED <<returnStatus, photos, returnDeliveryBoy, otps, shipment>>
    /\ MoneyFrame

AssignAWB(q) ==
    /\ Doing(q, "approve", "booked")
    /\ \/ shipment' = "booked"
       \/ shipment' = IF shipment = "none" THEN "unassigned" ELSE shipment
    /\ Finish(q)
    /\ UNCHANGED <<returnStatus, photos, returnDeliveryBoy, otps>>
    /\ MoneyFrame

RejectReturnRequest(q) ==
    /\ Doing(q, "reject", "loaded")
    /\ SaveStatus(q, "return_rejected")
    /\ Finish(q)
    /\ UNCHANGED <<photos, returnDeliveryBoy, otps, shipment>>
    /\ MoneyFrame

(* assignReturnDelivery: a rider of the admin's choice, or an offer to all. *)
AssignReturnDelivery(q) ==
    /\ Doing(q, "assign", "loaded")
    /\ returnDeliveryBoy' \in {"none", "rider"}
    /\ SaveStatus(q, "return_pickup_assigned")
    /\ Finish(q)
    /\ UNCHANGED <<photos, otps, shipment>>
    /\ MoneyFrame

(* submitReturnSelfCollection and confirmShiprocketReturnReceipt *)
ReceiveGoods(q) ==
    /\ Doing(q, "selfCollect", "loaded") \/ Doing(q, "receipt", "loaded")
    /\ ~Orphaned(q)
    /\ photos' = photos \cup {"pickup"}
    /\ SaveStatus(q, "returned")
    /\ FinishList(q)
    /\ UNCHANGED <<returnDeliveryBoy, otps, shipment>>
    /\ MoneyFrame

AcceptReturnPickup(q) ==
    /\ Doing(q, "accept", "loaded")
    /\ returnDeliveryBoy' = "rider"
    /\ SaveStatus(q, "return_pickup_assigned")
    /\ Finish(q)
    /\ UNCHANGED <<photos, otps, shipment>>
    /\ MoneyFrame

(* Adding to skippedBy makes other lists' saves fail at times, which Die   *)
(* covers.                                                                 *)
RejectReturnPickup(q) ==
    /\ Doing(q, "rejectPickup", "loaded")
    /\ returnDeliveryBoy' = "none"
    /\ SaveStatus(q, "return_approved")
    /\ Finish(q)
    /\ UNCHANGED <<photos, otps, shipment>>
    /\ MoneyFrame

UploadReturnPickupProof(q) ==
    /\ Doing(q, "proof", "loaded")
    /\ ~Orphaned(q)
    /\ photos' = photos \cup {"pickup"}
    /\ FinishList(q)
    /\ UNCHANGED <<returnStatus, returnDeliveryBoy, otps, shipment>>
    /\ MoneyFrame

(* generateReturnPickupOtp writes nothing of the order. *)
RequestReturnPickupOtp ==
    /\ returnStatus = "return_pickup_assigned"
    /\ "pickup" \in photos
    /\ otps' = otps \cup {"return_pickup"}
    /\ UNCHANGED <<returnStatus, photos, returnDeliveryBoy, shipment, request>>
    /\ MoneyFrame

(* verifyReturnPickupOtp asks for the code, not for rider or status.       *)
VerifyReturnPickupOtp(q) ==
    /\ Doing(q, "verifyPickup", "loaded")
    /\ otps' = otps \ {"return_pickup"}
    /\ SaveStatus(q, "return_in_transit")
    /\ Finish(q)
    /\ UNCHANGED <<photos, returnDeliveryBoy, shipment>>
    /\ MoneyFrame

(* requestReturnDropOtp updates the order without looking at it again.     *)
RequestReturnDropOtp(q) ==
    /\ Doing(q, "requestDrop", "loaded")
    /\ otps' = otps \cup {"return_drop"}
    /\ returnStatus' = "return_drop_pending"
    /\ Finish(q)
    /\ UNCHANGED <<photos, returnDeliveryBoy, shipment>>
    /\ MoneyFrame

VerifyReturnDropOtp(q) ==
    /\ Doing(q, "verifyDrop", "loaded")
    /\ otps' = otps \ {"return_drop"}
    /\ SaveStatus(q, "returned")
    /\ Finish(q)
    /\ UNCHANGED <<photos, returnDeliveryBoy, shipment>>
    /\ MoneyFrame

(* "Only allow forward transitions": of these three; the rank of every     *)
(* other status is 0.                                                      *)
orderOf(status) ==
    CASE status = "return_pickup_assigned" -> 1
      [] status = "return_in_transit"      -> 2
      [] status = "returned"               -> 3
      [] OTHER                             -> 0

UpdateReturnStatus(q) ==
    /\ Doing(q, "update", "loaded")
    /\ \E status \in {"return_pickup_assigned", "return_in_transit", "returned"} :
          /\ orderOf(status) >= orderOf(request[q].read)
          /\ SaveStatus(q, status)
    /\ Finish(q)
    /\ UNCHANGED <<photos, returnDeliveryBoy, otps, shipment>>
    /\ MoneyFrame

returnStatusRank(status) ==
    CASE status = "return_approved"        -> 1
      [] status = "return_pickup_assigned" -> 2
      [] status = "return_in_transit"      -> 3
      [] status = "returned"               -> 4
      [] OTHER                             -> 0

(* handleReturnShipmentWebhook, of a parcel on its way.  Only a repetition *)
(* of the very last status is dropped before; there are several that mean  *)
(* "on its way".                                                           *)
HandleReturnShipmentWebhook(q) ==
    /\ Doing(q, "webhook", "loaded")
    /\ returnStatusRank("return_in_transit") > returnStatusRank(request[q].read)
    /\ returnStatus' = "return_in_transit"
    /\ Finish(q)
    /\ UNCHANGED <<photos, returnDeliveryBoy, otps, shipment>>
    /\ MoneyFrame

----------------------------------------------------------------------------
(* updateReturnQcStatus and completeReturnAndRefund.                       *)

QcFrame == UNCHANGED <<client, deliveryType, photos, returnDeliveryBoy, otps,
                       shipment>>

qcStatus_Short(op) == IF op = "qcPass" THEN "passed" ELSE "failed"

qcStatus(op) == IF op = "qcPass" THEN "qc_passed" ELSE "qc_failed"

SaveQc(q) ==
    /\ Doing(q, "qcPass", "loaded") \/ Doing(q, "qcFail", "loaded")
    /\ SaveStatus(q, qcStatus(request[q].op))
    /\ Continue(q, "checked")
    /\ UNCHANGED <<refunds, notes, charged, payoutVars>>
    /\ QcFrame

CreditCustomer(q) ==
    /\ Doing(q, "qcPass", "checked")
    /\ refunds' = refunds + 1
    /\ Continue(q, "credited")
    /\ UNCHANGED <<returnStatus, notes, charged, payoutVars>>
    /\ QcFrame

Noted_Again(note) == notes' = notes \cup {note}

(* Transaction.create: the reference of a transaction is unique. *)
Noted(note) == note \notin notes /\ notes' = notes \cup {note}

NoteRefund(q) ==
    /\ Doing(q, "qcPass", "credited")
    /\ Noted("REF-WALLET")
    /\ Continue(q, "noted")
    /\ UNCHANGED <<returnStatus, refunds, charged, payoutVars>>
    /\ QcFrame

(* The seller's payout is cancelled if it was on hold when the order was   *)
(* loaded and there is one by now; an error is only logged.                *)
CancelPayout(q) ==
    /\ Doing(q, "qcPass", "noted")
    /\ request[q].held
    /\ \/ CancelPendingPayout /\ charged' = charged + 1 /\ Continue(q, "cancelled")
       \/ UNCHANGED <<charged, payoutVars>> /\ Continue(q, "adjusted")
    /\ UNCHANGED <<returnStatus, refunds, notes>>
    /\ QcFrame

RecordCancellation(q) ==
    /\ Doing(q, "qcPass", "cancelled")
    /\ sellerPayout' \in {sellerPayout, "CANCELLED"}
    /\ Continue(q, "adjusted")
    /\ UNCHANGED <<returnStatus, refunds, notes, charged, returnWindow, payout,
                   paid, worker>>
    /\ QcFrame

(* Otherwise his balance is debited, if it is sufficient; if not, that is  *)
(* only logged.                                                            *)
DebitSeller(q) ==
    /\ Doing(q, "qcPass", "noted")
    /\ ~request[q].held
    /\ charged' \in {charged, charged + 1}
    /\ Continue(q, "adjusted")
    /\ UNCHANGED <<returnStatus, refunds, notes, payoutVars>>
    /\ QcFrame

(* The adjustment is noted, and then the order saved as refunded. *)
NoteAdjustment(q) ==
    /\ Doing(q, "qcPass", "adjusted")
    /\ Noted("REF-SELL")
    /\ Continue(q, "documented")
    /\ UNCHANGED <<returnStatus, refunds, charged, payoutVars>>
    /\ QcFrame

CompleteRefund(q) ==
    /\ Doing(q, "qcPass", "documented")
    /\ returnStatus' = "refund_completed"
    /\ Finish(q)
    /\ UNCHANGED <<refunds, notes, charged, payoutVars>>
    /\ QcFrame

(* After a failed check; AUTO_RELEASE_SELLER_PAYOUT is on by default.      *)
LookForHeldPayout(q) ==
    /\ Doing(q, "qcFail", "checked")
    /\ IF payout = "PENDING" THEN Continue(q, "release") ELSE Finish(q)
    /\ UNCHANGED <<returnStatus, refunds, notes, charged, payoutVars>>
    /\ QcFrame

ReleaseAfterFailure(q) ==
    /\ Doing(q, "qcFail", "release")
    /\ ProcessPayout
    /\ Finish(q)
    /\ UNCHANGED <<returnStatus, refunds, notes, charged, returnWindow, worker>>
    /\ QcFrame

----------------------------------------------------------------------------
CustomerAndSellerStep(q) ==
    \/ RequestReturn(q) \/ ApproveReturnRequest(q) \/ CreateReturnOrder(q)
    \/ AssignAWB(q) \/ RejectReturnRequest(q) \/ AssignReturnDelivery(q)
    \/ ReceiveGoods(q)

RiderAndCourierStep(q) ==
    \/ AcceptReturnPickup(q) \/ RejectReturnPickup(q)
    \/ UploadReturnPickupProof(q) \/ VerifyReturnPickupOtp(q)
    \/ RequestReturnDropOtp(q) \/ VerifyReturnDropOtp(q)
    \/ UpdateReturnStatus(q) \/ HandleReturnShipmentWebhook(q)

QcStep(q) ==
    \/ SaveQc(q) \/ CreditCustomer(q) \/ NoteRefund(q) \/ CancelPayout(q)
    \/ RecordCancellation(q) \/ DebitSeller(q) \/ NoteAdjustment(q)
    \/ CompleteRefund(q)
    \/ LookForHeldPayout(q) \/ ReleaseAfterFailure(q)

ReturnsNext ==
    \/ \E q \in Requests, op \in OPERATION : Load(q, op)
    \/ \E q \in Requests : \/ CustomerAndSellerStep(q)
                           \/ RiderAndCourierStep(q) \/ QcStep(q) \/ Die(q)
    \/ RequestReturnPickupOtp
    \/ /\ SellerPayoutStep
       /\ UNCHANGED <<client, deliveryType, returnStatus, photos,
                      returnDeliveryBoy, otps, shipment, refunds, notes,
                      charged, request>>

ReturnsSpec == ReturnsInit /\ [][ReturnsNext]_returnVars

----------------------------------------------------------------------------
(* However requests overlap, nobody is refunded without the photos of the  *)
(* customer and of the pickup that the quality check asks for: a second    *)
(* request for the return, loaded before, cannot take them away.           *)
RefundIsDocumented == refunds > 0 => photos = {"customer", "pickup"}

(* Even if the quality check is repeated, or passes twice at once, the     *)
(* seller loses the money for the order once at most.                      *)
SellerChargedOnce == charged <= 1

(* Used from the screens, a return is refunded once, also when handlers    *)
(* die half-way.                                                           *)
RefundedOnce == client = "apps" => refunds <= 1

Closed == {"return_rejected", "qc_failed", "refund_completed"}

(* "Return status cannot move backwards": used from the screens, a return  *)
(* that is rejected, failed or refunded stays so.                          *)
ClosedStaysClosed ==
    [][client = "apps" /\ returnStatus \in Closed
          => returnStatus' = returnStatus]_returnVars
----------------------------------------------------------------------------
(* The life of a return, as the screens let it go.  Other clients can open *)
(* a closed return again and have it refunded again, so for them nothing   *)
(* is said: the contract sees its first state for ever.                    *)
Phase(status) ==
    CASE status = "return_requested"       -> "asked"
      [] status = "return_rejected"        -> "rejected"
      [] status = "return_approved"        -> "approved"
      [] status = "return_pickup_assigned" -> "assigned"
      [] status = "return_in_transit"      -> "in transit"
      [] status = "return_drop_pending"    -> "in transit"
      [] status = "returned"               -> "back"
      [] status = "qc_passed"              -> "passed"
      [] status = "qc_failed"              -> "failed"
      [] status = "refund_completed"       -> "completed"
      [] OTHER                             -> "none"

FromScreens(value, otherwise) == IF client = "apps" THEN value ELSE otherwise

Life == INSTANCE ReturnContract
    WITH phase   <- FromScreens(Phase(returnStatus), "none"),
         refunds <- FromScreens(refunds, 0),
         charged <- FromScreens(charged, 0)

(* From the screens, every save that was decided on a document loaded      *)
(* earlier is still a step the return may take when it lands, and the      *)
(* money moves at its place in the life of the return, wherever handlers   *)
(* die.                                                                    *)
ReturnKept == Life!LifeSpec
============================================================================
