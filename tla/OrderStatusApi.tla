--------------------------- MODULE OrderStatusApi ---------------------------
(***************************************************************************)
(* PUT /orders/:id/status beside the workflow service.  updateOrderStatus  *)
(* reads the order, checks what it has read, edits the document in memory  *)
(* and saves it: order.save() writes every path the edit has changed, to   *)
(* the order as it then is.  Sellers, admins and the order's rider use it  *)
(* for the same orders that OrderWorkflow moves with guarded updates.      *)
(***************************************************************************)
EXTENDS OrderWorkflow, Sequences

CONSTANTS
    Requests,   \* status requests that may be in progress
    Self,       \* in place of a rider: the seller's own delivery person
    Overlap     \* whether anything may happen between a read and its save

ASSUME SelfAssumption    == Self \notin Riders \cup {NoRider}
ASSUME OverlapAssumption == Overlap \in BOOLEAN

VARIABLES
    todo,       \* what each request has still to do, in order
    seen,       \* the document it has loaded, or last saved
    edited      \* the document as it has edited it

apiVars == <<todo, seen, edited>>
allVars == <<vars, apiVars>>

NoStatus == "unchanged"     \* the request names no status

loaded == [status |-> status, workflowStatus |-> workflowStatus,
           deliveryBoy |-> deliveryBoy, skippedBy |-> skippedBy]

OrderDocument == [status : LEGACY_STATUS, workflowStatus : WORKFLOW_STATUS,
                  deliveryBoy : Riders \cup {NoRider}, skippedBy : SUBSET Riders]

(* Stands for the document of a request that is over. *)
NoDocument == [status |-> "pending", workflowStatus |-> "CREATED",
               deliveryBoy |-> NoRider, skippedBy |-> {}]

(* What may be left of a plan. *)
PLAN == {<<>>, <<"save">>, <<"settle">>, <<"save", "save">>,
         <<"save", "settle">>, <<"restock", "save">>,
         <<"save", "save", "settle">>, <<"save", "restock", "save">>}

ApiTypeOK ==
    /\ TypeOK
    /\ todo \in [Requests -> PLAN]
    /\ seen \in [Requests -> OrderDocument]
    /\ edited \in [Requests -> OrderDocument]

STATUS_RANK_MAP == [pending |-> 1, confirmed |-> 2, packed |-> 3,
                    out_for_delivery |-> 4, delivered |-> 5, cancelled |-> 6]

workflowFromLegacyStatus_Same(s) == s

workflowFromLegacyStatus(s) ==
    [ pending          |-> "SELLER_PENDING",
      confirmed        |-> "DELIVERY_SEARCH",
      packed           |-> "PICKUP_READY",
      out_for_delivery |-> "OUT_FOR_DELIVERY",
      delivered        |-> "DELIVERED",
      cancelled        |-> "CANCELLED" ][s]

----------------------------------------------------------------------------
isFinalized == \/ status \in {"cancelled", "delivered"}
               \/ workflowStatus \in {"CANCELLED", "DELIVERED"}

awaitingSeller == ~isFinalized /\ (workflowStatus = "SELLER_PENDING" \/ status = "pending")

NotRevived_RankOnly(next) == TRUE

(* "Never revive timed-out / cancelled / delivered orders ..." *)
NotRevived(next) == next # NoStatus /\ isFinalized => next = status

NotBackwards_Finalized(next) == TRUE

NotBackwards(next) == next # NoStatus => STATUS_RANK_MAP[next] >= STATUS_RANK_MAP[status]

(* A seller's first answer goes to sellerAcceptAtomic or sellerRejectAtomic *)
(* and a repeated "confirmed" is answered without effect; the order's own  *)
(* rider may also ask.                                                     *)
MayAsk(role, next) ==
    \/ role = "admin"
    \/ role = "seller" /\ next # "confirmed" /\ ~(next = "cancelled" /\ awaitingSeller)
    \/ role = "delivery" /\ deliveryBoy # NoRider

(* The document once the requested status has been put into it ... *)
WithStatus(next) ==
    IF next = NoStatus THEN loaded
    ELSE [loaded EXCEPT !.status = next,
                        !.workflowStatus = workflowFromLegacyStatus(next)]

(* ... whether it may be given to d, a rider or the seller's own person ... *)
Assignable(doc, d) ==
    \/ d = NoRider
    \/ d = deliveryBoy
    \/ deliveryType # "scheduled" /\ doc.status \in {"packed", "out_for_delivery"}

(* ... and once it has been. *)
WithDelivery(doc, next, d) ==
    CASE d = NoRider -> doc
      [] d = Self    -> [doc EXCEPT !.deliveryBoy = NoRider]
      [] OTHER       ->
           [doc EXCEPT
              !.deliveryBoy = d,
              !.skippedBy = @ \ {d},
              !.workflowStatus =
                 IF next = "packed" \/ @ \in {"DELIVERY_SEARCH", "SELLER_ACCEPTED",
                                              "PICKUP_READY", "DELIVERY_ASSIGNED"}
                   THEN "DELIVERY_ASSIGNED" ELSE @]

Plan_CancelAgain(next, d) ==
    (IF d = NoRider THEN <<>> ELSE <<"save">>) \o
    (IF next = "cancelled" THEN <<"restock", "save">>
     ELSE IF next = "delivered" /\ status # "delivered" THEN <<"save", "settle">>
     ELSE <<"save">>)

(* An assignment is saved at once; stock is put back before the save that  *)
(* cancels, and the settlement comes after the save that delivers.         *)
Plan(next, d) ==
    (IF d = NoRider THEN <<>> ELSE <<"save">>) \o
    (IF next = "cancelled" /\ status # "cancelled" THEN <<"restock", "save">>
     ELSE IF next = "delivered" /\ status # "delivered" THEN <<"save", "settle">>
     ELSE <<"save">>)

ReadOrder(q, role, next, d) ==
    /\ todo[q] = <<>>
    /\ next # NoStatus \/ d # NoRider
    /\ NotRevived(next)
    /\ NotBackwards(next)
    /\ MayAsk(role, next)
    /\ Assignable(WithStatus(next), d)
    /\ todo' = [todo EXCEPT ![q] = Plan(next, d)]
    /\ seen' = [seen EXCEPT ![q] = loaded]
    /\ edited' = [edited EXCEPT ![q] = WithDelivery(WithStatus(next), next, d)]
    /\ UNCHANGED vars

(* A step of the plan; with the last one the document is gone. *)
Perform(q, step) ==
    /\ todo[q] # <<>>
    /\ Head(todo[q]) = step
    /\ todo' = [todo EXCEPT ![q] = Tail(@)]
    /\ IF Tail(todo[q]) = <<>>
         THEN /\ seen' = [seen EXCEPT ![q] = NoDocument]
              /\ edited' = [edited EXCEPT ![q] = NoDocument]
         ELSE /\ seen' = [seen EXCEPT ![q] = IF step = "save" THEN edited[q] ELSE @]
              /\ UNCHANGED edited

(* order.save(): the paths the edit has changed, and nothing is compared   *)
(* with the order they are written to.                                     *)
Written(q, field, current) ==
    IF edited[q][field] # seen[q][field] THEN edited[q][field] ELSE current

SaveOrder(q) ==
    /\ Perform(q, "save")
    /\ status' = Written(q, "status", status)
    /\ workflowStatus' = Written(q, "workflowStatus", workflowStatus)
    /\ deliveryBoy' = Written(q, "deliveryBoy", deliveryBoy)
    /\ skippedBy' = Written(q, "skippedBy", skippedBy)
    /\ UNCHANGED <<paymentMode, deliveryType, financeFlags, paymentStatus,
                   stockVars, attempt, expired, alerts, otp, inFlight,
                   compensation, timeoutRead, verifyVars, jobVars, crashes>>

(* The items are put back one by one; the reservation is not looked at.    *)
RestockOrder(q) ==
    /\ Perform(q, "restock")
    /\ restocked' = restocked + 1
    /\ UNCHANGED <<orderVars, paymentStatus, stockReservation, riderVars,
                   attempt, expired, alerts, otp, inFlight, compensation,
                   timeoutRead, verifyVars, jobVars, crashes>>

SettleOrder(q) ==
    /\ Perform(q, "settle")
    /\ settlements' = settlements + 1
    /\ UNCHANGED <<orderVars, paymentStatus, stockVars, riderVars, attempt,
                   expired, alerts, otp, inFlight, compensation, timeoutRead,
                   verifying, verifier, jobVars, crashes>>

UpdateOrderStatus(q) ==
    \/ \E role \in {"seller", "admin", "delivery"},
          next \in LEGACY_STATUS \cup {NoStatus}, d \in Riders \cup {NoRider, Self} :
          ReadOrder(q, role, next, d)
    \/ SaveOrder(q)
    \/ RestockOrder(q)
    \/ SettleOrder(q)

ApiInit ==
    /\ Init
    /\ todo = [q \in Requests |-> <<>>]
    /\ seen = [q \in Requests |-> NoDocument]
    /\ edited = [q \in Requests |-> NoDocument]

Busy(q) == todo[q] # <<>>

ApiNext ==
    \/ (Overlap \/ \A q \in Requests : ~Busy(q)) /\ Next /\ UNCHANGED apiVars
    \/ \E q \in Requests : /\ Overlap \/ \A p \in Requests \ {q} : ~Busy(p)
                           /\ UpdateOrderStatus(q)

ApiSpec == ApiInit /\ [][ApiNext]_allVars

----------------------------------------------------------------------------
Paid == paymentMode = "COD" \/ captured

Closed == \/ workflowStatus = "CANCELLED"
          \/ workflowStatus = "DELIVERED" /\ Paid

(* "Never revive timed-out / cancelled / delivered orders via a late       *)
(* status update": whoever writes, a cancelled order stays cancelled, and  *)
(* a delivered one that is paid for, or is paid in cash, stays delivered.  *)
NeverRevived == [][Closed => workflowStatus' = workflowStatus]_allVars

(* The legacy status, which sellers and customers are shown, only moves    *)
(* forward, although both the workflow and the requests move it.           *)
StatusNeverBackwards ==
    [][STATUS_RANK_MAP[status'] >= STATUS_RANK_MAP[status]]_allVars

(* The workflow's compensation and a request never both restock the items, *)
(* and the OTP handoff and a request never both settle the order.          *)
RestockedAndSettledOnce == restocked <= 1 /\ settlements <= 1
============================================================================
