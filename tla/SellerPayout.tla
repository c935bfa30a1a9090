---------------------------- MODULE SellerPayout ----------------------------
(***************************************************************************)
(* The seller's money for one delivered, prepaid order whose items may be  *)
(* returned: settlement put it on hold, and it is released when the return *)
(* window is over, paid out by whoever finds the payout first, or          *)
(* cancelled with the return.  Returns composes this module with the       *)
(* return of the order.                                                    *)
(*                                                                         *)
(* Each function is one Mongo transaction on a payout it was told of       *)
(* before, so each is one action, with the others' in between.             *)
(***************************************************************************)
EXTENDS Naturals

CONSTANT Workers    \* releases and payout batches under way at once

VARIABLES
    returnStatus,   \* of the order; this module only reads it
    returnWindow,   \* order.returnWindowExpiresAt: "open" or "over"
    sellerPayout,   \* order.settlementStatus.sellerPayout
    payout,         \* status of the Payout document
    paid,           \* how often it was added to the available balance
    worker          \* what each worker is doing

payoutVars == <<returnWindow, sellerPayout, payout, paid, worker>>

RETURN_STATUS ==
    {"none", "return_requested", "return_approved", "return_rejected",
     "return_pickup_assigned", "return_in_transit", "return_drop_pending",
     "returned", "qc_passed", "qc_failed", "refund_completed"}

(* "unset": PAYOUT_STATUS has no CANCELLED, so cancelling a payout removes *)
(* its status.                                                             *)
SellerPayoutTypeOK ==
    /\ returnWindow \in {"open", "over"}
    /\ sellerPayout \in {"HOLD", "PENDING", "COMPLETED", "CANCELLED"}
    /\ payout \in {"none", "PENDING", "COMPLETED", "unset"}
    /\ paid \in Nat
    /\ worker \in [Workers -> {"idle", "listed", "looking", "found"}]

(* settleDeliveredOrder held the payout back. *)
SellerPayoutInit ==
    /\ returnWindow = "open"
    /\ sellerPayout = "HOLD"
    /\ payout = "none"
    /\ paid = 0
    /\ worker = [w \in Workers |-> "idle"]

(* financeFlags.sellerPayoutHeld and sellerPayoutQueued are always written *)
(* along with the status.                                                  *)
Held   == sellerPayout = "HOLD"
Queued == ~Held

Go(w, stage) == worker' = [worker EXCEPT ![w] = stage]

ReturnWindowEnds ==
    /\ returnWindow = "open"
    /\ returnWindow' = "over"
    /\ UNCHANGED <<sellerPayout, payout, paid, worker>>

(* releaseExpiredHeldSellerPayouts, when the seller opens his earnings or  *)
(* another order of his is settled: the orders are listed first.           *)
ListExpired(w) ==
    /\ worker[w] = "idle"
    /\ returnWindow = "over"
    /\ returnStatus \notin {"returned", "qc_passed", "refund_completed"}
    /\ sellerPayout \in {"HOLD", "PENDING"}
    /\ Go(w, "listed")
    /\ UNCHANGED <<returnWindow, sellerPayout, payout, paid>>

(* releaseHeldSellerPayout does not look at the return again.              *)
ReleaseHeld(w) ==
    /\ worker[w] = "listed"
    /\ IF Queued
         THEN UNCHANGED <<sellerPayout, payout>>
         ELSE /\ payout' = "PENDING"
              /\ sellerPayout' = "PENDING"
    /\ Go(w, "looking")
    /\ UNCHANGED <<returnWindow, paid>>

(* autoProcessSellerPayoutForOrder *)
LookForPayout(w) ==
    /\ worker[w] = "looking"
    /\ Go(w, IF payout = "PENDING" THEN "found" ELSE "idle")
    /\ UNCHANGED <<returnWindow, sellerPayout, payout, paid>>

(* bulkProcessPayouts, by the payout batch or an admin. *)
ListPending(w) ==
    /\ worker[w] = "idle"
    /\ payout = "PENDING"
    /\ Go(w, "found")
    /\ UNCHANGED <<returnWindow, sellerPayout, payout, paid>>

Payable_Any == payout # "none"

(* A document without a status is loaded with the default, PENDING.        *)
Payable == payout \in {"PENDING", "unset"}

(* processPayout, of a payout found before; it throws if that is not       *)
(* payable any more.                                                       *)
ProcessPayout ==
    IF Payable
      THEN /\ payout' = "COMPLETED"
           /\ sellerPayout' = "COMPLETED"
           /\ paid' = paid + 1
      ELSE UNCHANGED <<payout, sellerPayout, paid>>

ProcessFound(w) ==
    /\ worker[w] = "found"
    /\ ProcessPayout
    /\ Go(w, "idle")
    /\ UNCHANGED returnWindow

(* cancelPendingPayoutForOrder *)
CancelPendingPayout ==
    /\ payout = "PENDING"
    /\ payout' = "unset"
    /\ UNCHANGED <<returnWindow, sellerPayout, paid, worker>>

SellerPayoutStep ==
    \/ ReturnWindowEnds
    \/ \E w \in Workers : \/ ListExpired(w) \/ ReleaseHeld(w)
                          \/ LookForPayout(w) \/ ListPending(w)
                          \/ ProcessFound(w)

----------------------------------------------------------------------------
(* Releases, batches and the quality check that fails, each acting on a    *)
(* payout it saw earlier, pay the seller once at most, even a payout that  *)
(* was cancelled in between; and an order says HOLD only while it has no   *)
(* payout, so nothing of a held order is ever there to be paid.            *)
PayoutPaidOnce ==
    /\ paid = IF payout = "COMPLETED" THEN 1 ELSE 0
    /\ sellerPayout = "HOLD" => payout = "none"
============================================================================
