------------------------------ MODULE CodCash ------------------------------
(***************************************************************************)
(* The cash of one delivered cash-on-delivery order: who holds it, what    *)
(* the platform believes it has received, what the rider has earned and    *)
(* whether the seller has been paid.                                       *)
(*                                                                         *)
(* Every operation of the finance service is one Mongo transaction that    *)
(* rewrites the order, so each is one action.  Marking the cash collected  *)
(* is two transactions, and a delivery or a remittance is followed by a    *)
(* settlement in another: these have a crash between them.                 *)
(***************************************************************************)
EXTENDS Integers, FiniteSets

CONSTANTS
    Amount,         \* grandTotal of the order
    Others,         \* cash the rider holds for other orders
    Requests,       \* "mark collected" requests
    MaxDeliveries,  \* bound: POST /orders/:id/delivered requests
    MaxCrashes      \* bound: handlers that die half-way

ASSUME AmountAssumption     == Amount \in Nat \ {0}
ASSUME OthersAssumption     == Others \in Nat
ASSUME DeliveriesAssumption == MaxDeliveries \in Nat
ASSUME CashCrashAssumption  == MaxCrashes \in Nat

VARIABLES
    client,             \* "apps": requests come from the apps' screens only,
                        \* "any": whatever request the API accepts
    deliveryMode,       \* "platform" or "self"
    deliveryBoy,        \* "none" or "rider"
    status,             \* of the order: "open" or "delivered"
    codCollectMethod,
    financeFlags,       \* the flags of order.financeFlags that are set
    codCollectedAmount,
    codRemittedAmount,
    codPendingAmount,
    riderCash,          \* cashInHand of the rider's wallet
    sellerCash,         \* cashInHand of the seller's wallet
    adminBalance,       \* what this order has brought into the admin wallet
    returnWindow,       \* order.returnWindowExpiresAt: "unset", "open", "over"
    payout,             \* status of the seller's payout document
    sellerPaid,         \* how often the seller was paid for the order
    collecting,         \* stage of each mark-collected request
    delivering,         \* what the delivery request has still to do
    finalizing,         \* "due": a finalizeCodAfterAdminCredit is to follow
    deliveries,         \* delivery requests so far
    crashes             \* handlers killed so far

breakdown == <<codCollectedAmount, codRemittedAmount, codPendingAmount>>
wallets   == <<riderCash, sellerCash, adminBalance>>
fixed     == <<client, deliveryMode>>
paying    == <<returnWindow, payout, sellerPaid>>
requests  == <<collecting, delivering, finalizing, deliveries, crashes>>

cashVars == <<fixed, deliveryBoy, status, codCollectMethod, financeFlags,
              breakdown, wallets, paying, requests>>

FLAG == {"codMarkedCollected", "codOnlinePaid", "codCashWithRider",
         "codCashWithSeller", "codCashRemittedToAdmin",
         "riderCodEarningCredited", "deliveredSettlementApplied",
         "sellerPayoutQueued", "sellerPayoutHeld"}

CashTypeOK ==
    /\ client \in {"apps", "any"}
    /\ deliveryMode \in {"platform", "self"}
    /\ deliveryBoy \in {"none", "rider"}
    /\ status \in {"open", "delivered"}
    /\ codCollectMethod \in {"none", "online_qr", "cash"}
    /\ financeFlags \in SUBSET FLAG
    /\ codCollectedAmount \in Nat
    /\ codRemittedAmount \in Nat
    /\ codPendingAmount \in Nat
    /\ riderCash \in Nat
    /\ sellerCash \in Nat
    /\ adminBalance \in Nat
    /\ returnWindow \in {"unset", "open", "over"}
    /\ payout \in {"none", "PENDING", "COMPLETED"}
    /\ sellerPaid \in Nat
    /\ collecting \in [Requests -> {"idle", "checked", "collected"}]
    /\ delivering \in {"idle", "self", "settle"}
    /\ finalizing \in {"idle", "due"}
    /\ deliveries \in 0..MaxDeliveries
    /\ crashes \in 0..MaxCrashes

Has(flag) == flag \in financeFlags

(* order.financeFlags = { ...flags, those set, those cleared } *)
Flags(set, cleared) == (financeFlags \ cleared) \cup set

CashInit ==
    /\ client \in {"apps", "any"}
    /\ deliveryMode \in {"platform", "self"}
    /\ deliveryBoy = IF deliveryMode = "platform" THEN "rider" ELSE "none"
    /\ status = "open"
    /\ codCollectMethod = "none"
    /\ financeFlags = {}
    /\ codCollectedAmount = 0
    /\ codRemittedAmount = 0
    /\ codPendingAmount = 0
    /\ riderCash = Others
    /\ sellerCash = 0
    /\ adminBalance = 0
    /\ returnWindow = "unset"
    /\ payout = "none"
    /\ sellerPaid = 0
    /\ collecting = [q \in Requests |-> "idle"]
    /\ delivering = "idle"
    /\ finalizing = "idle"
    /\ deliveries = 0
    /\ crashes = 0

----------------------------------------------------------------------------
(* What the screens offer.                                                 *)

AdminHasPayment == Has("codOnlinePaid") \/ Has("codCashRemittedToAdmin")

(* codNeedsAction of the rider's order page; it is the rider's order.      *)
OnScreen == client = "apps" => deliveryMode = "platform" /\ ~AdminHasPayment

(* The page disables its buttons while a request is under way.             *)
codBusy == \E q \in Requests : collecting[q] # "idle"

MayOffer(button) == client = "apps" => button

Debited_Unclamped(cash, amount) == cash - amount

(* updateCashInHand never lets a wallet go below zero. *)
Debited(cash, amount) == IF cash >= amount THEN cash - amount ELSE 0

(* creditRiderCodEarning: once, and only if the order has a rider.         *)
EarningCredited ==
    IF deliveryBoy = "rider" THEN {"riderCodEarningCredited"} ELSE {}

----------------------------------------------------------------------------
(* Delivery, and the settlement that follows it.                           *)

(* The order becomes delivered by the rider's OTP or by a status update.   *)
(* POST /orders/:id/status, which no screen sends, may be repeated.     *)
Deliver ==
    /\ delivering = "idle"
    /\ deliveries < MaxDeliveries
    /\ status = "delivered" => client = "any"
    /\ status' = "delivered"
    /\ delivering' = IF deliveryMode = "self" THEN "self" ELSE "settle"
    /\ deliveries' = deliveries + 1
    /\ UNCHANGED <<fixed, deliveryBoy, codCollectMethod, financeFlags,
                   breakdown, wallets, paying, collecting, finalizing, crashes>>

(* The seller's own person has collected the cash. *)
MarkSelfDeliveryCodCashWithSeller ==
    /\ delivering = "self"
    /\ delivering' = "settle"
    /\ IF Has("codCashWithSeller")
         THEN UNCHANGED <<codCollectMethod, financeFlags, breakdown, sellerCash>>
         ELSE /\ sellerCash' = sellerCash + Amount
              /\ codCollectedAmount' = Amount
              /\ codPendingAmount' = Amount
              /\ codCollectMethod' = "cash"
              /\ financeFlags' = Flags({"codMarkedCollected", "codCashWithSeller"}
                                           \cup EarningCredited,
                                       {"codCashWithRider"})
              /\ UNCHANGED codRemittedAmount
    /\ UNCHANGED <<fixed, deliveryBoy, status, riderCash, adminBalance,
                   paying, collecting, finalizing, deliveries, crashes>>

(* createPendingSellerPayout: one payout document per order.               *)
CreatePendingSellerPayout ==
    payout' = IF payout = "none" THEN "PENDING" ELSE payout

(* The seller's share is put on hold while the order may be returned, and  *)
(* queued afterwards.                                                      *)
SettleWallets ==
    IF returnWindow' = "open"
      THEN /\ financeFlags' = Flags({"sellerPayoutHeld",
                                     "deliveredSettlementApplied"}, {})
           /\ UNCHANGED payout
      ELSE /\ financeFlags' = Flags({"sellerPayoutQueued",
                                     "deliveredSettlementApplied"}, {})
           /\ CreatePendingSellerPayout

SettlementDue_Delivered == ~Has("deliveredSettlementApplied")

(* COD: wallet credits are deferred until admin receives the money.        *)
SettlementDue == AdminHasPayment /\ ~Has("deliveredSettlementApplied")

(* settleDeliveredOrder; items that cannot be returned have no window.      *)
SettleDeliveredOrder ==
    /\ delivering = "settle"
    /\ delivering' = "idle"
    /\ returnWindow' \in IF returnWindow = "unset" THEN {"open", "over"}
                                                   ELSE {returnWindow}
    /\ IF SettlementDue THEN SettleWallets ELSE UNCHANGED <<financeFlags, payout>>
    /\ UNCHANGED <<fixed, deliveryBoy, status, codCollectMethod, breakdown,
                   wallets, sellerPaid, collecting, finalizing, deliveries,
                   crashes>>

ReturnWindowEnds ==
    /\ returnWindow = "open"
    /\ returnWindow' = "over"
    /\ UNCHANGED <<fixed, deliveryBoy, status, codCollectMethod, financeFlags,
                   breakdown, wallets, payout, sellerPaid, requests>>

----------------------------------------------------------------------------
(* Collecting the cash.                                                    *)

(* "Admin QR" or "Collect Cash".                                           *)
ChooseCodCollectMethod ==
    /\ status = "delivered"
    /\ ~AdminHasPayment
    /\ OnScreen
    /\ MayOffer(codCollectMethod = "none")
    /\ codCollectMethod' \in {"online_qr", "cash"}
    /\ UNCHANGED <<fixed, deliveryBoy, status, financeFlags, breakdown,
                   wallets, paying, requests>>

(* The controller's check, made on a document read before the transaction. *)
CheckNotCollected(q) ==
    /\ status = "delivered"
    /\ collecting[q] = "idle"
    /\ ~Has("codMarkedCollected") /\ ~Has("codCashWithRider")
    /\ OnScreen
    /\ MayOffer(~codBusy /\ codCollectMethod = "cash" /\ ~Has("codCashWithSeller"))
    /\ collecting' = [collecting EXCEPT ![q] = "checked"]
    /\ UNCHANGED <<fixed, deliveryBoy, status, codCollectMethod, financeFlags,
                   breakdown, wallets, paying, delivering, finalizing,
                   deliveries, crashes>>

CollectedFlags_Earned == {"codMarkedCollected", "riderCodEarningCredited"}

(* The rider does not keep his earning out of the cash any more.           *)
CollectedFlags == {"codMarkedCollected"}

AlreadyCollected_Checked == FALSE

(* The transaction does not rely on the controller's check, which another  *)
(* request may have passed too.                                            *)
AlreadyCollected == Has("codMarkedCollected")

(* handleCodOrderFinance: the whole amount is now the rider's cash.        *)
HandleCodOrderFinance(q) ==
    /\ collecting[q] = "checked"
    /\ collecting' = [collecting EXCEPT ![q] = "collected"]
    /\ IF AlreadyCollected
         THEN UNCHANGED <<deliveryBoy, financeFlags, breakdown, riderCash>>
         ELSE /\ deliveryBoy' = "rider"
              /\ riderCash' = riderCash + Amount
              /\ codCollectedAmount' = codCollectedAmount + Amount
              /\ codPendingAmount' = codCollectedAmount + Amount - codRemittedAmount
              /\ financeFlags' = Flags(CollectedFlags, {})
              /\ UNCHANGED codRemittedAmount
    /\ UNCHANGED <<fixed, status, codCollectMethod, sellerCash, adminBalance,
                   paying, delivering, finalizing, deliveries, crashes>>

(* The second transaction of markCodCashCollectedByRider writes the custody *)
(* flags without looking at them.                                          *)
MarkCodCashCollectedByRider(q) ==
    /\ collecting[q] = "collected"
    /\ collecting' = [collecting EXCEPT ![q] = "idle"]
    /\ codCollectMethod' = "cash"
    /\ financeFlags' = Flags({"codCashWithRider"}, {"codCashWithSeller"})
    /\ UNCHANGED <<fixed, deliveryBoy, status, breakdown, wallets, paying,
                   delivering, finalizing, deliveries, crashes>>

(* The customer scanned the admin's QR code.  Who holds cash is not asked; *)
(* the settlement is tried again when the payment is already booked.       *)
MarkCodOnlinePaid ==
    /\ status = "delivered"
    /\ OnScreen
    /\ MayOffer(codCollectMethod = "online_qr")
    /\ finalizing' = "due"
    /\ IF AdminHasPayment
         THEN UNCHANGED <<codCollectMethod, financeFlags, breakdown, adminBalance>>
         ELSE /\ adminBalance' = adminBalance + Amount
              /\ codCollectedAmount' = Amount
              /\ codRemittedAmount' = Amount
              /\ codPendingAmount' = 0
              /\ codCollectMethod' = "online_qr"
              /\ financeFlags' = Flags({"codOnlinePaid", "codMarkedCollected",
                                        "codCashRemittedToAdmin"}
                                           \cup EarningCredited, {})
    /\ UNCHANGED <<fixed, deliveryBoy, status, riderCash, sellerCash, paying,
                   collecting, delivering, deliveries, crashes>>

HandsOver_Again == Has("codMarkedCollected") /\ codCollectMethod = "cash"

HandsOver ==
    /\ Has("codCashWithRider") /\ Has("codMarkedCollected")
    /\ ~Has("codCashWithSeller")

(* The rider hands the cash to the store, or the store confirms it.        *)
HandoffCodCashToSeller ==
    /\ HandsOver
    /\ deliveryBoy = "rider"
    /\ codPendingAmount > 0
    /\ riderCash' = Debited(riderCash, codPendingAmount)
    /\ sellerCash' = sellerCash + codPendingAmount
    /\ financeFlags' = Flags({"codCashWithSeller"} \cup EarningCredited,
                             {"codCashWithRider"})
    /\ UNCHANGED <<fixed, deliveryBoy, status, codCollectMethod, breakdown,
                   adminBalance, paying, requests>>

RemittedFlags_Early(pending) ==
    Flags({"codCashRemittedToAdmin"}, {"codCashWithSeller"})

RemittedFlags(pending) ==
    IF pending = 0 THEN Flags({"codCashRemittedToAdmin"}, {"codCashWithSeller"})
                   ELSE financeFlags

(* The seller pays n of the cash to admin; the settlement is tried after   *)
(* every payment.                                                          *)
SellerRemitCodCash(n) ==
    LET left == Debited(codCollectedAmount, codRemittedAmount + n)
    IN  /\ Has("codCashWithSeller")
        /\ n <= codPendingAmount
        /\ sellerCash' = Debited(sellerCash, n)
        /\ adminBalance' = adminBalance + n
        /\ codRemittedAmount' = codRemittedAmount + n
        /\ codPendingAmount' = left
        /\ financeFlags' = RemittedFlags(left)
        /\ finalizing' = "due"
        /\ UNCHANGED <<fixed, deliveryBoy, status, codCollectMethod,
                       codCollectedAmount, riderCash, paying, collecting,
                       delivering, deliveries, crashes>>

Outstanding_Collected == codCollectedAmount

Outstanding == codCollectedAmount - codRemittedAmount

(* An admin books cash the rider has brought in; no screen sends this.     *)
ReconcileCodCash(n) ==
    /\ client = "any"
    /\ n <= Outstanding
    /\ riderCash' = Debited(riderCash, n)
    /\ adminBalance' = adminBalance + n
    /\ codRemittedAmount' = codRemittedAmount + n
    /\ codPendingAmount' = codCollectedAmount - (codRemittedAmount + n)
    /\ financeFlags' = IF codPendingAmount' = 0 THEN Flags(EarningCredited, {})
                                                ELSE financeFlags
    /\ UNCHANGED <<fixed, deliveryBoy, status, codCollectMethod,
                   codCollectedAmount, sellerCash, paying, requests>>

----------------------------------------------------------------------------
(* Paying the seller.                                                      *)

(* settleCodWalletsAfterAdminCredit; it throws while part is outstanding.  *)
SettleCodWalletsAfterAdminCredit ==
    /\ finalizing = "due"
    /\ finalizing' = "idle"
    /\ UNCHANGED returnWindow
    /\ IF SettlementDue THEN SettleWallets ELSE UNCHANGED <<financeFlags, payout>>
    /\ UNCHANGED <<fixed, deliveryBoy, status, codCollectMethod, breakdown,
                   wallets, sellerPaid, collecting, delivering, deliveries,
                   crashes>>

(* releaseHeldSellerPayout, for every delivered order of the seller whose  *)
(* return window is over, when he opens his earnings page or one of his    *)
(* orders is settled.  It asks for delivery, not for the money.            *)
ReleaseHeldSellerPayout ==
    /\ status = "delivered"
    /\ returnWindow = "over"
    /\ ~Has("sellerPayoutQueued")
    /\ CreatePendingSellerPayout
    /\ financeFlags' = Flags({"sellerPayoutQueued"}, {"sellerPayoutHeld"})
    /\ UNCHANGED <<fixed, deliveryBoy, status, codCollectMethod, breakdown,
                   wallets, returnWindow, sellerPaid, requests>>

(* processPayout, by the release itself or by the payout batch.            *)
ProcessPayout ==
    /\ payout = "PENDING"
    /\ payout' = "COMPLETED"
    /\ sellerPaid' = sellerPaid + 1
    /\ financeFlags' = Flags({"sellerPayoutQueued"}, {"sellerPayoutHeld"})
    /\ UNCHANGED <<fixed, deliveryBoy, status, codCollectMethod, breakdown,
                   wallets, returnWindow, requests>>

----------------------------------------------------------------------------
(* A handler dies, or throws, between two of its transactions. *)
Crash ==
    /\ crashes < MaxCrashes
    /\ crashes' = crashes + 1
    /\ \/ /\ \E q \in Requests : /\ collecting[q] # "idle"
                                 /\ collecting' = [collecting EXCEPT ![q] = "idle"]
          /\ UNCHANGED <<delivering, finalizing>>
       \/ /\ delivering # "idle"
          /\ delivering' = "idle"
          /\ UNCHANGED <<collecting, finalizing>>
       \/ /\ finalizing = "due"
          /\ finalizing' = "idle"
          /\ UNCHANGED <<collecting, delivering>>
    /\ UNCHANGED <<fixed, deliveryBoy, status, codCollectMethod, financeFlags,
                   breakdown, wallets, paying, deliveries>>

CashNext ==
    \/ Deliver \/ MarkSelfDeliveryCodCashWithSeller \/ SettleDeliveredOrder
    \/ ReturnWindowEnds
    \/ ChooseCodCollectMethod
    \/ \E q \in Requests : \/ CheckNotCollected(q)
                           \/ HandleCodOrderFinance(q)
                           \/ MarkCodCashCollectedByRider(q)
    \/ MarkCodOnlinePaid
    \/ HandoffCodCashToSeller
    \/ \E n \in 1..Amount : SellerRemitCodCash(n) \/ ReconcileCodCash(n)
    \/ SettleCodWalletsAfterAdminCredit
    \/ ReleaseHeldSellerPayout \/ ProcessPayout
    \/ Crash

CashSpec == CashInit /\ [][CashNext]_cashVars
----------------------------------------------------------------------------
HeldByRider == /\ Has("codMarkedCollected")
               /\ ~Has("codCashWithSeller") /\ ~AdminHasPayment

(* Used from the screens, the API accounts for every rupee: what is        *)
(* pending is with exactly one holder, whose wallet shows it, and admin    *)
(* has received what the order says was remitted.                          *)
CashAccounted ==
    client = "apps" =>
        /\ riderCash = Others + (IF HeldByRider THEN codPendingAmount ELSE 0)
        /\ sellerCash = IF Has("codCashWithSeller") THEN codPendingAmount ELSE 0
        /\ adminBalance = codRemittedAmount
        /\ codRemittedAmount + codPendingAmount = codCollectedAmount

(* "once the full cash they collected has actually left their hands": used *)
(* from the screens, the rider's earning is credited then and not before.  *)
EarningFollowsCash ==
    client = "apps" /\ deliveryMode = "platform" =>
        (Has("riderCodEarningCredited") <=> Has("codMarkedCollected") /\ ~HeldByRider)

(* However many requests find the cash not collected yet, and whoever      *)
(* calls what in between, the order's amount is collected once, and the    *)
(* rider never owes more than that for it.                                 *)
CollectedOnce ==
    /\ codCollectedAmount \in {0, Amount}
    /\ riderCash <= Others + codCollectedAmount

(* Collected cash can always be handed on, if no handler has died: one of  *)
(* the two custody flags is set that the hand-over and the remittance ask  *)
(* for.                                                                    *)
CashMovesOn ==
    client = "apps" /\ crashes = 0 /\ ~codBusy /\ codPendingAmount > 0
        => Has("codCashWithRider") \/ Has("codCashWithSeller")

(* Whoever calls in whatever order, the order is settled only when admin   *)
(* has received at least its full amount.                                  *)
SettledWhenAdminHasMoney ==
    Has("deliveredSettlementApplied") => adminBalance >= Amount

(* The release of expired holds, two settlements, the payout batch and     *)
(* repeated requests together pay the seller at most once.                 *)
SellerPaidOnce == sellerPaid = IF payout = "COMPLETED" THEN 1 ELSE 0

(* Once admin has the payment no wallet moves any more, unless the same    *)
(* self-delivered order is delivered again.                                *)
PaymentIsFinal ==
    [][AdminHasPayment /\ (client = "apps" \/ deliveryMode = "platform")
            => UNCHANGED wallets]_cashVars

(* "COD: defer seller/rider/commission wallet credits until admin receives *)
(* money (QR paid or seller remittance)."                                  *)
SellerPaidAfterAdmin == sellerPaid > 0 => AdminHasPayment

----------------------------------------------------------------------------
(* The way of the cash, as the screens let it go.  Other clients can make  *)
(* the wallets disagree (CashAccounted), so for them nothing is said: the  *)
(* contract sees its first state for ever.                                 *)
FromScreens(value, otherwise) == IF client = "apps" THEN value ELSE otherwise

Custody == INSTANCE CashContract
    WITH courier  <- deliveryMode,
         customer <- FromScreens(Amount - codCollectedAmount, Amount),
         rider    <- FromScreens(riderCash - Others, 0),
         seller   <- FromScreens(sellerCash, 0),
         admin    <- FromScreens(adminBalance, 0),
         earned   <- FromScreens(Has("riderCodEarningCredited"), FALSE),
         settled  <- FromScreens(Has("deliveredSettlementApplied"), FALSE)

(* From the screens, wallets, flags and amounts move together: every step  *)
(* that touches one of them passes the cash on from its one holder to the  *)
(* next, whatever handlers die in between.                                 *)
CashKept == Custody!CustodySpec
============================================================================
